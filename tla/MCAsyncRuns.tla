---------------------------- MODULE MCAsyncRuns ----------------------------
(***************************************************************************)
(* AsyncRuns for TLC.  No definition of AsyncRuns tells one process from   *)
(* another, so the runs that check no liveness may permute them.           *)
(***************************************************************************)
EXTENDS AsyncRuns, TLC

Symmetry == Permutations(Procs)

=============================================================================
