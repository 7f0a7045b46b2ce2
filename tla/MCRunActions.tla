---------------------------- MODULE MCRunActions ----------------------------
(***************************************************************************)
(* RunActions for TLC.  No definition tells one client from another, so    *)
(* the runs that check no liveness may permute them.                       *)
(***************************************************************************)
EXTENDS RunActions, TLC

Symmetry == Permutations(Clients)

=============================================================================
