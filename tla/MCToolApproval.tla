--------------------------- MODULE MCToolApproval ---------------------------
(***************************************************************************)
(* ToolApproval for TLC.                                                   *)
(***************************************************************************)
EXTENDS ToolApproval, TLC

Symmetry == Permutations(Clients) \cup Permutations(Processes) \cup Permutations(Approvals)

=============================================================================
