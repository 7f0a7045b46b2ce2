--------------------------- MODULE DecisionLedger ---------------------------
(***************************************************************************)
(* What a decision boundary promises: the plan a run proposes is decided   *)
(* once, whoever asks and however often; an approval is used up before     *)
(* the plan is executed, so that the plan is executed at most once; and a  *)
(* plan that was rejected, or whose decision expired, never runs.  Who     *)
(* decides, and in which transactions, is in module RunActions.            *)
(***************************************************************************)

VARIABLES
  decision,  \* status of the decision
  executed   \* how often the approved plan has run

vars == <<decision, executed>>

Init == decision \in {"ABSENT", "PENDING"} /\ executed = 0

Move(from, to) == decision = from /\ decision' = to /\ UNCHANGED executed

Propose == Move("ABSENT", "PENDING")

Decide == \E verdict \in {"ACCEPTED", "REJECTED", "EXPIRED"} : Move("PENDING", verdict)

Consume == Move("ACCEPTED", "CONSUMED")

Execute ==
  /\ decision = "CONSUMED" /\ executed = 0
  /\ executed' = 1
  /\ UNCHANGED decision

Next == Propose \/ Decide \/ Consume \/ Execute

Spec == Init /\ [][Next]_vars

=============================================================================
