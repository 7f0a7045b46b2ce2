------------------------------ MODULE PlanLog ------------------------------
(***************************************************************************)
(* What the execution of a plan promises: a log of the steps that were     *)
(* tried to the end, in the order of the plan, each with its outcome.  An  *)
(* execution appends to it and never takes anything back, whatever it      *)
(* replans; it goes past a failed step at most Limit times and never tries *)
(* a step that is in the log.  A retry forgets the log from the first      *)
(* failed step on.                                                         *)
(***************************************************************************)
EXTENDS Naturals, Sequences, FiniteSets

CONSTANT Limit  \* how many failed steps an execution may go past

VARIABLES
  log,   \* the steps that have ended: records [id, status]
  open   \* an execution is under way

vars == <<log, open>>

Failures(entries) == {i \in DOMAIN entries : entries[i].status = "FAILED"}

Init == log = <<>> /\ open = TRUE

Settle ==
  /\ open /\ open' = TRUE
  /\ Cardinality(Failures(log)) <= Limit
  /\ Len(log') = Len(log) + 1
  /\ SubSeq(log', 1, Len(log)) = log
  /\ log'[Len(log')].id \notin {log[i].id : i \in DOMAIN log}

Close == open /\ open' = FALSE /\ UNCHANGED log

Retry ==
  /\ ~open /\ open' = TRUE
  /\ \E i \in Failures(log) :
       /\ \A j \in 1..(i - 1) : log[j].status = "COMPLETED"
       /\ log' = SubSeq(log, 1, i - 1)

Next == Settle \/ Close \/ Retry

Spec == Init /\ [][Next]_vars

=============================================================================
