--------------------------- MODULE PlanExecution ---------------------------
(***************************************************************************)
(* The execution of a validated plan: the loops of RuntimeRunLifecycle     *)
(* and RuntimeDecisionResume over its steps, execute_step with its bounded *)
(* attempts, adaptive replanning when a step has failed, and retry_failed  *)
(* on the run that failed in the end.  One thread executes; cancel         *)
(* requests and the deadline come from outside, between any two steps.     *)
(*                                                                         *)
(* A plan step is its id and the ids it depends on; tool, arguments and   *)
(* result are left out.                                                    *)
(***************************************************************************)
EXTENDS Integers, Sequences, FiniteSets

CONSTANTS
  Originals,     \* validated plans a run may start with
  Replacements,  \* step sequences the planner may answer a replan with
  MaxSteps,      \* max_steps of validate_plan
  MaxRetries,    \* max_retries of execute_step
  Limit,         \* ReplanningPolicy.limit
  MaxReruns      \* bound: retries of the failed run

\* An id is the sequence of the parts between its dashes: a natural number is that
\* number, a negative one a word, and Word the word "replan".
Id == Seq(Int)

Word == -1

PlanStep == [id : Id, deps : SUBSET Id]

DistinctIds(drafts) ==
  \A i, j \in DOMAIN drafts : drafts[i].id = drafts[j].id => i = j

\* validate_plan: dependencies point backwards, and there are 1..MaxSteps steps.
Valid(drafts) ==
  /\ Len(drafts) \in 1..MaxSteps
  /\ \A i \in DOMAIN drafts :
       drafts[i].deps \subseteq {drafts[j].id : j \in 1..(i - 1)}

PlannerAnswer(drafts) == drafts \in Seq(PlanStep) /\ DistinctIds(drafts)

ASSUME OriginalsAssumption ==
  \A drafts \in Originals : PlannerAnswer(drafts) /\ Valid(drafts)
ASSUME ReplacementsAssumption ==
  \A drafts \in Replacements : PlannerAnswer(drafts)
ASSUME BoundsAssumption ==
  MaxSteps \in Nat /\ MaxRetries \in Nat /\ Limit \in Nat /\ MaxReruns \in Nat

VARIABLES
  plan,      \* result.plan.steps
  steps,     \* result.steps: the record of each step
  status,    \* result.status
  pc,        \* where the thread is in execute_step
  at,        \* index of the step it is at
  completed, \* ids that later steps may depend on
  replans,   \* replan_count: replan rounds used, a repair of the plan included
  events,    \* failed_step_id of the rounds of result.replan_events
  flag,      \* a cancel of the run is requested
  late,      \* the deadline of the execution has passed
  reruns,    \* retries so far
  \* bookkeeping of the model
  after      \* tool calls since the cancel was requested

vars == <<plan, steps, status, pc, at, completed, replans, events, flag, late,
          reruns, after>>

-----------------------------------------------------------------------------
StepStatus == {"PENDING", "RUNNING", "COMPLETED", "FAILED", "BLOCKED"}

RunEnd == {"COMPLETED", "FAILED", "CANCELLED", "TIMED_OUT"}

StepRun == [id : Id, status : StepStatus, attempts : Nat]

Fresh(step) == [id |-> step.id, status |-> "PENDING", attempts |-> 0]

Ids(sequence) == {sequence[i].id : i \in DOMAIN sequence}

Init ==
  /\ plan \in Originals
  /\ steps = [i \in DOMAIN plan |-> Fresh(plan[i])]
  /\ status = "EXECUTING"
  /\ pc = "step"
  /\ at = 1
  /\ completed = {}
  /\ replans \in {0, 1} \cap 0..Limit
  /\ events = {}
  /\ flag = FALSE
  /\ late = FALSE
  /\ reruns = 0
  /\ after = 0

SetStep(new) == steps' = [steps EXCEPT ![at].status = new]

\* A retry has no deadline and never replans.
Rerun == reruns > 0

\* check_control raises.
Stopped == flag \/ (late /\ ~Rerun)

-----------------------------------------------------------------------------
(* The end of an execution.                                                *)

\* block_remaining_steps.
Blocked(records, from) ==
  [i \in DOMAIN records |->
     IF i >= from /\ records[i].status = "PENDING"
       THEN [records[i] EXCEPT !.status = "BLOCKED"] ELSE records[i]]

End(outcome) == status' = outcome /\ pc' = "end"

\* What check_control raises ends the run as; retry_failed catches it as any
\* other exception.
StopOutcome == IF Rerun THEN "FAILED" ELSE IF flag THEN "CANCELLED" ELSE "TIMED_OUT"

\* Mutant of Stop: the step that was about to start is not blocked.
StopAfter(outcome) ==
  /\ steps' = Blocked(steps, at + 1)
  /\ End(outcome)
  /\ UNCHANGED <<plan, at, completed, replans, events, flag, late, reruns, after>>

\* RunCancelled or RunTimedOut: the step itself is blocked unless it has
\* started.
Stop(outcome) ==
  /\ steps' = Blocked(steps, at)
  /\ End(outcome)
  /\ UNCHANGED <<plan, at, completed, replans, events, flag, late, reruns, after>>

\* Any other exception that is not answered with a new plan.
GiveUp ==
  /\ steps' = Blocked(steps, at + 1)
  /\ End("FAILED")
  /\ UNCHANGED <<plan, at, completed, replans, events, flag, late, reruns, after>>

\* The loop has gone through all steps.
Finish ==
  /\ pc = "step" /\ at > Len(plan)
  /\ End("COMPLETED")
  /\ UNCHANGED <<plan, steps, at, completed, replans, events, flag, late, reruns, after>>

-----------------------------------------------------------------------------
(* One step: execute_step.                                                 *)

AtStep == pc = "step" /\ at <= Len(plan)

\* check_control, in the loop and again after the preflight of the tool.
StopBefore == AtStep /\ Stopped /\ Stop(StopOutcome)

\* Mutant of Missing: a dependency is a step of the plan.
MissingInPlan == plan[at].deps \ Ids(plan)

Missing == plan[at].deps \ completed

\* A dependency is missing, or a reference of the arguments to an earlier
\* result leads nowhere.  The exception comes before the step has a status, and
\* without a FAILED step should_replan says no.
Refuse == AtStep /\ GiveUp

\* The preflight policy forbids the call.
Forbid ==
  /\ AtStep /\ Missing = {}
  /\ SetStep("FAILED")
  /\ pc' = "failed"
  /\ UNCHANGED <<plan, status, at, completed, replans, events, flag, late, reruns, after>>

Begin ==
  /\ AtStep /\ Missing = {} /\ ~Stopped
  /\ SetStep("RUNNING")
  /\ pc' = "check"
  /\ UNCHANGED <<plan, status, at, completed, replans, events, flag, late, reruns, after>>

\* check_control before an attempt.
StopBetween == pc = "check" /\ Stopped /\ Stop(StopOutcome)

Attempt ==
  /\ pc = "check" /\ ~Stopped
  /\ steps' = [steps EXCEPT ![at].attempts = @ + 1]
  /\ pc' = "call"
  /\ UNCHANGED <<plan, status, at, completed, replans, events, flag, late, reruns, after>>

\* No time remains for the call.
TooLate == pc = "call" /\ late /\ ~Rerun /\ Stop("TIMED_OUT")

CountCall == after' = IF flag THEN after + 1 ELSE after

\* The tool returns, and the loop goes on to the next step.
Succeed ==
  /\ pc = "call"
  /\ SetStep("COMPLETED")
  /\ completed' = completed \cup {plan[at].id}
  /\ at' = at + 1
  /\ pc' = "step"
  /\ CountCall
  /\ UNCHANGED <<plan, status, replans, events, flag, late, reruns>>

\* Mutant of TryAgain: the next attempt comes without a check.
TryAtOnce ==
  /\ pc = "call" /\ steps[at].attempts <= MaxRetries
  /\ steps' = [steps EXCEPT ![at].attempts = @ + 1]
  /\ CountCall
  /\ UNCHANGED <<plan, status, pc, at, completed, replans, events, flag, late, reruns>>

\* Mutant of TryAgain: the attempts do not count.
TryForever ==
  /\ pc = "call"
  /\ pc' = "check"
  /\ steps' = [steps EXCEPT ![at].attempts = 0]
  /\ CountCall
  /\ UNCHANGED <<plan, status, at, completed, replans, events, flag, late, reruns>>

\* A ToolError that may be retried; attempts are left.
TryAgain ==
  /\ pc = "call" /\ steps[at].attempts <= MaxRetries
  /\ pc' = "check"
  /\ CountCall
  /\ UNCHANGED <<plan, steps, status, at, completed, replans, events, flag, late, reruns>>

\* Mutant of Fail: execute_step marks the step and returns.
FailAndReturn ==
  /\ pc = "call"
  /\ SetStep("FAILED")
  /\ at' = at + 1
  /\ pc' = "step"
  /\ CountCall
  /\ UNCHANGED <<plan, status, completed, replans, events, flag, late, reruns>>

\* A ToolError that may not be retried, a time-out among them, or the last one.
Fail ==
  /\ pc = "call"
  /\ SetStep("FAILED")
  /\ pc' = "failed"
  /\ CountCall
  /\ UNCHANGED <<plan, status, at, completed, replans, events, flag, late, reruns>>

-----------------------------------------------------------------------------
(* Replanning: try_replan and merge_replanned_plan.                        *)

\* The steps up to and including the failed one.
Kept == SubSeq(plan, 1, at)

\* The names the loop tries for draft j: the draft's own, "replan-<failed>-<index>",
\* and this with the number of ids in use, those of the kept steps and of the drafts
\* before it.
Names(draft, j) ==
  LET name == <<Word>> \o plan[at].id \o <<j - 1>>
  IN <<draft.id, name, Append(name, at + j - 1)>>

\* The ids in use when draft j gets its own.
Used(ids, j) == Ids(Kept) \cup {ids[k] : k \in 1..(j - 1)}

\* A name in use is replaced by the next, and the last one by itself.
NewId(draft, used, j) ==
  LET names == Names(draft, j)
  IN IF names[1] \notin used THEN names[1]
     ELSE IF names[2] \notin used THEN names[2] ELSE names[3]

\* The ids of a merge, each made in view of those before it.
NewIds(drafts) ==
  {ids \in {[j \in DOMAIN drafts |-> Names(drafts[j], j)[tries[j]]] :
              tries \in [DOMAIN drafts -> 1..3]} :
     \A j \in DOMAIN drafts : ids[j] = NewId(drafts[j], Used(ids, j), j)}

\* Mutant of AllNew: the loop does not test the last name.
Untested(ids) == TRUE

\* Every id is new; otherwise the loop tests the same one again and again.
AllNew(ids) == \A j \in DOMAIN ids : ids[j] \notin Used(ids, j)

\* Dependencies within the replacement are mapped, those on kept steps stay, all
\* others are dropped.
NewDeps(drafts, ids, j) ==
  {ids[k] : k \in {k \in DOMAIN drafts : drafts[k].id \in drafts[j].deps}}
  \cup ((drafts[j].deps \ Ids(drafts)) \cap Ids(Kept))

Merged(drafts, ids) ==
  Kept \o [j \in DOMAIN drafts |-> [id |-> ids[j], deps |-> NewDeps(drafts, ids, j)]]

\* Mutant of Rebuilt: every step gets a new record.
RebuiltFresh(merged) == [i \in DOMAIN merged |-> Fresh(merged[i])]

\* A step whose id has a record already, be it of a dropped step, gets that one.
Rebuilt(merged) ==
  [i \in DOMAIN merged |->
     IF merged[i].id \in Ids(steps)
       THEN CHOOSE record \in {steps[k] : k \in DOMAIN steps} : record.id = merged[i].id
       ELSE Fresh(merged[i])]

\* Mutant of MayReplan: rounds are not limited.
AlwaysReplan == pc = "failed" /\ ~Rerun

\* should_replan.
MayReplan == pc = "failed" /\ ~Rerun /\ replans < Limit

Replan(drafts) ==
  /\ MayReplan
  /\ \E ids \in NewIds(drafts) :
       /\ AllNew(ids)
       /\ Valid(Merged(drafts, ids))
       /\ plan' = Merged(drafts, ids)
       /\ steps' = Rebuilt(Merged(drafts, ids))
  /\ events' = events \cup {plan[at].id}
  /\ replans' = replans + 1
  /\ at' = at + 1
  /\ pc' = "step"
  /\ UNCHANGED <<status, completed, flag, late, reruns, after>>

\* Both names of a draft are in use: the thread stays in the loop of the merge.
Hang(drafts) ==
  /\ MayReplan
  /\ \E ids \in NewIds(drafts) : ~AllNew(ids)
  /\ pc' = "merge"
  /\ UNCHANGED <<plan, steps, status, at, completed, replans, events, flag, late, reruns, after>>

\* No round is left, or the planner has nothing valid to offer.
Abandon == pc = "failed" /\ GiveUp

-----------------------------------------------------------------------------
(* From outside, and the retry of the run.                                 *)

Cancel ==
  /\ status = "EXECUTING" /\ ~flag
  /\ flag' = TRUE
  /\ UNCHANGED <<plan, steps, status, pc, at, completed, replans, events, late, reruns, after>>

Deadline ==
  /\ status = "EXECUTING" /\ ~late /\ ~Rerun
  /\ late' = TRUE
  /\ UNCHANGED <<plan, steps, status, pc, at, completed, replans, events, flag, reruns, after>>

FirstFailed(i) ==
  /\ steps[i].status = "FAILED"
  /\ \A j \in 1..(i - 1) : steps[j].status # "FAILED"

\* Everything from the first failed step on is reset, completed steps that a
\* replan has brought included.
Reset(i) ==
  [k \in DOMAIN steps |->
     IF k >= i THEN [steps[k] EXCEPT !.status = "PENDING", !.attempts = 0] ELSE steps[k]]

\* retry_failed refuses a run without a failed step, or with one that is not
\* completed before it.
Retry ==
  /\ status = "FAILED" /\ reruns < MaxReruns
  /\ \E i \in DOMAIN steps :
       /\ FirstFailed(i)
       /\ \A j \in 1..(i - 1) : steps[j].status = "COMPLETED"
       /\ completed' = {steps[j].id : j \in 1..(i - 1)}
       /\ steps' = Reset(i)
       /\ at' = i
  /\ status' = "EXECUTING"
  /\ pc' = "step"
  /\ flag' = FALSE
  /\ after' = 0
  /\ reruns' = reruns + 1
  /\ UNCHANGED <<plan, replans, events, late>>

-----------------------------------------------------------------------------
Execute ==
  \/ Finish \/ StopBefore \/ Refuse \/ Forbid \/ Begin
  \/ StopBetween \/ Attempt \/ TooLate \/ Succeed \/ TryAgain \/ Fail
  \/ Abandon \/ \E drafts \in Replacements : Replan(drafts) \/ Hang(drafts)

Next == Execute \/ Cancel \/ Deadline \/ Retry

Spec == Init /\ [][Next]_vars

\* The thread keeps running: tools and the planner return or time out.  In "merge" it
\* runs for nothing.
FairSpec == Spec /\ WF_vars(Execute)

-----------------------------------------------------------------------------
(* Properties.                                                             *)

\* Every variable keeps its type; attempts and replan rounds their limits.
TypeOK ==
  /\ plan \in Seq(PlanStep)
  /\ steps \in Seq(StepRun)
  /\ status \in RunEnd \cup {"EXECUTING"}
  /\ pc \in {"step", "check", "call", "failed", "merge", "end"}
  /\ at \in Nat \ {0}
  /\ completed \subseteq Id
  /\ replans \in 0..Limit
  /\ events \subseteq Id
  /\ flag \in BOOLEAN
  /\ late \in BOOLEAN
  /\ reruns \in 0..MaxReruns
  /\ after \in Nat
  /\ \A i \in DOMAIN steps : steps[i].attempts <= MaxRetries + 1

\* The loop takes the record and the plan step by position, dependencies and
\* replans take them by id.  Through every merge both lead to the same step: the
\* records are in the order of the plan, and no id occurs twice.
Aligned ==
  /\ Len(steps) = Len(plan)
  /\ \A i \in DOMAIN plan : steps[i].id = plan[i].id
  /\ DistinctIds(plan)

\* A run that is reported COMPLETED has completed every step of its plan, but
\* those it has replanned around; after a retry there are none of these.
CompletedIsWhole ==
  status = "COMPLETED" =>
    \A i \in DOMAIN steps :
      \/ steps[i].status = "COMPLETED"
      \/ steps[i].status = "FAILED" /\ steps[i].id \in events /\ ~Rerun

\* No step has a result that was computed without the results it depends on,
\* whichever round planned it and however ids were rewritten.
DependenciesHold ==
  \A i, j \in DOMAIN plan :
    steps[i].status = "COMPLETED" /\ plan[j].id \in plan[i].deps
      => steps[j].status = "COMPLETED"

\* "Cancel and time-out keep the completed steps and mark the steps after them
\* as blocked": no step is left to be done, and at most one is cut off.
StoppedIsBlocked ==
  status \in {"CANCELLED", "TIMED_OUT"} =>
    /\ \A i \in DOMAIN steps : steps[i].status # "PENDING"
    /\ Cardinality({i \in DOMAIN steps : steps[i].status = "RUNNING"}) <= 1

\* "The current tool is allowed to return; Runtime then stops": once a cancel is
\* requested at most one more call of a tool comes to its end.
CancelStops == after <= 1

\* Why these hold, as an inductive invariant.  Dependencies point backwards
\* through every merge.
Backward ==
  \A i \in DOMAIN plan : plan[i].deps \subseteq {plan[j].id : j \in 1..(i - 1)}

\* What an execution has left behind is completed or replanned around, what is
\* before it is untouched, and the step it is at is as pc has it.
Progress ==
  /\ at \in 1..(Len(plan) + 1)
  /\ pc \in {"check", "call", "failed", "merge"} => at <= Len(plan)
  /\ pc = "end" <=> status # "EXECUTING"
  /\ status = "EXECUTING" =>
       /\ \A i \in DOMAIN steps :
            /\ i < at => \/ steps[i].status = "COMPLETED"
                         \/ steps[i].status = "FAILED" /\ steps[i].id \in events /\ ~Rerun
            /\ i > at => steps[i].status = "PENDING"
            /\ i = at => \/ pc = "step" /\ steps[i].status = "PENDING"
                         \/ pc \in {"check", "call"} /\ steps[i].status = "RUNNING"
                         \/ pc \in {"failed", "merge"} /\ steps[i].status = "FAILED"
       /\ completed = {steps[j].id : j \in {k \in 1..(at - 1) : steps[k].status = "COMPLETED"}}
       /\ pc \in {"check", "call"} => plan[at].deps \subseteq completed

\* Attempts and calls are counted from a fresh step and from the cancel.
Counted ==
  /\ \A i \in DOMAIN steps : steps[i].status = "PENDING" => steps[i].attempts = 0
  /\ pc = "check" => steps[at].attempts <= MaxRetries
  /\ ~flag \/ pc = "call" => after = 0

\* Where it was stopped, only the step it was at may have been cut off.
CutOff ==
  status \in {"CANCELLED", "TIMED_OUT"} =>
    \A i \in DOMAIN steps :
      steps[i].status # "PENDING" /\ (steps[i].status = "RUNNING" => i = at)

PlanInv ==
  /\ Aligned /\ Backward /\ Progress /\ Counted /\ CutOff
  /\ CompletedIsWhole /\ DependenciesHold /\ CancelStops

\* The steps that have come to an end, in the order of the plan.
Ended == {i \in DOMAIN steps : steps[i].status \in {"COMPLETED", "FAILED"}}

Entry(record) == [id |-> record.id, status |-> record.status]

LogNow == [i \in 1..Cardinality(Ended) |-> Entry(steps[i])]

\* Attempts, replans, cancels and deadlines in whatever order: the steps that
\* have ended are a log that keeps the promises of PlanLog.  An execution adds to
\* it step by step and never runs an ended step again; it goes past at most Limit
\* failures; a retry starts over at the first failure.
Log == INSTANCE PlanLog
         WITH log <- LogNow, open <- status = "EXECUTING"

LogSpec == Log!Spec

\* What the thread has used up: replan rounds, steps, attempts of the step it is at,
\* and its way through that step.
Attempted == IF at <= Len(steps) THEN steps[at].attempts ELSE 0

Way(place) ==
  CASE place = "step" -> 0 [] place = "call" -> 1 [] place = "check" -> 2
    [] place = "merge" -> 4 [] OTHER -> 3

\* Every step of the thread ends the execution or brings it nearer to its end: a
\* round is taken that the limit counts, or within a round the loop goes on to a
\* step it has not been at, or at a step another attempt is made, or the attempt
\* comes to its end.  The last place of this way is the merge that never returns.
NearerEnd ==
  \/ status' # "EXECUTING"
  \/ replans' > replans
  \/ replans' = replans /\ at' > at
  \/ replans' = replans /\ at' = at /\ Attempted' > Attempted
  \/ replans' = replans /\ at' = at /\ Attempted' = Attempted /\ Way(pc') > Way(pc)

Advances == [][Execute => NearerEnd]_vars

\* Every execution ends, however often tools fail and the planner replans, unless the
\* planner's ids make the thread hang in a merge, and nothing else keeps it.
Terminates == status = "EXECUTING" ~> status # "EXECUTING" \/ pc = "merge"

=============================================================================
