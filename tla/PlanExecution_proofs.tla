------------------------ MODULE PlanExecution_proofs ------------------------
(***************************************************************************)
(* Proofs about PlanExecution that hold for plans of any length, any       *)
(* answers of the planner and any number of attempts, rounds and retries.  *)
(***************************************************************************)
EXTENDS PlanExecution, FiniteSetTheorems, SequenceTheorems, TLAPS

IInv == TypeOK /\ PlanInv

-----------------------------------------------------------------------------
(* The shape of plan and records.                                          *)

LEMMA Shape ==
  ASSUME IInv
  PROVE  /\ Len(plan) \in Nat
         /\ DOMAIN plan = 1..Len(plan) /\ DOMAIN steps = 1..Len(plan)
         /\ \A i \in 1..Len(plan) :
              plan[i] \in PlanStep /\ steps[i] \in StepRun /\ steps[i].id = plan[i].id
         /\ at \in 1..(Len(plan) + 1)
<1>1. /\ plan \in Seq(PlanStep) /\ steps \in Seq(StepRun) /\ Len(steps) = Len(plan)
      /\ \A i \in DOMAIN plan : steps[i].id = plan[i].id
      /\ at \in 1..(Len(plan) + 1)
  BY DEF IInv, TypeOK, PlanInv, Aligned, Progress
<1> QED BY <1>1

\* The records after a step that changes them in place: one record gets a
\* status and a number of attempts, or all of them do.
Same(new, tries) ==
  /\ steps' \in Seq(StepRun)
  /\ Len(steps') = Len(plan)
  /\ DOMAIN steps' = 1..Len(plan)
  /\ \A i \in 1..Len(plan) :
       /\ steps'[i].id = steps[i].id
       /\ steps'[i].status = new[i]
       /\ steps'[i].attempts = tries[i]

Statuses == [i \in 1..Len(plan) |-> steps[i].status]
Tries == [i \in 1..Len(plan) |-> steps[i].attempts]

LEMMA SameSteps ==
  ASSUME IInv, steps' = steps
  PROVE  Same(Statuses, Tries)
<1>1. steps \in Seq(StepRun) /\ Len(steps) = Len(plan)
  BY DEF IInv, TypeOK, PlanInv, Aligned
<1> QED BY <1>1, Shape DEF Same, Statuses, Tries

LEMMA SetOne ==
  ASSUME IInv, at <= Len(plan), NEW new \in StepStatus, SetStep(new)
  PROVE  Same([Statuses EXCEPT ![at] = new], Tries)
<1>1. /\ steps \in Seq(StepRun) /\ Len(steps) = Len(plan)
  BY DEF IInv, TypeOK, PlanInv, Aligned
<1>2. at \in 1..Len(plan)
  BY Shape
<1>3. steps' = [steps EXCEPT ![at] = [steps[at] EXCEPT !.status = new]]
  BY DEF SetStep
<1>4. steps[at] \in StepRun /\ [steps[at] EXCEPT !.status = new] \in StepRun
  <2>1. steps[at] \in StepRun
    BY <1>2, Shape
  <2> QED BY <2>1 DEF StepRun
<1>5. steps' \in Seq(StepRun) /\ Len(steps') = Len(plan) /\ DOMAIN steps' = 1..Len(plan)
  BY <1>1, <1>2, <1>3, <1>4, ExceptSeq
<1>6. \A i \in 1..Len(plan) :
        steps'[i] = IF i = at THEN [steps[at] EXCEPT !.status = new] ELSE steps[i]
  BY <1>1, <1>2, <1>3
<1>7. /\ [steps[at] EXCEPT !.status = new].id = steps[at].id
      /\ [steps[at] EXCEPT !.status = new].status = new
      /\ [steps[at] EXCEPT !.status = new].attempts = steps[at].attempts
  BY <1>4 DEF StepRun
<1> QED BY <1>2, <1>5, <1>6, <1>7 DEF Same, Statuses, Tries

LEMMA TryOne ==
  ASSUME IInv, at <= Len(plan), steps' = [steps EXCEPT ![at].attempts = @ + 1]
  PROVE  Same(Statuses, [Tries EXCEPT ![at] = @ + 1])
<1>1. /\ steps \in Seq(StepRun) /\ Len(steps) = Len(plan)
  BY DEF IInv, TypeOK, PlanInv, Aligned
<1>2. at \in 1..Len(plan)
  BY Shape
<1> DEFINE more == [steps[at] EXCEPT !.attempts = steps[at].attempts + 1]
<1>3. steps' = [steps EXCEPT ![at] = more]
  OBVIOUS
<1>4. steps[at] \in StepRun /\ more \in StepRun
  <2>1. steps[at] \in StepRun
    BY <1>2, Shape
  <2>2. steps[at].attempts + 1 \in Nat
    BY <2>1 DEF StepRun
  <2> QED BY <2>1, <2>2 DEF StepRun
<1>5. /\ more.id = steps[at].id /\ more.status = steps[at].status
      /\ more.attempts = steps[at].attempts + 1
  BY <1>4 DEF StepRun
<1> HIDE DEF more
<1>6. steps' \in Seq(StepRun) /\ Len(steps') = Len(plan) /\ DOMAIN steps' = 1..Len(plan)
  BY <1>1, <1>2, <1>3, <1>4, ExceptSeq
<1>7. \A i \in 1..Len(plan) : steps'[i] = IF i = at THEN more ELSE steps[i]
  BY <1>1, <1>2, <1>3
<1> QED BY <1>2, <1>5, <1>6, <1>7 DEF Same, Statuses, Tries

BlockedStatuses(from) ==
  [i \in 1..Len(plan) |->
     IF i >= from /\ steps[i].status = "PENDING" THEN "BLOCKED" ELSE steps[i].status]

LEMMA BlockSome ==
  ASSUME IInv, NEW from \in Nat, steps' = Blocked(steps, from)
  PROVE  Same(BlockedStatuses(from), Tries)
<1>1. DOMAIN steps = 1..Len(plan) /\ Len(plan) \in Nat
  BY Shape
<1>2. \A i \in 1..Len(plan) :
        steps'[i] = IF i >= from /\ steps[i].status = "PENDING"
                      THEN [steps[i] EXCEPT !.status = "BLOCKED"] ELSE steps[i]
  BY <1>1 DEF Blocked
<1>3. \A i \in 1..Len(plan) : steps'[i] \in StepRun
  <2> SUFFICES ASSUME NEW i \in 1..Len(plan) PROVE steps'[i] \in StepRun
    OBVIOUS
  <2>1. steps[i] \in StepRun
    BY Shape
  <2>2. [steps[i] EXCEPT !.status = "BLOCKED"] \in StepRun
    BY <2>1 DEF StepRun, StepStatus
  <2> QED BY <1>2, <2>1, <2>2
<1>4. DOMAIN steps' = 1..Len(plan)
  BY <1>1 DEF Blocked
<1>5. steps' = [i \in 1..Len(plan) |-> steps'[i]]
  BY <1>1 DEF Blocked
<1>6. steps' \in Seq(StepRun) /\ Len(steps') = Len(plan)
  BY <1>1, <1>3, <1>4, <1>5
<1>7. \A i \in 1..Len(plan) :
        /\ steps'[i].id = steps[i].id /\ steps'[i].attempts = steps[i].attempts
        /\ steps'[i].status = BlockedStatuses(from)[i]
  BY <1>2, Shape DEF StepRun, BlockedStatuses
<1> QED BY <1>4, <1>6, <1>7 DEF Same, Tries

LEMMA ResetSome ==
  ASSUME IInv, NEW from \in Nat, steps' = Reset(from)
  PROVE  Same([i \in 1..Len(plan) |-> IF i >= from THEN "PENDING" ELSE steps[i].status],
              [i \in 1..Len(plan) |-> IF i >= from THEN 0 ELSE steps[i].attempts])
<1>1. DOMAIN steps = 1..Len(plan) /\ Len(plan) \in Nat
  BY Shape
<1>2. \A i \in 1..Len(plan) :
        steps'[i] = IF i >= from
                      THEN [steps[i] EXCEPT !.status = "PENDING", !.attempts = 0] ELSE steps[i]
  BY <1>1 DEF Reset
<1>3. \A i \in 1..Len(plan) : steps'[i] \in StepRun
  <2> SUFFICES ASSUME NEW i \in 1..Len(plan) PROVE steps'[i] \in StepRun
    OBVIOUS
  <2>1. steps[i] \in StepRun
    BY Shape
  <2>2. [steps[i] EXCEPT !.status = "PENDING", !.attempts = 0] \in StepRun
    BY <2>1 DEF StepRun, StepStatus
  <2> QED BY <1>2, <2>1, <2>2
<1>4. DOMAIN steps' = 1..Len(plan)
  BY <1>1 DEF Reset
<1>5. steps' = [i \in 1..Len(plan) |-> steps'[i]]
  BY <1>1 DEF Reset
<1>6. steps' \in Seq(StepRun) /\ Len(steps') = Len(plan)
  BY <1>1, <1>3, <1>4, <1>5
<1>7. \A i \in 1..Len(plan) :
        /\ steps'[i].id = steps[i].id
        /\ steps'[i].attempts = IF i >= from THEN 0 ELSE steps[i].attempts
        /\ steps'[i].status = IF i >= from THEN "PENDING" ELSE steps[i].status
  BY <1>2, Shape DEF StepRun
<1> QED BY <1>4, <1>6, <1>7 DEF Same

\* As long as the plan stays, ids and dependencies do.
LEMMA InPlace ==
  ASSUME IInv, NEW new, NEW tries, Same(new, tries), plan' = plan
  PROVE  Aligned' /\ Backward'
<1>1. Aligned /\ Backward
  BY DEF IInv, PlanInv
<1>2. Aligned'
  <2>1. DistinctIds(plan)'
    BY <1>1 DEF Aligned, DistinctIds
  <2> QED BY <2>1, Shape DEF Aligned, Same
<1>3. Backward'
  BY <1>1 DEF Backward
<1> QED BY <1>2, <1>3

\* Dependencies of completed steps stay completed as long as these steps do.
LEMMA SameCompleted ==
  ASSUME IInv, NEW new, NEW tries, Same(new, tries), plan' = plan,
         \A i \in 1..Len(plan) : new[i] = "COMPLETED" <=> steps[i].status = "COMPLETED"
  PROVE  DependenciesHold'
BY Shape DEF DependenciesHold, Same, IInv, PlanInv

-----------------------------------------------------------------------------
(* The actions.                                                            *)

LEMMA StopStep ==
  ASSUME IInv, NEW from \in {at, at + 1}, NEW outcome \in {"CANCELLED", "TIMED_OUT", "FAILED"},
         status = "EXECUTING", pc # "end",
         outcome # "FAILED" => from = at /\ pc \in {"step", "check", "call"},
         steps' = Blocked(steps, from), End(outcome),
         UNCHANGED <<plan, at, completed, replans, events, flag, late, reruns, after>>
  PROVE  IInv'
<1>1. Same(BlockedStatuses(from), Tries)
  BY Shape, BlockSome
<1>2. Aligned' /\ Backward'
  BY <1>1, InPlace
<1>3. DependenciesHold'
  BY <1>1, SameCompleted DEF BlockedStatuses
<1>4. /\ status' = outcome /\ pc' = "end"
      /\ \A i \in 1..Len(plan) :
           /\ steps'[i].status = BlockedStatuses(from)[i]
           /\ steps'[i].attempts = steps[i].attempts
      /\ DOMAIN steps' = 1..Len(plan) /\ steps' \in Seq(StepRun)
  BY <1>1 DEF End, Same, Tries
<1>5. TypeOK'
  BY <1>4, Shape DEF IInv, TypeOK, RunEnd
<1>6. Progress'
  BY <1>4 DEF Progress, IInv, PlanInv
<1>7. Counted'
  <2>1. \A i \in 1..Len(plan) : steps'[i].status = "PENDING" => steps[i].status = "PENDING"
    BY <1>4 DEF BlockedStatuses
  <2>2. Counted
    BY DEF IInv, PlanInv
  <2> QED BY <1>4, <2>1, <2>2, Shape DEF Counted
<1>8. CutOff'
  <2> SUFFICES ASSUME outcome # "FAILED", NEW i \in 1..Len(plan)
               PROVE  /\ steps'[i].status # "PENDING"
                      /\ steps'[i].status = "RUNNING" => i = at
    BY <1>4 DEF CutOff
  <2>1. /\ i < at => steps[i].status \in {"COMPLETED", "FAILED"}
        /\ i > at => steps[i].status = "PENDING"
        /\ i = at => steps[i].status \in {"PENDING", "RUNNING"}
    BY Shape DEF IInv, PlanInv, Progress
  <2> QED BY <1>4, <2>1, Shape DEF BlockedStatuses
<1>9. CompletedIsWhole' /\ CancelStops'
  BY <1>4 DEF CompletedIsWhole, CancelStops, IInv, PlanInv
<1> QED BY <1>2, <1>3, <1>5, <1>6, <1>7, <1>8, <1>9 DEF IInv, PlanInv

LEMMA FinishStep ==
  ASSUME IInv, Finish
  PROVE  IInv'
<1>1. Same(Statuses, Tries)
  BY SameSteps DEF Finish
<1>2. Aligned' /\ Backward'
  BY <1>1, InPlace DEF Finish
<1>3. DependenciesHold' /\ Counted' /\ CancelStops' /\ CutOff'
  BY DEF Finish, End, DependenciesHold, Counted, CancelStops, CutOff, IInv, PlanInv
<1>4. TypeOK' /\ Progress'
  BY DEF Finish, End, TypeOK, Progress, RunEnd, IInv, PlanInv
<1>5. CompletedIsWhole'
  <2>1. status = "EXECUTING" /\ at > Len(plan)
    BY DEF Finish, IInv, PlanInv, Progress
  <2>2. \A i \in DOMAIN steps : i < at
    BY <2>1, Shape
  <2>3. \A i \in DOMAIN steps :
          \/ steps[i].status = "COMPLETED"
          \/ steps[i].status = "FAILED" /\ steps[i].id \in events /\ ~Rerun
    BY <2>1, <2>2 DEF IInv, PlanInv, Progress
  <2> QED BY <2>3 DEF Finish, CompletedIsWhole, Rerun
<1> QED BY <1>2, <1>3, <1>4, <1>5 DEF IInv, PlanInv

\* The ids later steps may depend on.
CompletedIds(records, before) ==
  {records[j].id : j \in {k \in 1..(before - 1) : records[k].status = "COMPLETED"}}

LEMMA CompletedStays ==
  ASSUME IInv, NEW new, NEW tries, Same(new, tries), at <= Len(plan),
         \A i \in 1..(at - 1) : new[i] = steps[i].status
  PROVE  CompletedIds(steps', at) = CompletedIds(steps, at)
<1>1. at \in 1..Len(plan)
  BY Shape
<1>2. \A k \in 1..(at - 1) : k \in 1..Len(plan)
  BY <1>1, Shape
<1>3. \A k \in 1..(at - 1) : steps'[k].id = steps[k].id /\ steps'[k].status = steps[k].status
  BY <1>2 DEF Same
<1> QED BY <1>3 DEF CompletedIds

\* A step of execute_step that leaves the thread at the same plan step.
LEMMA StayStep ==
  ASSUME IInv, at <= Len(plan), status = "EXECUTING",
         NEW here \in StepStatus, NEW tries, Same([Statuses EXCEPT ![at] = here], tries),
         here # "COMPLETED", steps[at].status # "COMPLETED",
         \A i \in 1..Len(plan) : tries[i] <= MaxRetries + 1,
         \A i \in 1..Len(plan) : i # at => tries[i] = steps[i].attempts,
         here # "PENDING",
         pc' = "check" => tries[at] <= MaxRetries,
         \/ pc' \in {"check", "call"} /\ here = "RUNNING" /\ plan[at].deps \subseteq completed
         \/ pc' = "failed" /\ here = "FAILED",
         pc' = "call" => ~flag,
         \/ after' = after
         \/ pc = "call" /\ pc' # "call" /\ flag /\ after' = after + 1,
         UNCHANGED <<plan, status, at, completed, replans, events, flag, late, reruns>>
  PROVE  IInv'
<1>1. at \in 1..Len(plan) /\ DOMAIN steps = 1..Len(plan) /\ DOMAIN plan = 1..Len(plan)
  BY Shape
<1>2. Aligned' /\ Backward'
  BY InPlace
<1>3. /\ steps' \in Seq(StepRun) /\ DOMAIN steps' = 1..Len(plan)
      /\ \A i \in 1..Len(plan) :
           /\ steps'[i].id = steps[i].id
           /\ steps'[i].status = IF i = at THEN here ELSE steps[i].status
           /\ steps'[i].attempts = tries[i]
  BY <1>1 DEF Same, Statuses
<1>4. DependenciesHold'
  <2>1. \A i \in 1..Len(plan) :
          [Statuses EXCEPT ![at] = here][i] = "COMPLETED" <=> steps[i].status = "COMPLETED"
    BY <1>1 DEF Statuses
  <2> QED BY <2>1, SameCompleted
<1>5. after \in Nat /\ (~flag \/ pc = "call" => after = 0) /\ after <= 1
  BY DEF IInv, TypeOK, PlanInv, Counted, CancelStops
<1>6. after' \in Nat /\ after' <= 1 /\ (~flag \/ pc' = "call" => after' = 0)
  BY <1>5
<1>7. TypeOK'
  BY <1>3, <1>6 DEF IInv, TypeOK
<1>8. Progress'
  <2>1. CompletedIds(steps', at) = CompletedIds(steps, at)
    <3>1. \A i \in 1..(at - 1) : [Statuses EXCEPT ![at] = here][i] = steps[i].status
      BY <1>1, Shape DEF Statuses
    <3> QED BY <3>1, CompletedStays
  <2>2. completed = CompletedIds(steps, at)
    BY DEF IInv, PlanInv, Progress, CompletedIds
  <2>3. completed' = {steps'[j].id : j \in {k \in 1..(at - 1) : steps'[k].status = "COMPLETED"}}
    BY <2>1, <2>2 DEF CompletedIds
  <2>4. \A i \in 1..Len(plan) :
          /\ i < at => \/ steps'[i].status = "COMPLETED"
                       \/ steps'[i].status = "FAILED" /\ steps'[i].id \in events /\ ~Rerun
          /\ i > at => steps'[i].status = "PENDING"
          /\ i = at => steps'[i].status = here
    BY <1>1, <1>3 DEF IInv, PlanInv, Progress
  <2>5. Rerun' = Rerun
    BY DEF Rerun
  <2> QED BY <1>1, <1>3, <2>3, <2>4, <2>5 DEF Progress
<1>9. Counted'
  <2>1. Counted
    BY DEF IInv, PlanInv
  <2> QED BY <1>1, <1>3, <1>6, <2>1 DEF Counted
<1>10. CutOff' /\ CompletedIsWhole'
  BY DEF CutOff, CompletedIsWhole
<1> QED BY <1>2, <1>4, <1>6, <1>7, <1>8, <1>9, <1>10 DEF IInv, PlanInv, CancelStops

\* What is known of the step the thread is at.
LEMMA AtStatus ==
  ASSUME IInv, at <= Len(plan), status = "EXECUTING"
  PROVE  /\ at \in 1..Len(plan)
         /\ pc = "step" => steps[at].status = "PENDING"
         /\ pc \in {"check", "call"} =>
              steps[at].status = "RUNNING" /\ plan[at].deps \subseteq completed
         /\ pc \in {"failed", "merge"} => steps[at].status = "FAILED"
         /\ \A i \in 1..Len(plan) :
              steps[i].attempts \in Nat /\ steps[i].attempts <= MaxRetries + 1
         /\ steps[at].status = "PENDING" => steps[at].attempts = 0
         /\ pc = "check" => steps[at].attempts <= MaxRetries
<1>1. at \in 1..Len(plan) /\ DOMAIN steps = 1..Len(plan)
  BY Shape
<1>2. \A i \in 1..Len(plan) : steps[i].attempts \in Nat
  BY Shape DEF StepRun
<1> QED BY <1>1, <1>2 DEF IInv, TypeOK, PlanInv, Progress, Counted

LEMMA Executing ==
  ASSUME IInv
  PROVE  /\ pc # "end" <=> status = "EXECUTING"
         /\ pc \in {"check", "call", "failed", "merge"} => at <= Len(plan)
BY DEF IInv, PlanInv, Progress

LEMMA ForbidStep ==
  ASSUME IInv, Forbid
  PROVE  IInv'
<1>1. at <= Len(plan) /\ status = "EXECUTING" /\ pc = "step"
  BY Executing DEF Forbid, AtStep
<1>2. Same([Statuses EXCEPT ![at] = "FAILED"], Tries)
  BY <1>1, SetOne DEF Forbid, StepStatus
<1> QED BY <1>1, <1>2, AtStatus, StayStep DEF Forbid, Tries, StepStatus

LEMMA BeginStep ==
  ASSUME IInv, Begin
  PROVE  IInv'
<1>1. at <= Len(plan) /\ status = "EXECUTING" /\ pc = "step"
  BY Executing DEF Begin, AtStep
<1>2. Same([Statuses EXCEPT ![at] = "RUNNING"], Tries)
  BY <1>1, SetOne DEF Begin, StepStatus
<1>3. plan[at].deps \subseteq completed
  BY DEF Begin, Missing
<1>4. Tries[at] <= MaxRetries
  BY <1>1, AtStatus, BoundsAssumption DEF Tries
<1> QED BY <1>1, <1>2, <1>3, <1>4, AtStatus, StayStep DEF Begin, Tries, StepStatus

LEMMA AttemptStep ==
  ASSUME IInv, Attempt
  PROVE  IInv'
<1>1. at <= Len(plan) /\ status = "EXECUTING" /\ pc = "check"
  BY Executing DEF Attempt
<1> DEFINE tries == [Tries EXCEPT ![at] = @ + 1]
<1>2. Same([Statuses EXCEPT ![at] = "RUNNING"], tries)
  <2>1. [Statuses EXCEPT ![at] = "RUNNING"] = Statuses
    BY <1>1, AtStatus DEF Statuses
  <2> QED BY <1>1, <2>1, TryOne DEF Attempt
<1>3. \A i \in 1..Len(plan) :
        /\ tries[i] <= MaxRetries + 1
        /\ i # at => tries[i] = steps[i].attempts
  BY <1>1, AtStatus, BoundsAssumption DEF Tries
<1>4. ~flag
  BY DEF Attempt, Stopped
<1> HIDE DEF tries
<1> QED BY <1>1, <1>2, <1>3, <1>4, AtStatus, StayStep DEF Attempt, StepStatus

LEMMA TryAgainStep ==
  ASSUME IInv, TryAgain
  PROVE  IInv'
<1>1. at <= Len(plan) /\ status = "EXECUTING" /\ pc = "call"
  BY Executing DEF TryAgain
<1>2. Same([Statuses EXCEPT ![at] = "RUNNING"], Tries)
  <2>1. [Statuses EXCEPT ![at] = "RUNNING"] = Statuses
    BY <1>1, AtStatus DEF Statuses
  <2> QED BY <2>1, SameSteps DEF TryAgain
<1>3. Tries[at] <= MaxRetries
  BY <1>1, AtStatus DEF Tries, TryAgain
<1> QED BY <1>1, <1>2, <1>3, AtStatus, StayStep DEF TryAgain, CountCall, Tries, StepStatus

LEMMA FailStep ==
  ASSUME IInv, Fail
  PROVE  IInv'
<1>1. at <= Len(plan) /\ status = "EXECUTING" /\ pc = "call"
  BY Executing DEF Fail
<1>2. Same([Statuses EXCEPT ![at] = "FAILED"], Tries)
  BY <1>1, SetOne DEF Fail, StepStatus
<1> QED BY <1>1, <1>2, AtStatus, StayStep DEF Fail, CountCall, Tries, StepStatus

\* A dependency that is in completed has completed.
LEMMA Satisfied ==
  ASSUME IInv, at <= Len(plan), status = "EXECUTING", plan[at].deps \subseteq completed,
         NEW j \in 1..Len(plan), plan[j].id \in plan[at].deps
  PROVE  j # at /\ steps[j].status = "COMPLETED"
<1>1. at \in 1..Len(plan)
  BY Shape
<1>2. PICK k \in 1..(at - 1) : steps[k].status = "COMPLETED" /\ steps[k].id = plan[j].id
  BY DEF IInv, PlanInv, Progress
<1>3. k \in 1..Len(plan) /\ plan[k].id = plan[j].id
  BY <1>1, <1>2, Shape
<1>4. k = j
  BY <1>3, Shape DEF IInv, PlanInv, Aligned, DistinctIds
<1> QED BY <1>1, <1>2, <1>4

LEMMA SucceedStep ==
  ASSUME IInv, Succeed
  PROVE  IInv'
<1>1. at <= Len(plan) /\ status = "EXECUTING" /\ pc = "call" /\ status' = status /\ plan' = plan
  BY Executing DEF Succeed
<1>2. Same([Statuses EXCEPT ![at] = "COMPLETED"], Tries)
  BY <1>1, SetOne DEF Succeed, StepStatus
<1>3. at \in 1..Len(plan) /\ DOMAIN steps = 1..Len(plan) /\ DOMAIN plan = 1..Len(plan)
      /\ Len(plan) \in Nat
  BY <1>1, Shape
<1>4. Aligned' /\ Backward'
  BY <1>1, <1>2, InPlace DEF Succeed
<1>5. /\ steps' \in Seq(StepRun) /\ DOMAIN steps' = 1..Len(plan)
      /\ \A i \in 1..Len(plan) :
           /\ steps'[i].id = steps[i].id
           /\ steps'[i].status = IF i = at THEN "COMPLETED" ELSE steps[i].status
           /\ steps'[i].attempts = steps[i].attempts
  BY <1>2, <1>3 DEF Same, Statuses, Tries
<1>6. DependenciesHold'
  <2> SUFFICES ASSUME NEW i \in 1..Len(plan), NEW j \in 1..Len(plan),
                      steps'[i].status = "COMPLETED", plan[j].id \in plan[i].deps
               PROVE  steps'[j].status = "COMPLETED"
    BY <1>1, <1>3 DEF DependenciesHold
  <2>1. steps[j].status = "COMPLETED"
    <3>1. CASE i = at
      BY <1>1, <3>1, AtStatus, Satisfied
    <3>2. CASE i # at
      BY <1>3, <1>5, <3>2 DEF IInv, PlanInv, DependenciesHold
    <3> QED BY <3>1, <3>2
  <2> QED BY <1>5, <2>1
<1>7. after \in Nat /\ (~flag \/ pc = "call" => after = 0)
  BY DEF IInv, TypeOK, PlanInv, Counted
<1>8. after' \in Nat /\ after' <= 1 /\ (~flag => after' = 0)
  BY <1>1, <1>7 DEF Succeed, CountCall
<1>9. TypeOK'
  <2>1. completed' \subseteq Id
    BY <1>3, Shape DEF Succeed, IInv, TypeOK, PlanStep
  <2> QED BY <1>3, <1>5, <1>8, <2>1 DEF Succeed, IInv, TypeOK
<1>10. Progress'
  <2>1. \A i \in 1..Len(plan) :
          /\ i < at + 1 => \/ steps'[i].status = "COMPLETED"
                           \/ steps'[i].status = "FAILED" /\ steps'[i].id \in events /\ ~Rerun
          /\ i >= at + 1 => steps'[i].status = "PENDING"
    BY <1>1, <1>3, <1>5 DEF IInv, PlanInv, Progress
  <2>2. completed' = CompletedIds(steps', at + 1)
    <3>1. CompletedIds(steps', at) = CompletedIds(steps, at)
      <4>1. \A i \in 1..(at - 1) : [Statuses EXCEPT ![at] = "COMPLETED"][i] = steps[i].status
        <5>1. \A i \in 1..(at - 1) : i \in 1..Len(plan) /\ i # at
          BY <1>3
        <5> QED BY <5>1 DEF Statuses
      <4> QED BY <1>1, <1>2, <4>1, CompletedStays
    <3>2. CompletedIds(steps', at + 1) = CompletedIds(steps', at) \cup {steps'[at].id}
      <4>1. 1..(at + 1 - 1) = 1..(at - 1) \cup {at}
        BY <1>3
      <4>2. steps'[at].status = "COMPLETED"
        BY <1>3, <1>5
      <4> QED BY <4>1, <4>2 DEF CompletedIds
    <3>3. completed = CompletedIds(steps, at)
      BY <1>1 DEF IInv, PlanInv, Progress, CompletedIds
    <3>4. steps'[at].id = plan[at].id
      BY <1>3, <1>5, Shape
    <3> QED BY <3>1, <3>2, <3>3, <3>4 DEF Succeed
  <2>3. completed' = {steps'[j].id : j \in {k \in 1..(at' - 1) : steps'[k].status = "COMPLETED"}}
    BY <2>2 DEF CompletedIds, Succeed
  <2>4. Rerun' = Rerun /\ at' = at + 1 /\ pc' = "step" /\ events' = events
    BY DEF Rerun, Succeed
  <2> QED BY <1>1, <1>3, <1>5, <2>1, <2>3, <2>4 DEF Progress
<1>11. Counted'
  <2>1. Counted
    BY DEF IInv, PlanInv
  <2> QED BY <1>3, <1>5, <1>8, <2>1 DEF Counted, Succeed
<1>12. CutOff' /\ CompletedIsWhole'
  BY <1>1 DEF CutOff, CompletedIsWhole
<1> QED BY <1>4, <1>6, <1>8, <1>9, <1>10, <1>11, <1>12 DEF IInv, PlanInv, CancelStops

LEMMA OutsideStep ==
  ASSUME IInv, Cancel \/ Deadline
  PROVE  IInv'
<1>1. Same(Statuses, Tries)
  BY SameSteps DEF Cancel, Deadline
<1>2. Aligned' /\ Backward'
  BY <1>1, InPlace DEF Cancel, Deadline
<1>4. /\ flag' \in BOOLEAN /\ late' \in BOOLEAN /\ status = "EXECUTING"
      /\ UNCHANGED <<plan, steps, status, pc, at, completed, replans, events, reruns, after>>
  BY DEF Cancel, Deadline, IInv, TypeOK
<1>5. TypeOK'
  BY <1>4 DEF IInv, TypeOK
<1>6. Progress'
  BY <1>4 DEF IInv, PlanInv, Progress, Rerun
<1>7. Counted'
  <2>1. ~flag' => ~flag
    BY DEF Cancel, Deadline
  <2>2. pc = "call" => after = 0
    BY DEF IInv, PlanInv, Counted
  <2> QED BY <1>4, <2>1, <2>2 DEF IInv, PlanInv, Counted
<1>8. CutOff' /\ CompletedIsWhole' /\ DependenciesHold' /\ CancelStops'
  BY <1>4 DEF IInv, PlanInv, CutOff, CompletedIsWhole, DependenciesHold, CancelStops
<1> QED BY <1>2, <1>5, <1>6, <1>7, <1>8 DEF IInv, PlanInv

LEMMA RetryStep ==
  ASSUME IInv, Retry
  PROVE  IInv'
<1>1. PICK i \in DOMAIN steps :
        /\ FirstFailed(i)
        /\ \A j \in 1..(i - 1) : steps[j].status = "COMPLETED"
        /\ completed' = {steps[j].id : j \in 1..(i - 1)}
        /\ steps' = Reset(i)
        /\ at' = i
  BY DEF Retry
<1>2. i \in 1..Len(plan) /\ DOMAIN steps = 1..Len(plan) /\ DOMAIN plan = 1..Len(plan)
      /\ Len(plan) \in Nat
  BY <1>1, Shape
<1>3. Same([k \in 1..Len(plan) |-> IF k >= i THEN "PENDING" ELSE steps[k].status],
           [k \in 1..Len(plan) |-> IF k >= i THEN 0 ELSE steps[k].attempts])
  BY <1>1, <1>2, ResetSome
<1>4. /\ steps' \in Seq(StepRun) /\ DOMAIN steps' = 1..Len(plan)
      /\ \A k \in 1..Len(plan) :
           /\ steps'[k].id = steps[k].id
           /\ steps'[k].status = IF k >= i THEN "PENDING" ELSE steps[k].status
           /\ steps'[k].attempts = IF k >= i THEN 0 ELSE steps[k].attempts
  BY <1>3 DEF Same
<1>5. plan' = plan /\ status' = "EXECUTING" /\ pc' = "step" /\ ~flag' /\ after' = 0
  BY DEF Retry
<1>6. reruns' \in 0..MaxReruns /\ Rerun'
  BY BoundsAssumption DEF Retry, Rerun, IInv, TypeOK
<1>7. Aligned' /\ Backward'
  BY <1>3, <1>5, InPlace
<1>8. CutOff' /\ CompletedIsWhole' /\ CancelStops'
  BY <1>5, <1>6 DEF CutOff, CompletedIsWhole, CancelStops
<1>9. \A k \in 1..(i - 1) :
        /\ k \in 1..Len(plan) /\ steps'[k].status = "COMPLETED" /\ steps'[k].id = steps[k].id
  BY <1>1, <1>2, <1>4
<1>10. DependenciesHold'
  <2> SUFFICES ASSUME NEW k \in 1..Len(plan), NEW j \in 1..Len(plan),
                      steps'[k].status = "COMPLETED", plan[j].id \in plan[k].deps
               PROVE  steps'[j].status = "COMPLETED"
    BY <1>2, <1>5 DEF DependenciesHold
  <2>1. k < i
    BY <1>2, <1>4
  <2>2. PICK l \in 1..(k - 1) : plan[l].id = plan[j].id
    BY <1>2 DEF IInv, PlanInv, Backward
  <2>3. l = j
    BY <1>2, <2>2 DEF IInv, PlanInv, Aligned, DistinctIds
  <2>4. j \in 1..(i - 1)
    BY <1>2, <2>1, <2>2, <2>3
  <2> QED BY <1>9, <2>4
<1>11. Progress'
  <2>1. completed' = {steps'[j].id : j \in {k \in 1..(at' - 1) : steps'[k].status = "COMPLETED"}}
    BY <1>1, <1>9
  <2>2. \A k \in 1..Len(plan) :
          /\ k < i => steps'[k].status = "COMPLETED"
          /\ k >= i => steps'[k].status = "PENDING"
    BY <1>2, <1>4, <1>9
  <2> QED BY <1>1, <1>2, <1>4, <1>5, <2>1, <2>2 DEF Progress
<1>12. Counted'
  BY <1>2, <1>4, <1>5, Shape DEF Counted, IInv, PlanInv
<1>13. TypeOK'
  <2>1. completed' \subseteq Id
    BY <1>1, <1>9, Shape DEF StepRun
  <2>2. \A k \in DOMAIN steps' : steps'[k].attempts <= MaxRetries + 1
    BY <1>2, <1>4, BoundsAssumption DEF IInv, TypeOK
  <2>3. UNCHANGED <<plan, replans, events, late>> /\ flag' = FALSE
    BY DEF Retry
  <2>4. at' \in Nat \ {0} /\ after' \in Nat
    BY <1>1, <1>2, <1>5
  <2> QED BY <1>4, <1>5, <1>6, <2>1, <2>2, <2>3, <2>4 DEF IInv, TypeOK
<1> QED BY <1>7, <1>8, <1>10, <1>11, <1>12, <1>13 DEF IInv, PlanInv

-----------------------------------------------------------------------------
(* Replanning.                                                             *)

\* The record a merged step gets: the one of the step that had its id, or a
\* fresh one.
LEMMA RebuiltRecord ==
  ASSUME IInv, NEW merged, NEW i \in DOMAIN merged
  PROVE  \/ \E k \in 1..Len(plan) :
              plan[k].id = merged[i].id /\ Rebuilt(merged)[i] = steps[k]
         \/ /\ \A k \in 1..Len(plan) : plan[k].id # merged[i].id
            /\ Rebuilt(merged)[i] = Fresh(merged[i])
<1> DEFINE records == {steps[k] : k \in DOMAIN steps}
           mine == CHOOSE record \in records : record.id = merged[i].id
<1>1. Rebuilt(merged)[i] = IF merged[i].id \in Ids(steps) THEN mine ELSE Fresh(merged[i])
  BY DEF Rebuilt
<1>2. merged[i].id \in Ids(steps) <=> \E k \in 1..Len(plan) : plan[k].id = merged[i].id
  BY Shape DEF Ids
<1>3. CASE merged[i].id \in Ids(steps)
  <2>1. \E record \in records : record.id = merged[i].id
    BY <1>3 DEF Ids
  <2>2. mine \in records /\ mine.id = merged[i].id
    BY <2>1
  <2>3. PICK k \in DOMAIN steps : mine = steps[k]
    BY <2>2
  <2>4. k \in 1..Len(plan) /\ plan[k].id = merged[i].id
    BY <2>2, <2>3, Shape
  <2> QED BY <1>1, <1>3, <2>3, <2>4
<1>4. CASE merged[i].id \notin Ids(steps)
  BY <1>1, <1>2, <1>4
<1> QED BY <1>3, <1>4

\* What the ids of a merge are.
LEMMA IdsOfMerge ==
  ASSUME IInv, at <= Len(plan), NEW drafts \in Replacements, NEW ids \in NewIds(drafts)
  PROVE  /\ drafts \in Seq(PlanStep) /\ Len(drafts) \in Nat
         /\ DOMAIN drafts = 1..Len(drafts) /\ DOMAIN ids = 1..Len(drafts)
         /\ \A j \in 1..Len(drafts) : drafts[j] \in PlanStep /\ ids[j] \in Id
<1>1. drafts \in Seq(PlanStep)
  BY ReplacementsAssumption DEF PlannerAnswer
<1>2. /\ Len(drafts) \in Nat /\ DOMAIN drafts = 1..Len(drafts)
      /\ \A j \in 1..Len(drafts) : drafts[j] \in PlanStep
  BY <1>1
<1>3. at \in Nat /\ plan[at].id \in Seq(Int)
  BY Shape DEF PlanStep, Id
<1>4. ASSUME NEW j \in 1..Len(drafts), NEW k \in 1..3
      PROVE  Names(drafts[j], j)[k] \in Id
  <2> DEFINE name == <<Word>> \o plan[at].id \o <<j - 1>>
  <2>1. <<Word>> \in Seq(Int) /\ <<j - 1>> \in Seq(Int) /\ at + j - 1 \in Int
    BY <1>2, <1>3 DEF Word
  <2>2. name \in Seq(Int)
    BY <1>3, <2>1, ConcatProperties
  <2> HIDE DEF name
  <2>3. Append(name, at + j - 1) \in Seq(Int)
    BY <2>1, <2>2
  <2>4. drafts[j].id \in Seq(Int)
    BY <1>2 DEF PlanStep, Id
  <2>5. Names(drafts[j], j) = <<drafts[j].id, name, Append(name, at + j - 1)>>
    BY DEF Names, name
  <2> DEFINE longer == Append(name, at + j - 1)
             own == drafts[j].id
  <2>6. Names(drafts[j], j) = <<own, name, longer>> /\ own \in Id /\ name \in Id /\ longer \in Id
    BY <2>2, <2>3, <2>4, <2>5 DEF Id
  <2> HIDE DEF longer, own
  <2> QED BY <2>6
<1>5. PICK tries \in [DOMAIN drafts -> 1..3] :
        ids = [j \in DOMAIN drafts |-> Names(drafts[j], j)[tries[j]]]
  BY DEF NewIds
<1>6. \A j \in 1..Len(drafts) : ids[j] \in Id
  BY <1>2, <1>4, <1>5
<1> QED BY <1>1, <1>2, <1>5, <1>6

\* What a merge consists of: the plan up to the failed step, then the
\* replacement.
LEMMA MergedShape ==
  ASSUME IInv, at <= Len(plan), NEW drafts \in Replacements, NEW ids \in NewIds(drafts)
  PROVE  /\ Len(drafts) \in Nat /\ DOMAIN ids = 1..Len(drafts)
         /\ DOMAIN Kept = 1..at /\ \A i \in 1..at : Kept[i] = plan[i]
         /\ Len(Merged(drafts, ids)) = at + Len(drafts)
         /\ DOMAIN Merged(drafts, ids) = 1..(at + Len(drafts))
         /\ \A i \in 1..at : Merged(drafts, ids)[i] = plan[i]
         /\ \A j \in 1..Len(drafts) : Merged(drafts, ids)[at + j].id = ids[j]
         /\ Merged(drafts, ids) \in Seq(PlanStep)
<1>1. /\ Len(drafts) \in Nat /\ DOMAIN drafts = 1..Len(drafts) /\ DOMAIN ids = 1..Len(drafts)
      /\ \A j \in 1..Len(drafts) : drafts[j] \in PlanStep /\ ids[j] \in Id
  BY IdsOfMerge
<1>2. at \in 1..Len(plan) /\ plan \in Seq(PlanStep)
  BY Shape DEF IInv, TypeOK
<1>3. /\ Kept \in Seq(PlanStep) /\ Len(Kept) = at /\ DOMAIN Kept = 1..at
      /\ \A i \in 1..at : Kept[i] = plan[i]
  BY <1>2 DEF Kept
<1> DEFINE rest == [j \in DOMAIN drafts |->
                      [id |-> ids[j], deps |-> NewDeps(drafts, ids, j)]]
<1>4. \A j \in 1..Len(drafts) : NewDeps(drafts, ids, j) \subseteq Id
  BY <1>1 DEF NewDeps, PlanStep
<1>5. rest \in Seq(PlanStep) /\ Len(rest) = Len(drafts)
  BY <1>1, <1>4 DEF PlanStep
<1>6. \A j \in 1..Len(drafts) : rest[j].id = ids[j]
  BY <1>1
<1>7. Merged(drafts, ids) = Kept \o rest
  BY DEF Merged
<1> HIDE DEF rest
<1>8. /\ Merged(drafts, ids) \in Seq(PlanStep)
      /\ Len(Merged(drafts, ids)) = at + Len(drafts)
      /\ \A i \in 1..(at + Len(drafts)) :
           Merged(drafts, ids)[i] = IF i <= at THEN Kept[i] ELSE rest[i - at]
  <2>1. /\ Kept \o rest \in Seq(PlanStep)
        /\ Len(Kept \o rest) = Len(Kept) + Len(rest)
        /\ \A i \in 1..(Len(Kept) + Len(rest)) :
             (Kept \o rest)[i] = IF i <= Len(Kept) THEN Kept[i] ELSE rest[i - Len(Kept)]
    BY <1>3, <1>5, ConcatProperties
  <2> QED BY <1>3, <1>5, <1>7, <2>1
<1>9. DOMAIN Merged(drafts, ids) = 1..(at + Len(drafts))
  BY <1>8
<1>10. \A i \in 1..at : Merged(drafts, ids)[i] = plan[i]
  BY <1>1, <1>2, <1>3, <1>8
<1>11. \A j \in 1..Len(drafts) : Merged(drafts, ids)[at + j] = rest[j]
  <2> SUFFICES ASSUME NEW j \in 1..Len(drafts) PROVE Merged(drafts, ids)[at + j] = rest[j]
    OBVIOUS
  <2>1. at + j \in 1..(at + Len(drafts)) /\ ~(at + j <= at) /\ (at + j) - at = j
    BY <1>1, <1>2
  <2> QED BY <1>8, <2>1
<1> QED BY <1>1, <1>3, <1>6, <1>8, <1>9, <1>10, <1>11

\* No id occurs twice in a merge that comes to its end, whatever ids the planner
\* has used: the loop has tested each against all before it.
LEMMA MergedDistinct ==
  ASSUME IInv, at <= Len(plan), NEW drafts \in Replacements,
         NEW ids \in NewIds(drafts), AllNew(ids)
  PROVE  DistinctIds(Merged(drafts, ids))
<1> DEFINE n == Len(drafts)
           M == Merged(drafts, ids)
<1>1. /\ n \in Nat /\ DOMAIN ids = 1..n
      /\ DOMAIN Kept = 1..at /\ \A i \in 1..at : Kept[i] = plan[i]
      /\ DOMAIN M = 1..(at + n)
      /\ \A i \in 1..at : M[i].id = plan[i].id
      /\ \A j \in 1..n : M[at + j].id = ids[j]
  BY MergedShape
<1>2. at \in 1..Len(plan) /\ DOMAIN plan = 1..Len(plan) /\ Len(plan) \in Nat
  BY Shape
<1>3. \A i \in 1..at, j \in 1..n : plan[i].id # ids[j]
  <2>1. \A i \in 1..at : plan[i].id \in Ids(Kept)
    BY <1>1 DEF Ids
  <2> QED BY <1>1, <2>1 DEF AllNew, Used
<1>4. \A j, k \in 1..n : k < j => ids[k] # ids[j]
  <2> SUFFICES ASSUME NEW j \in 1..n, NEW k \in 1..n, k < j PROVE ids[k] # ids[j]
    OBVIOUS
  <2>1. k \in 1..(j - 1)
    BY <1>1
  <2> QED BY <1>1, <2>1 DEF AllNew, Used
<1>5. \A i, k \in 1..at : plan[i].id = plan[k].id => i = k
  BY <1>2 DEF IInv, PlanInv, Aligned, DistinctIds
<1> HIDE DEF n, M
\* It is enough that no step has the id of one before it.
<1> SUFFICES ASSUME NEW i \in 1..(at + n), NEW k \in 1..(at + n), k < i PROVE M[i].id # M[k].id
  BY <1>1, <1>2 DEF DistinctIds, M
<1>6. CASE i <= at
  <2>1. i \in 1..at /\ k \in 1..at
    BY <1>2, <1>6
  <2> QED BY <1>1, <1>5, <2>1
<1>7. CASE i > at
  <2>1. i - at \in 1..n /\ at + (i - at) = i
    BY <1>1, <1>2, <1>7
  <2>2. M[i].id = ids[i - at]
    BY <1>1, <2>1
  <2>3. CASE k <= at
    <3>1. k \in 1..at
      BY <2>3
    <3> QED BY <1>1, <1>3, <2>1, <2>2, <3>1
  <2>4. CASE k > at
    <3>1. k - at \in 1..n /\ at + (k - at) = k /\ k - at < i - at
      BY <1>1, <1>2, <1>7, <2>4
    <3>2. M[k].id = ids[k - at]
      BY <1>1, <3>1
    <3> QED BY <1>4, <2>1, <2>2, <3>1, <3>2
  <2> QED BY <1>2, <2>3, <2>4
<1> QED BY <1>2, <1>6, <1>7

\* A valid merge keeps the records up to the failed step and starts all others
\* from nothing, those with the id of a dropped step included.
LEMMA ReplanRecords ==
  ASSUME IInv, NEW drafts \in Replacements, Replan(drafts)
  PROVE  /\ Len(drafts) \in Nat /\ at + Len(drafts) <= MaxSteps
         /\ Len(plan') = at + Len(drafts) /\ DOMAIN plan' = 1..(at + Len(drafts))
         /\ plan' \in Seq(PlanStep) /\ DistinctIds(plan') /\ Valid(plan')
         /\ steps' \in Seq(StepRun) /\ Len(steps') = at + Len(drafts)
         /\ DOMAIN steps' = 1..(at + Len(drafts))
         /\ \A i \in 1..(at + Len(drafts)) : steps'[i].id = plan'[i].id
         /\ \A i \in 1..at : plan'[i] = plan[i] /\ steps'[i] = steps[i]
         /\ \A i \in 1..(at + Len(drafts)) :
              i > at => steps'[i].status = "PENDING" /\ steps'[i].attempts = 0
<1>0. PICK ids \in NewIds(drafts) :
        /\ AllNew(ids) /\ Valid(Merged(drafts, ids))
        /\ plan' = Merged(drafts, ids) /\ steps' = Rebuilt(Merged(drafts, ids))
  BY DEF Replan
<1> DEFINE M == Merged(drafts, ids)
           n == Len(drafts)
<1>1. at <= Len(plan) /\ ~Rerun /\ status = "EXECUTING"
  BY Executing DEF Replan, MayReplan
<1>2. /\ n \in Nat /\ Len(M) = at + n /\ DOMAIN M = 1..(at + n) /\ M \in Seq(PlanStep)
      /\ \A i \in 1..at : M[i] = plan[i]
  BY <1>1, MergedShape
<1>3. DistinctIds(M)
  BY <1>0, <1>1, MergedDistinct
<1>4. plan' = M /\ steps' = Rebuilt(M) /\ Valid(M)
  BY <1>0
<1>5. at \in 1..Len(plan) /\ Len(plan) \in Nat /\ DOMAIN plan = 1..Len(plan)
      /\ DOMAIN steps = 1..Len(plan)
      /\ \A k \in 1..Len(plan) : steps[k] \in StepRun /\ steps[k].id = plan[k].id
  BY <1>1, Shape
<1> HIDE DEF M, n
<1>6. at + n <= MaxSteps
  BY <1>2, <1>4, BoundsAssumption DEF Valid
<1>7. ASSUME NEW i \in 1..at PROVE Rebuilt(M)[i] = steps[i]
  <2>1. i \in DOMAIN M /\ i \in 1..Len(plan) /\ M[i].id = plan[i].id
    BY <1>2, <1>5
  <2>2. PICK k \in 1..Len(plan) : plan[k].id = M[i].id /\ Rebuilt(M)[i] = steps[k]
    BY <2>1, RebuiltRecord
  <2>3. k = i
    BY <1>5, <2>1, <2>2 DEF IInv, PlanInv, Aligned, DistinctIds
  <2> QED BY <2>2, <2>3
<1>8. ASSUME NEW i \in 1..(at + n), i > at
      PROVE  /\ Rebuilt(M)[i] \in StepRun /\ Rebuilt(M)[i].id = M[i].id
             /\ Rebuilt(M)[i].status = "PENDING" /\ Rebuilt(M)[i].attempts = 0
  <2>1. CASE \E k \in 1..Len(plan) : plan[k].id = M[i].id /\ Rebuilt(M)[i] = steps[k]
    <3>1. PICK k \in 1..Len(plan) : plan[k].id = M[i].id /\ Rebuilt(M)[i] = steps[k]
      BY <2>1
    <3>2. k > at
      <4> SUFFICES ASSUME ~(k > at) PROVE FALSE
        OBVIOUS
      <4>1. k \in 1..at /\ k \in DOMAIN M /\ i \in DOMAIN M /\ k # i
        BY <1>2, <1>5, <1>8
      <4>2. M[k].id = M[i].id
        BY <1>2, <3>1, <4>1
      <4> QED BY <1>3, <4>1, <4>2 DEF DistinctIds
    <3>3. steps[k].status = "PENDING"
      BY <1>1, <1>5, <3>2 DEF IInv, PlanInv, Progress
    <3>4. steps[k].attempts = 0
      BY <1>5, <3>3 DEF IInv, PlanInv, Counted
    <3> QED BY <1>5, <3>1, <3>3, <3>4
  <2>2. CASE Rebuilt(M)[i] = Fresh(M[i])
    <3>1. M[i] \in PlanStep
      BY <1>2
    <3> QED BY <2>2, <3>1 DEF Fresh, StepRun, StepStatus, PlanStep
  <2>3. i \in DOMAIN M
    BY <1>2
  <2> QED BY <2>1, <2>2, <2>3, RebuiltRecord
<1>9. ASSUME NEW i \in 1..(at + n)
      PROVE  Rebuilt(M)[i] \in StepRun /\ Rebuilt(M)[i].id = M[i].id
  <2>1. CASE i <= at
    <3>1. i \in 1..at /\ i \in 1..Len(plan)
      BY <1>2, <1>5, <2>1
    <3> QED BY <1>2, <1>5, <1>7, <3>1
  <2>2. CASE i > at
    BY <1>8, <2>2
  <2> QED BY <1>2, <1>5, <2>1, <2>2
<1>10. Rebuilt(M) \in Seq(StepRun) /\ Len(Rebuilt(M)) = at + n /\ DOMAIN Rebuilt(M) = 1..(at + n)
  <2>1. at + n \in Nat
    BY <1>2, <1>5
  <2>2. DOMAIN Rebuilt(M) = 1..(at + n) /\ Rebuilt(M) = [i \in 1..(at + n) |-> Rebuilt(M)[i]]
    BY <1>2 DEF Rebuilt
  <2>3. \A i \in 1..(at + n) : Rebuilt(M)[i] \in StepRun
    BY <1>9
  <2> HIDE DEF Rebuilt
  <2> QED BY <2>1, <2>2, <2>3
<1>11. \A i \in 1..(at + n) : steps'[i].id = plan'[i].id
  BY <1>4, <1>9
<1>12. \A i \in 1..at : plan'[i] = plan[i] /\ steps'[i] = steps[i]
  BY <1>2, <1>4, <1>7
<1>13. \A i \in 1..(at + n) : i > at => steps'[i].status = "PENDING" /\ steps'[i].attempts = 0
  BY <1>4, <1>8
<1> QED BY <1>2, <1>3, <1>4, <1>6, <1>10, <1>11, <1>12, <1>13 DEF n

LEMMA ReplanStep ==
  ASSUME IInv, NEW drafts \in Replacements, Replan(drafts)
  PROVE  IInv'
<1> DEFINE n == Len(drafts)
           m == at + n
<1>1. /\ at \in 1..Len(plan) /\ Len(plan) \in Nat /\ pc = "failed" /\ ~Rerun /\ replans < Limit
      /\ status = "EXECUTING" /\ steps[at].status = "FAILED"
      /\ DOMAIN plan = 1..Len(plan) /\ DOMAIN steps = 1..Len(plan)
      /\ steps[at].id = plan[at].id
  BY Executing, AtStatus, Shape DEF Replan, MayReplan
<1>2. /\ n \in Nat /\ m <= MaxSteps
      /\ Len(plan') = m /\ DOMAIN plan' = 1..m
      /\ plan' \in Seq(PlanStep) /\ DistinctIds(plan') /\ Valid(plan')
      /\ steps' \in Seq(StepRun) /\ Len(steps') = m /\ DOMAIN steps' = 1..m
      /\ \A i \in 1..m : steps'[i].id = plan'[i].id
      /\ \A i \in 1..at : plan'[i] = plan[i] /\ steps'[i] = steps[i]
      /\ \A i \in 1..m : i > at => steps'[i].status = "PENDING" /\ steps'[i].attempts = 0
  BY ReplanRecords
<1>3. /\ status' = status /\ completed' = completed /\ flag' = flag /\ late' = late
      /\ reruns' = reruns /\ after' = after /\ replans' = replans + 1 /\ at' = at + 1
      /\ pc' = "step" /\ events' = events \cup {plan[at].id}
  BY DEF Replan
<1>4. Rerun' = Rerun
  BY <1>3 DEF Rerun
<1> HIDE DEF n
<1>6. Aligned'
  BY <1>2 DEF Aligned
<1>7. Backward'
  BY <1>2 DEF Backward, Valid
<1>9. Progress'
  <2>1. \A i \in 1..m :
          /\ i < at + 1 => \/ steps'[i].status = "COMPLETED"
                           \/ steps'[i].status = "FAILED" /\ steps'[i].id \in events' /\ ~Rerun
          /\ i >= at + 1 => steps'[i].status = "PENDING"
    <3> SUFFICES ASSUME NEW i \in 1..m
                 PROVE  /\ i < at + 1 => \/ steps'[i].status = "COMPLETED"
                                         \/ steps'[i].status = "FAILED" /\ steps'[i].id \in events' /\ ~Rerun
                        /\ i >= at + 1 => steps'[i].status = "PENDING"
      OBVIOUS
    <3>1. CASE i < at
      <4>1. i \in 1..at /\ i \in DOMAIN steps
        BY <1>1, <1>2, <3>1
      <4>2. \/ steps[i].status = "COMPLETED"
            \/ steps[i].status = "FAILED" /\ steps[i].id \in events /\ ~Rerun
        BY <1>1, <3>1, <4>1 DEF IInv, PlanInv, Progress
      <4> QED BY <1>1, <1>2, <1>3, <3>1, <4>1, <4>2
    <3>2. CASE i = at
      BY <1>1, <1>2, <1>3, <3>2
    <3>3. CASE i > at
      BY <1>1, <1>2, <3>3
    <3> QED BY <1>1, <1>2, <3>1, <3>2, <3>3
  <2>2. completed' = {steps'[j].id : j \in {k \in 1..(at' - 1) : steps'[k].status = "COMPLETED"}}
    <3>1. completed = CompletedIds(steps, at)
      BY <1>1 DEF IInv, PlanInv, Progress, CompletedIds
    <3>2. \A k \in 1..at : steps'[k] = steps[k]
      BY <1>2
    <3>3. 1..(at' - 1) = 1..(at - 1) \cup {at} /\ \A k \in 1..(at - 1) : k \in 1..at
      BY <1>1, <1>3
    <3>4. steps'[at].status # "COMPLETED"
      BY <1>1, <3>2
    <3> QED BY <1>3, <3>1, <3>2, <3>3, <3>4 DEF CompletedIds
  <2> QED BY <1>1, <1>2, <1>3, <1>4, <2>1, <2>2 DEF Progress
<1>10. DependenciesHold'
  <2> SUFFICES ASSUME NEW i \in 1..m, NEW j \in 1..m,
                      steps'[i].status = "COMPLETED", plan'[j].id \in plan'[i].deps
               PROVE  steps'[j].status = "COMPLETED"
    BY <1>2 DEF DependenciesHold
  <2>1. i \in 1..at /\ i \in 1..Len(plan)
    BY <1>1, <1>2
  <2>2. plan'[i].deps = plan[i].deps /\ steps[i].status = "COMPLETED"
    BY <1>2, <2>1
  <2>3. PICK l \in 1..(i - 1) : plan[l].id = plan'[j].id
    BY <1>1, <2>1, <2>2 DEF IInv, PlanInv, Backward
  <2>4. l \in 1..at /\ l \in 1..Len(plan) /\ l \in 1..m
    BY <1>1, <1>2, <2>1
  <2>5. l = j
    BY <1>2, <2>3, <2>4 DEF DistinctIds
  <2>6. steps[l].status = "COMPLETED"
    BY <1>1, <2>1, <2>2, <2>3, <2>4 DEF IInv, PlanInv, DependenciesHold
  <2> QED BY <1>2, <2>4, <2>5, <2>6
<1>11. Counted' /\ CancelStops' /\ CutOff' /\ CompletedIsWhole'
  <2>1. \A i \in 1..m : steps'[i].status = "PENDING" => steps'[i].attempts = 0
    <3> SUFFICES ASSUME NEW i \in 1..m, steps'[i].status = "PENDING" PROVE steps'[i].attempts = 0
      OBVIOUS
    <3>1. CASE i <= at
      <4>1. i \in 1..at /\ i \in DOMAIN steps
        BY <1>1, <1>2, <3>1
      <4> QED BY <1>2, <4>1 DEF IInv, PlanInv, Counted
    <3>2. CASE i > at
      BY <1>2, <3>2
    <3> QED BY <1>1, <1>2, <3>1, <3>2
  <2>2. Counted /\ CancelStops
    BY DEF IInv, PlanInv
  <2>3. Counted'
    BY <1>2, <1>3, <2>1, <2>2 DEF Counted
  <2> QED BY <1>1, <1>3, <2>2, <2>3 DEF CancelStops, CutOff, CompletedIsWhole
<1>12. TypeOK'
  <2>1. \A i \in 1..m : steps'[i].attempts <= MaxRetries + 1
    <3> SUFFICES ASSUME NEW i \in 1..m PROVE steps'[i].attempts <= MaxRetries + 1
      OBVIOUS
    <3>1. CASE i <= at
      <4>1. i \in 1..at /\ i \in DOMAIN steps
        BY <1>1, <1>2, <3>1
      <4> QED BY <1>2, <4>1 DEF IInv, TypeOK
    <3>2. CASE i > at
      BY <1>2, <3>2, BoundsAssumption
    <3> QED BY <1>1, <1>2, <3>1, <3>2
  <2>2. events' \subseteq Id
    BY <1>1, <1>3, Shape DEF IInv, TypeOK, PlanStep
  <2>3. replans' \in 0..Limit /\ at' \in Nat \ {0}
    BY <1>1, <1>3, BoundsAssumption DEF IInv, TypeOK
  <2> QED BY <1>2, <1>3, <2>1, <2>2, <2>3 DEF IInv, TypeOK
<1> QED BY <1>6, <1>7, <1>9, <1>10, <1>11, <1>12 DEF IInv, PlanInv

LEMMA HangStep ==
  ASSUME IInv, NEW drafts \in Replacements, Hang(drafts)
  PROVE  IInv'
<1>1. /\ pc = "failed" /\ pc' = "merge"
      /\ UNCHANGED <<plan, steps, status, at, completed, replans, events, flag, late, reruns, after>>
  BY DEF Hang, MayReplan
<1>2. TypeOK' /\ Aligned' /\ Backward' /\ Progress'
  BY <1>1 DEF IInv, PlanInv, TypeOK, Aligned, Backward, Progress, Rerun
<1>3. Counted' /\ CutOff' /\ CompletedIsWhole' /\ DependenciesHold' /\ CancelStops'
  BY <1>1 DEF IInv, PlanInv, Counted, CutOff, CompletedIsWhole, DependenciesHold, CancelStops, Rerun
<1> QED BY <1>2, <1>3 DEF IInv, PlanInv

-----------------------------------------------------------------------------
(* The invariant and what follows from it.                                 *)

LEMMA StoppedStep ==
  ASSUME IInv, StopBefore \/ StopBetween \/ TooLate
  PROVE  IInv'
<1>1. pc \in {"step", "check", "call"}
  BY DEF StopBefore, AtStep, StopBetween, TooLate
<1>2. status = "EXECUTING"
  BY <1>1, Executing
<1>3. PICK outcome \in {"CANCELLED", "TIMED_OUT", "FAILED"} : Stop(outcome)
  BY DEF StopBefore, StopBetween, TooLate, StopOutcome
<1> QED BY <1>1, <1>2, <1>3, StopStep DEF Stop

LEMMA GivenUpStep ==
  ASSUME IInv, Refuse \/ Abandon
  PROVE  IInv'
<1>1. pc \in {"step", "failed"} /\ GiveUp
  BY DEF Refuse, AtStep, Abandon
<1>2. status = "EXECUTING"
  BY <1>1, Executing
<1> QED BY <1>1, <1>2, StopStep DEF GiveUp

LEMMA InvStep ==
  ASSUME IInv, [Next]_vars
  PROVE  IInv'
<1>1. CASE UNCHANGED vars
  <2>1. TypeOK' /\ Aligned' /\ Backward' /\ Progress'
    BY <1>1 DEF IInv, PlanInv, vars, TypeOK, Aligned, DistinctIds, Backward, Progress, Rerun
  <2>2. Counted' /\ CutOff' /\ CompletedIsWhole' /\ DependenciesHold' /\ CancelStops'
    BY <1>1 DEF IInv, PlanInv, vars, Counted, CutOff, CompletedIsWhole, DependenciesHold,
       CancelStops, Rerun
  <2> QED BY <2>1, <2>2 DEF IInv, PlanInv
<1> QED
  BY <1>1, FinishStep, StoppedStep, GivenUpStep, ForbidStep, BeginStep, AttemptStep,
     SucceedStep, TryAgainStep, FailStep, ReplanStep, HangStep, OutsideStep, RetryStep
     DEF Next, Execute

LEMMA InvInit ==
  ASSUME Init
  PROVE  IInv
<1>1. /\ plan \in Seq(PlanStep) /\ DistinctIds(plan) /\ Len(plan) \in 1..MaxSteps
      /\ \A i \in DOMAIN plan : plan[i].deps \subseteq {plan[j].id : j \in 1..(i - 1)}
  BY OriginalsAssumption DEF Init, PlannerAnswer, Valid
<1>2. DOMAIN plan = 1..Len(plan) /\ Len(plan) \in Nat /\ Len(plan) >= 1
  BY <1>1, BoundsAssumption
<1>3. /\ DOMAIN steps = 1..Len(plan)
      /\ \A i \in 1..Len(plan) : steps[i] = Fresh(plan[i])
  BY <1>2 DEF Init
<1>4. \A i \in 1..Len(plan) :
        /\ steps[i] \in StepRun /\ steps[i].id = plan[i].id
        /\ steps[i].status = "PENDING" /\ steps[i].attempts = 0
  <2>1. \A i \in 1..Len(plan) : plan[i] \in PlanStep
    BY <1>1, <1>2
  <2>2. \A i \in 1..Len(plan) : plan[i].id \in Id
    BY <2>1 DEF PlanStep
  <2> QED BY <1>3, <2>2 DEF Fresh, StepRun, StepStatus
<1>5. steps \in Seq(StepRun) /\ Len(steps) = Len(plan)
  <2>1. steps = [i \in 1..Len(plan) |-> steps[i]]
    BY <1>2 DEF Init
  <2> QED BY <1>2, <1>3, <1>4, <2>1
<1>6. /\ status = "EXECUTING" /\ pc = "step" /\ at = 1 /\ completed = {} /\ events = {}
      /\ replans \in 0..Limit /\ flag = FALSE /\ late = FALSE /\ reruns = 0 /\ after = 0
  BY BoundsAssumption DEF Init
<1>7. TypeOK
  <2>1. \A i \in DOMAIN steps : steps[i].attempts <= MaxRetries + 1
    BY <1>3, <1>4, BoundsAssumption
  <2>2. completed \subseteq Id /\ events \subseteq Id /\ at \in Nat \ {0}
    BY <1>6
  <2>3. reruns \in 0..MaxReruns /\ after \in Nat
    BY <1>6, BoundsAssumption
  <2> QED BY <1>1, <1>5, <1>6, <2>1, <2>2, <2>3 DEF TypeOK
<1>8. Aligned /\ Backward
  BY <1>1, <1>2, <1>4, <1>5 DEF Aligned, Backward
<1>9. Progress
  <2>1. completed = {steps[j].id : j \in {k \in 1..(at - 1) : steps[k].status = "COMPLETED"}}
    BY <1>6
  <2> QED BY <1>2, <1>3, <1>4, <1>6, <2>1 DEF Progress
<1>10. Counted /\ CutOff /\ CompletedIsWhole /\ DependenciesHold /\ CancelStops
  BY <1>2, <1>3, <1>4, <1>6
     DEF Counted, CutOff, CompletedIsWhole, DependenciesHold, CancelStops
<1> QED BY <1>7, <1>8, <1>9, <1>10 DEF IInv, PlanInv

\* Types, limits and the inductive invariant hold, for plans of any length and
\* whatever the planner answers.
THEOREM PlanTypes == Spec => [](TypeOK /\ PlanInv)
<1>1. Init => IInv
  BY InvInit
<1>2. IInv /\ [Next]_vars => IInv'
  BY InvStep
<1>3. IInv => TypeOK /\ PlanInv
  BY DEF IInv
<1> QED BY <1>1, <1>2, <1>3, PTL DEF Spec

\* Every variable keeps its type, attempts and rounds their limits (TypeOK).
THEOREM PlanTypeCorrect == Spec => []TypeOK
<1> QED BY PlanTypes, PTL

\* The loop that goes by position and the dependencies that go by id speak of
\* the same steps, through any number of merges.
THEOREM PlanStaysAligned == Spec => []Aligned
<1>1. PlanInv => Aligned
  BY DEF PlanInv
<1> QED BY <1>1, PlanTypes, PTL

\* A run that is reported COMPLETED has completed what it has not replanned
\* around.
THEOREM CompletedRunIsWhole == Spec => []CompletedIsWhole
<1>1. PlanInv => CompletedIsWhole
  BY DEF PlanInv
<1> QED BY <1>1, PlanTypes, PTL

\* No result is computed without the results it depends on.
THEOREM ResultsHaveTheirDependencies == Spec => []DependenciesHold
<1>1. PlanInv => DependenciesHold
  BY DEF PlanInv
<1> QED BY <1>1, PlanTypes, PTL

\* After a cancel at most one call of a tool comes to its end.
THEOREM CancelLetsOneCallEnd == Spec => []CancelStops
<1>1. PlanInv => CancelStops
  BY DEF PlanInv
<1> QED BY <1>1, PlanTypes, PTL

\* A cancelled or timed-out run leaves nothing to be done, and at most one
\* step cut off.
THEOREM StopBlocksTheRest == Spec => []StoppedIsBlocked
<1>1. TypeOK /\ PlanInv => StoppedIsBlocked
  <2> SUFFICES ASSUME TypeOK, PlanInv, status \in {"CANCELLED", "TIMED_OUT"}
               PROVE  /\ \A i \in DOMAIN steps : steps[i].status # "PENDING"
                      /\ Cardinality({i \in DOMAIN steps : steps[i].status = "RUNNING"}) <= 1
    BY DEF StoppedIsBlocked
  <2> DEFINE running == {i \in DOMAIN steps : steps[i].status = "RUNNING"}
  <2>1. \A i \in DOMAIN steps :
          steps[i].status # "PENDING" /\ (steps[i].status = "RUNNING" => i = at)
    BY DEF PlanInv, CutOff
  <2>2. running \subseteq {at}
    BY <2>1
  <2>3. IsFiniteSet({at}) /\ Cardinality({at}) = 1
    BY FS_Singleton
  <2>4. Cardinality(running) <= 1
    BY <2>2, <2>3, FS_Subset
  <2> QED BY <2>1, <2>4
<1> QED BY <1>1, PlanTypes, PTL

-----------------------------------------------------------------------------
(* The execution implements the log of ended steps.                        *)

\* Steps that have failed behind the thread; a replan was spent on each.
FailedBehind == {i \in 1..(at - 1) : steps[i].status = "FAILED"}

LogInv ==
  /\ \E m \in Nat : Ended = 1..m
  /\ status = "EXECUTING" => Cardinality(FailedBehind) <= replans

\* Where an execution has got to.
LEMMA EndedNow ==
  ASSUME IInv, status = "EXECUTING"
  PROVE  /\ pc \in {"failed", "merge"} => Ended = 1..at
         /\ pc \notin {"failed", "merge"} => Ended = 1..(at - 1)
         /\ at - 1 \in Nat
<1>1. at \in 1..(Len(plan) + 1) /\ DOMAIN steps = 1..Len(plan) /\ Len(plan) \in Nat
  BY Shape
<1>2. \A i \in 1..Len(plan) :
        /\ i < at => steps[i].status \in {"COMPLETED", "FAILED"}
        /\ i > at => steps[i].status = "PENDING"
        /\ i = at => IF pc \in {"failed", "merge"} THEN steps[i].status = "FAILED"
                     ELSE steps[i].status \in {"PENDING", "RUNNING"}
  BY <1>1 DEF IInv, PlanInv, Progress
<1>3. pc \in {"failed", "merge"} => at <= Len(plan)
  BY Executing
<1>4. CASE pc \in {"failed", "merge"}
  <2>1. \A i \in 1..Len(plan) : steps[i].status \in {"COMPLETED", "FAILED"} <=> i <= at
    BY <1>1, <1>2, <1>4
  <2>2. Ended = {i \in 1..Len(plan) : i <= at}
    BY <1>1, <2>1 DEF Ended
  <2> QED BY <1>1, <1>3, <1>4, <2>2
<1>5. CASE pc \notin {"failed", "merge"}
  <2>1. \A i \in 1..Len(plan) : steps[i].status \in {"COMPLETED", "FAILED"} <=> i < at
    BY <1>1, <1>2, <1>5
  <2>2. Ended = {i \in 1..Len(plan) : i < at}
    BY <1>1, <2>1 DEF Ended
  <2> QED BY <1>1, <1>5, <2>2
<1> QED BY <1>1, <1>4, <1>5

LEMMA LogShape ==
  ASSUME NEW m \in Nat, Ended = 1..m
  PROVE  LogNow = [i \in 1..m |-> Entry(steps[i])]
<1>1. Cardinality(1..m) = m
  <2>1. Cardinality(1..m) = IF 1 > m THEN 0 ELSE m - 1 + 1
    BY FS_Interval
  <2> QED BY <2>1
<1> QED BY <1>1 DEF LogNow

LEMMA LogShapeNext ==
  ASSUME NEW m \in Nat, Ended' = 1..m
  PROVE  LogNow' = [i \in 1..m |-> Entry(steps'[i])]
<1>1. Cardinality(1..m) = m
  <2>1. Cardinality(1..m) = IF 1 > m THEN 0 ELSE m - 1 + 1
    BY FS_Interval
  <2> QED BY <2>1
<1> QED BY <1>1 DEF LogNow

LEMMA LogKept ==
  ASSUME NEW m \in Nat, Ended = 1..m, Ended' = 1..m,
         \A i \in 1..m : steps'[i].id = steps[i].id /\ steps'[i].status = steps[i].status
  PROVE  LogNow' = LogNow
BY LogShape, LogShapeNext DEF Entry

\* A change in place that no ended step is part of and that ends none.
LEMMA EndedKept ==
  ASSUME IInv, LogInv, NEW new, NEW tries, Same(new, tries),
         \A i \in 1..Len(plan) :
           \/ new[i] = steps[i].status
           \/ /\ new[i] \notin {"COMPLETED", "FAILED"}
              /\ steps[i].status \notin {"COMPLETED", "FAILED"}
  PROVE  LogNow' = LogNow /\ Ended' = Ended
<1>1. PICK m \in Nat : Ended = 1..m
  BY DEF LogInv
<1>2. DOMAIN steps = 1..Len(plan)
  BY Shape
<1>3. /\ DOMAIN steps' = 1..Len(plan)
      /\ \A i \in 1..Len(plan) : steps'[i].id = steps[i].id /\ steps'[i].status = new[i]
  BY DEF Same
<1>4. Ended' = Ended
  BY <1>2, <1>3 DEF Ended
<1>5. \A i \in 1..m : i \in 1..Len(plan) /\ steps[i].status \in {"COMPLETED", "FAILED"}
  BY <1>1, <1>2 DEF Ended
<1>6. \A i \in 1..m : steps'[i].id = steps[i].id /\ steps'[i].status = steps[i].status
  BY <1>3, <1>5
<1> QED BY <1>1, <1>4, <1>6, LogKept

LEMMA FewFailures ==
  ASSUME IInv, LogInv, status = "EXECUTING"
  PROVE  IsFiniteSet(FailedBehind) /\ Cardinality(FailedBehind) <= Limit
<1>1. at - 1 \in Nat
  BY EndedNow
<1>2. IsFiniteSet(1..(at - 1))
  BY <1>1, FS_Interval
<1>3. FailedBehind \subseteq 1..(at - 1)
  BY DEF FailedBehind
<1>4. IsFiniteSet(FailedBehind) /\ Cardinality(FailedBehind) \in Nat
  BY <1>2, <1>3, FS_Subset, FS_CardinalityType
<1>5. replans \in 0..Limit /\ Cardinality(FailedBehind) <= replans
  BY DEF IInv, TypeOK, LogInv
<1> QED BY <1>4, <1>5, BoundsAssumption

\* The thread brings the step it is at to an end.
LEMMA SettleStep ==
  ASSUME IInv, LogInv, Forbid \/ Succeed \/ Fail
  PROVE  Log!Settle /\ Ended' = 1..at
<1>1. /\ status = "EXECUTING" /\ status' = status /\ pc \in {"step", "call"} /\ at <= Len(plan)
      /\ plan' = plan
  BY Executing DEF Forbid, AtStep, Succeed, Fail
<1>2. PICK new \in {"COMPLETED", "FAILED"} : Same([Statuses EXCEPT ![at] = new], Tries)
  <2>1. \E new \in {"COMPLETED", "FAILED"} : SetStep(new)
    BY DEF Forbid, Succeed, Fail
  <2> QED BY <1>1, <2>1, SetOne DEF StepStatus
<1>3. at \in 1..Len(plan) /\ at - 1 \in Nat /\ at \in Nat /\ DOMAIN steps = 1..Len(plan)
      /\ DOMAIN plan = 1..Len(plan) /\ Len(plan) \in Nat
  BY <1>1, Shape
<1>4. /\ DOMAIN steps' = 1..Len(plan)
      /\ \A i \in 1..Len(plan) :
           /\ steps'[i].id = steps[i].id
           /\ steps'[i].status = IF i = at THEN new ELSE steps[i].status
  BY <1>2, <1>3 DEF Same, Statuses
<1>5. Ended = 1..(at - 1)
  BY <1>1, EndedNow
<1>6. Ended' = Ended \cup {at}
  BY <1>3, <1>4 DEF Ended
<1>7. Ended' = 1..at
  BY <1>3, <1>5, <1>6
<1>8. /\ LogNow = [i \in 1..(at - 1) |-> Entry(steps[i])]
      /\ LogNow' = [i \in 1..at |-> Entry(steps'[i])]
  BY <1>3, <1>5, <1>7, LogShape, LogShapeNext
<1>9. Len(LogNow) = at - 1 /\ Len(LogNow') = at /\ DOMAIN LogNow = 1..(at - 1)
  BY <1>3, <1>8
<1>10. \A i \in 1..(at - 1) : LogNow'[i] = LogNow[i]
  BY <1>3, <1>4, <1>8 DEF Entry
<1>11. SubSeq(LogNow', 1, at - 1) = LogNow
  <2>1. SubSeq(LogNow', 1, at - 1) = [i \in 1..(at - 1) |-> LogNow'[i]]
    BY <1>3, <1>8
  <2> QED BY <1>8, <1>10, <2>1
<1>12. LogNow'[at].id = plan[at].id /\ \A i \in 1..(at - 1) : LogNow[i].id = plan[i].id
  BY <1>3, <1>4, <1>8, Shape DEF Entry
<1>13. LogNow'[at].id \notin {LogNow[i].id : i \in DOMAIN LogNow}
  <2>1. \A i \in 1..(at - 1) : plan[i].id # plan[at].id
    <3>1. \A i \in 1..(at - 1) : i \in DOMAIN plan /\ at \in DOMAIN plan /\ i # at
      BY <1>3
    <3> QED BY <3>1 DEF IInv, PlanInv, Aligned, DistinctIds
  <2> QED BY <1>9, <1>12, <2>1
<1>14. Log!Failures(LogNow) = FailedBehind
  BY <1>8, <1>9 DEF Log!Failures, FailedBehind, Entry
<1>15. Cardinality(Log!Failures(LogNow)) <= Limit
  BY <1>1, <1>14, FewFailures
<1>16. Len(LogNow') = Len(LogNow) + 1 /\ SubSeq(LogNow', 1, Len(LogNow)) = LogNow
  BY <1>3, <1>9, <1>11
<1>17. LogNow'[Len(LogNow')].id \notin {LogNow[i].id : i \in DOMAIN LogNow}
  BY <1>9, <1>13
<1>18. (status = "EXECUTING") /\ (status = "EXECUTING")'
  BY <1>1
<1>19. Log!Cardinality(Log!Failures(LogNow)) = Cardinality(Log!Failures(LogNow))
  BY DEF Log!Cardinality, Cardinality
<1> QED BY <1>7, <1>15, <1>16, <1>17, <1>18, <1>19 DEF Log!Settle

\* An ended step more is a failure more behind the thread only once it is
\* replanned around.
LEMMA SettleLog ==
  ASSUME IInv, LogInv, Forbid \/ Succeed \/ Fail
  PROVE  Log!Settle /\ LogInv'
<1>1. Log!Settle /\ Ended' = 1..at
  BY SettleStep
<1>2. /\ status = "EXECUTING" /\ at <= Len(plan) /\ replans' = replans
      /\ \/ at' = at
         \/ at' = at + 1 /\ SetStep("COMPLETED")
  BY Executing DEF Forbid, AtStep, Succeed, Fail
<1>3. at \in 1..Len(plan) /\ DOMAIN steps = 1..Len(plan) /\ Len(plan) \in Nat
  BY <1>2, Shape
<1>4. \E new \in StepStatus : SetStep(new)
  BY DEF Forbid, Succeed, Fail, StepStatus
<1>5. \A i \in 1..(at - 1) : steps'[i] = steps[i]
  BY <1>3, <1>4 DEF SetStep
<1>6. FailedBehind' = FailedBehind
  <2>1. CASE at' = at
    BY <1>5, <2>1 DEF FailedBehind
  <2>2. CASE at' = at + 1 /\ SetStep("COMPLETED")
    <3>1. Same([Statuses EXCEPT ![at] = "COMPLETED"], Tries)
      BY <1>2, <2>2, SetOne DEF StepStatus
    <3>2. steps'[at].status = "COMPLETED"
      BY <1>3, <3>1 DEF Same, Statuses
    <3>3. FailedBehind' = {i \in 1..at : steps'[i].status = "FAILED"}
      BY <1>3, <2>2 DEF FailedBehind
    <3> QED BY <1>3, <1>5, <3>2, <3>3 DEF FailedBehind
  <2> QED BY <1>2, <2>1, <2>2
<1>7. Cardinality(FailedBehind) <= replans
  BY <1>2 DEF LogInv
<1> QED BY <1>1, <1>2, <1>3, <1>6, <1>7 DEF LogInv

\* What changes no ended step leaves the log as it is, and closes it when the
\* execution ends.
LEMMA KeepLog ==
  ASSUME IInv, LogInv, status = "EXECUTING", at' = at, replans' = replans,
         NEW new, NEW tries, Same(new, tries),
         \A i \in 1..Len(plan) :
           \/ new[i] = steps[i].status
           \/ /\ new[i] \notin {"COMPLETED", "FAILED"}
              /\ steps[i].status \notin {"COMPLETED", "FAILED"}
  PROVE  /\ LogInv'
         /\ status' = status => UNCHANGED Log!vars
         /\ status' # status => Log!Close
<1>1. LogNow' = LogNow /\ Ended' = Ended
  BY EndedKept
<1>2. \A i \in 1..Len(plan) : steps'[i].status = "FAILED" <=> steps[i].status = "FAILED"
  BY DEF Same
<1>3. \A i \in 1..(at - 1) : i \in 1..Len(plan)
  BY Shape
<1>4. FailedBehind' = FailedBehind
  BY <1>2, <1>3 DEF FailedBehind
<1>5. LogInv'
  BY <1>1, <1>4 DEF LogInv
<1> QED BY <1>1, <1>5 DEF Log!vars, Log!Close

LEMMA CloseLog ==
  ASSUME IInv, LogInv,
         Finish \/ StopBefore \/ StopBetween \/ TooLate \/ Refuse \/ Abandon
  PROVE  Log!Close /\ LogInv'
<1>1. status = "EXECUTING"
  BY Executing DEF Finish, StopBefore, AtStep, StopBetween, TooLate, Refuse, Abandon
<1>2. CASE Finish
  <2>1. Same(Statuses, Tries) /\ status' # status /\ at' = at /\ replans' = replans
    BY <1>1, <1>2, SameSteps DEF Finish, End
  <2>2. \A i \in 1..Len(plan) : Statuses[i] = steps[i].status
    BY DEF Statuses
  <2> QED BY <1>1, <2>1, <2>2, KeepLog
<1>3. CASE ~Finish
  <2>1. \/ \E outcome \in {"CANCELLED", "TIMED_OUT", "FAILED"} : Stop(outcome)
        \/ GiveUp
    BY <1>3 DEF StopBefore, StopBetween, TooLate, StopOutcome, Refuse, Abandon
  <2>2. PICK from \in {at, at + 1} : steps' = Blocked(steps, from)
    BY <2>1 DEF Stop, GiveUp
  <2>3. status' # status /\ at' = at /\ replans' = replans
    BY <1>1, <2>1 DEF Stop, GiveUp, End
  <2>4. Same(BlockedStatuses(from), Tries)
    BY <2>2, Shape, BlockSome
  <2>5. \A i \in 1..Len(plan) :
          \/ BlockedStatuses(from)[i] = steps[i].status
          \/ BlockedStatuses(from)[i] = "BLOCKED" /\ steps[i].status = "PENDING"
    BY DEF BlockedStatuses
  <2> QED BY <1>1, <2>3, <2>4, <2>5, KeepLog
<1> QED BY <1>2, <1>3

LEMMA StayLog ==
  ASSUME IInv, LogInv, Begin \/ Attempt \/ TryAgain \/ Cancel \/ Deadline
  PROVE  UNCHANGED Log!vars /\ LogInv'
<1>1. status = "EXECUTING" /\ status' = status /\ at' = at /\ replans' = replans
  BY Executing DEF Begin, AtStep, Attempt, TryAgain, Cancel, Deadline
<1>2. \A i \in 1..Len(plan) : Statuses[i] = steps[i].status
  BY DEF Statuses
<1>3. CASE Begin
  <2>1. at <= Len(plan) /\ pc = "step"
    BY <1>3 DEF Begin, AtStep
  <2>2. Same([Statuses EXCEPT ![at] = "RUNNING"], Tries)
    BY <1>3, <2>1, SetOne DEF Begin, StepStatus
  <2>3. steps[at].status = "PENDING"
    BY <1>1, <2>1, AtStatus
  <2> DEFINE new == [Statuses EXCEPT ![at] = "RUNNING"]
  <2>4. \A i \in 1..Len(plan) : new[i] = IF i = at THEN "RUNNING" ELSE steps[i].status
    BY DEF Statuses
  <2>5. \A i \in 1..Len(plan) :
          \/ new[i] = steps[i].status
          \/ /\ new[i] \notin {"COMPLETED", "FAILED"}
             /\ steps[i].status \notin {"COMPLETED", "FAILED"}
    BY <2>3, <2>4
  <2> HIDE DEF new
  <2>6. Same(new, Tries)
    BY <2>2 DEF new
  <2> QED BY <1>1, <2>5, <2>6, KeepLog
<1>4. CASE Attempt
  <2>1. Same(Statuses, [Tries EXCEPT ![at] = @ + 1])
    BY <1>4, Executing, TryOne DEF Attempt
  <2> QED BY <1>1, <1>2, <2>1, KeepLog
<1>5. CASE TryAgain \/ Cancel \/ Deadline
  <2>1. Same(Statuses, Tries)
    BY <1>5, SameSteps DEF TryAgain, Cancel, Deadline
  <2> QED BY <1>1, <1>2, <2>1, KeepLog
<1> QED BY <1>3, <1>4, <1>5

\* A replan keeps every ended step, drops and adds only others, and goes past
\* the failure for one more round.
LEMMA ReplanLog ==
  ASSUME IInv, LogInv, NEW drafts \in Replacements, Replan(drafts)
  PROVE  UNCHANGED Log!vars /\ LogInv'
<1>1. /\ status = "EXECUTING" /\ status' = status /\ pc = "failed" /\ at' = at + 1
      /\ replans' = replans + 1
  BY Executing DEF Replan, MayReplan
<1>2. at \in 1..Len(plan) /\ Ended = 1..at
  BY <1>1, EndedNow, AtStatus, Executing
<1>3. /\ Len(drafts) \in Nat /\ DOMAIN steps' = 1..(at + Len(drafts))
      /\ \A i \in 1..at : steps'[i] = steps[i]
      /\ \A i \in 1..(at + Len(drafts)) : i > at => steps'[i].status = "PENDING"
  BY ReplanRecords
<1>4. \A i \in 1..at : steps[i].status \in {"COMPLETED", "FAILED"}
  BY <1>2 DEF Ended
<1>5. Ended' = 1..at
  <2>1. \A i \in 1..(at + Len(drafts)) :
          steps'[i].status \in {"COMPLETED", "FAILED"} <=> i <= at
    BY <1>2, <1>3, <1>4
  <2>2. Ended' = {i \in 1..(at + Len(drafts)) : i <= at}
    BY <1>3, <2>1 DEF Ended
  <2> QED BY <1>2, <1>3, <2>2
<1>6. LogNow' = LogNow
  BY <1>2, <1>3, <1>5, LogKept
<1>7. FailedBehind' = FailedBehind \cup {at}
  <2>1. steps[at].status = "FAILED"
    BY <1>1, <1>2, AtStatus
  <2>2. FailedBehind' = {i \in 1..at : steps'[i].status = "FAILED"}
    BY <1>1, <1>2 DEF FailedBehind
  <2>3. \A i \in 1..at : steps'[i].status = steps[i].status
    BY <1>3
  <2> QED BY <1>2, <2>1, <2>2, <2>3 DEF FailedBehind
<1>8. Cardinality(FailedBehind') <= replans'
  <2>1. IsFiniteSet(FailedBehind) /\ at \notin FailedBehind
    BY <1>1, <1>2, FewFailures DEF FailedBehind
  <2>2. Cardinality(FailedBehind \cup {at}) = Cardinality(FailedBehind) + 1
    BY <2>1, FS_AddElement
  <2>3. Cardinality(FailedBehind) \in Nat /\ replans \in Nat
    BY <2>1, FS_CardinalityType, BoundsAssumption DEF IInv, TypeOK
  <2>4. Cardinality(FailedBehind) <= replans
    BY <1>1 DEF LogInv
  <2> QED BY <1>1, <1>7, <2>2, <2>3, <2>4
<1> QED BY <1>1, <1>2, <1>5, <1>6, <1>8 DEF LogInv, Log!vars

\* A retry starts over at the first failure.
LEMMA RetryLog ==
  ASSUME IInv, LogInv, Retry
  PROVE  Log!Retry /\ LogInv'
<1>1. PICK i \in DOMAIN steps :
        /\ FirstFailed(i)
        /\ \A j \in 1..(i - 1) : steps[j].status = "COMPLETED"
        /\ steps' = Reset(i)
        /\ at' = i
  BY DEF Retry
<1>2. i \in 1..Len(plan) /\ DOMAIN steps = 1..Len(plan) /\ Len(plan) \in Nat
      /\ i - 1 \in Nat /\ i \in Nat
  BY <1>1, Shape
<1>3. Same([k \in 1..Len(plan) |-> IF k >= i THEN "PENDING" ELSE steps[k].status],
           [k \in 1..Len(plan) |-> IF k >= i THEN 0 ELSE steps[k].attempts])
  BY <1>1, <1>2, ResetSome
<1>4. /\ DOMAIN steps' = 1..Len(plan)
      /\ \A k \in 1..Len(plan) :
           /\ steps'[k].id = steps[k].id
           /\ steps'[k].status = IF k >= i THEN "PENDING" ELSE steps[k].status
  BY <1>3 DEF Same
<1>5. PICK m \in Nat : Ended = 1..m
  BY DEF LogInv
<1>6. i \in 1..m /\ steps[i].status = "FAILED"
  BY <1>1, <1>5 DEF FirstFailed, Ended
<1>7. Ended' = 1..(i - 1)
  <2>1. \A k \in 1..Len(plan) : steps'[k].status \in {"COMPLETED", "FAILED"} <=> k < i
    BY <1>1, <1>2, <1>4
  <2>2. Ended' = {k \in 1..Len(plan) : k < i}
    BY <1>4, <2>1 DEF Ended
  <2> QED BY <1>2, <2>2
<1>8. /\ LogNow = [k \in 1..m |-> Entry(steps[k])]
      /\ LogNow' = [k \in 1..(i - 1) |-> Entry(steps'[k])]
  BY <1>2, <1>5, <1>7, LogShape, LogShapeNext
<1>9. \A k \in 1..(i - 1) : LogNow'[k] = LogNow[k]
  BY <1>2, <1>4, <1>6, <1>8 DEF Entry
<1>10. LogNow' = SubSeq(LogNow, 1, i - 1)
  <2>1. SubSeq(LogNow, 1, i - 1) = [k \in 1..(i - 1) |-> LogNow[k]]
    BY <1>2, <1>5, <1>6, <1>8
  <2> QED BY <1>8, <1>9, <2>1
<1>11. i \in Log!Failures(LogNow)
  BY <1>6, <1>8 DEF Log!Failures, Entry
<1>12. \A j \in 1..(i - 1) : LogNow[j].status = "COMPLETED"
  BY <1>1, <1>2, <1>5, <1>6, <1>8 DEF Entry
<1>13. Log!Retry
  <2>1. ~(status = "EXECUTING") /\ (status = "EXECUTING")'
    BY DEF Retry
  <2> QED BY <1>10, <1>11, <1>12, <2>1 DEF Log!Retry
<1>14. Cardinality(FailedBehind') <= replans'
  <2>1. FailedBehind' = {}
    BY <1>1, <1>2, <1>4 DEF FailedBehind
  <2>2. Cardinality(FailedBehind') = 0
    BY <2>1, FS_EmptySet
  <2> QED BY <2>2, BoundsAssumption DEF Retry, IInv, TypeOK
<1> QED BY <1>2, <1>7, <1>13, <1>14 DEF LogInv

LEMMA HangLog ==
  ASSUME IInv, LogInv, NEW drafts \in Replacements, Hang(drafts)
  PROVE  UNCHANGED Log!vars /\ LogInv'
<1>1. status = "EXECUTING" /\ status' = status /\ at' = at /\ replans' = replans
  BY Executing DEF Hang, MayReplan
<1>2. Same(Statuses, Tries) /\ \A i \in 1..Len(plan) : Statuses[i] = steps[i].status
  BY SameSteps DEF Hang, Statuses
<1> QED BY <1>1, <1>2, KeepLog

LEMMA LogStep ==
  ASSUME IInv, LogInv, [Next]_vars
  PROVE  [Log!Next]_(Log!vars) /\ LogInv'
<1>1. CASE UNCHANGED vars
  <2>1. Ended' = Ended /\ FailedBehind' = FailedBehind /\ status' = status /\ replans' = replans
    BY <1>1 DEF vars, Ended, FailedBehind
  <2>2. LogNow' = LogNow
    BY <1>1 DEF vars, LogNow, Ended
  <2> QED BY <2>1, <2>2 DEF LogInv, Log!vars
<1>2. CASE Forbid \/ Succeed \/ Fail
  BY <1>2, SettleLog DEF Log!Next
<1>3. CASE Finish \/ StopBefore \/ StopBetween \/ TooLate \/ Refuse \/ Abandon
  BY <1>3, CloseLog DEF Log!Next
<1>4. CASE Begin \/ Attempt \/ TryAgain \/ Cancel \/ Deadline
  BY <1>4, StayLog
<1>5. CASE \E drafts \in Replacements : Replan(drafts)
  BY <1>5, ReplanLog
<1>6. CASE Retry
  BY <1>6, RetryLog DEF Log!Next
<1>7. CASE \E drafts \in Replacements : Hang(drafts)
  BY <1>7, HangLog
<1> QED BY <1>1, <1>2, <1>3, <1>4, <1>5, <1>6, <1>7 DEF Next, Execute

LEMMA LogStart ==
  ASSUME Init
  PROVE  LogInv /\ Log!Init
<1>1. /\ DOMAIN steps = DOMAIN plan /\ \A i \in DOMAIN plan : steps[i].status = "PENDING"
      /\ at = 1 /\ status = "EXECUTING" /\ replans \in Nat
  BY BoundsAssumption DEF Init, Fresh
<1>2. Ended = {} /\ Ended = 1..0
  BY <1>1 DEF Ended
<1>3. LogNow = <<>>
  <2>1. LogNow = [i \in 1..0 |-> Entry(steps[i])]
    BY <1>2, LogShape
  <2> QED BY <2>1
<1>4. FailedBehind = {} /\ Cardinality(FailedBehind) = 0
  BY <1>1, FS_EmptySet DEF FailedBehind
<1> QED BY <1>1, <1>2, <1>3, <1>4 DEF LogInv, Log!Init

\* Whatever is attempted, replanned, cancelled or retried, the steps that have
\* ended are a log with the promises of PlanLog.
THEOREM ExecutionKeepsLog == Spec => LogSpec
<1>1. Init => IInv /\ LogInv /\ Log!Init
  BY InvInit, LogStart
<1>2. IInv /\ LogInv /\ [Next]_vars => IInv' /\ LogInv' /\ [Log!Next]_(Log!vars)
  BY InvStep, LogStep
<1> QED BY <1>1, <1>2, PTL DEF Spec, LogSpec, Log!Spec

-----------------------------------------------------------------------------
(* Why an execution ends: the measure of NearerEnd rises with every step   *)
(* of the thread, and has a bound.                                         *)

\* How much there is to use up.
WithinBounds ==
  /\ Len(plan) <= MaxSteps /\ at <= MaxSteps + 1
  /\ replans <= Limit
  /\ Attempted <= MaxRetries + 1
  /\ Way(pc) <= 4

\* What is used up at the step the thread is at.
LEMMA AttemptedAt ==
  ASSUME IInv, at <= Len(plan)
  PROVE  Attempted = steps[at].attempts /\ Attempted \in Nat /\ at \in 1..Len(plan)
<1>1. at \in 1..Len(plan) /\ Len(steps) = Len(plan) /\ steps[at] \in StepRun
  BY Shape DEF IInv, PlanInv, Aligned
<1> QED BY <1>1 DEF Attempted, StepRun

\* A step that stays at its record, with as many attempts, and goes on.
LEMMA StaysNearer ==
  ASSUME IInv, at <= Len(plan), NEW new, Same(new, Tries),
         at' = at, replans' = replans, Way(pc') > Way(pc)
  PROVE  NearerEnd
<1>1. Attempted' = Attempted
  BY AttemptedAt DEF Same, Tries, Attempted
<1> QED BY <1>1 DEF NearerEnd

LEMMA ExecuteNearer ==
  ASSUME IInv, Execute
  PROVE  NearerEnd
<1>1. CASE Finish \/ StopBefore \/ Refuse \/ StopBetween \/ TooLate \/ Abandon
  BY <1>1 DEF Finish, StopBefore, Refuse, StopBetween, TooLate, Abandon, Stop, GiveUp, End,
     StopOutcome, NearerEnd
<1>2. CASE Forbid
  <2>1. at <= Len(plan) /\ pc = "step"
    BY <1>2 DEF Forbid, AtStep
  <2>2. Same([Statuses EXCEPT ![at] = "FAILED"], Tries)
    BY <1>2, <2>1, SetOne DEF Forbid, StepStatus
  <2> QED BY <1>2, <2>1, <2>2, StaysNearer DEF Forbid, Way
<1>3. CASE Begin
  <2>1. at <= Len(plan) /\ pc = "step"
    BY <1>3 DEF Begin, AtStep
  <2>2. Same([Statuses EXCEPT ![at] = "RUNNING"], Tries)
    BY <1>3, <2>1, SetOne DEF Begin, StepStatus
  <2> QED BY <1>3, <2>1, <2>2, StaysNearer DEF Begin, Way
<1>4. CASE Attempt
  <2>1. at <= Len(plan) /\ status = "EXECUTING"
    BY <1>4, Executing DEF Attempt
  <2>2. Same(Statuses, [Tries EXCEPT ![at] = @ + 1])
    BY <1>4, <2>1, TryOne DEF Attempt
  <2>3. Attempted = steps[at].attempts /\ Attempted \in Nat /\ at \in 1..Len(plan)
    BY <2>1, AttemptedAt
  <2>4. steps'[at].attempts = steps[at].attempts + 1 /\ Len(steps') = Len(plan)
    BY <2>2, <2>3 DEF Same, Tries
  <2>5. at' = at /\ replans' = replans
    BY <1>4 DEF Attempt
  <2> QED BY <2>1, <2>3, <2>4, <2>5 DEF NearerEnd, Attempted
<1>5. CASE Succeed
  BY <1>5 DEF Succeed, NearerEnd, IInv, TypeOK
<1>6. CASE TryAgain
  <2>1. at <= Len(plan)
    BY <1>6, Executing DEF TryAgain
  <2>2. Same(Statuses, Tries)
    BY <1>6, SameSteps DEF TryAgain
  <2> QED BY <1>6, <2>1, <2>2, StaysNearer DEF TryAgain, Way
<1>7. CASE Fail
  <2>1. at <= Len(plan)
    BY <1>7, Executing DEF Fail
  <2>2. Same([Statuses EXCEPT ![at] = "FAILED"], Tries)
    BY <1>7, <2>1, SetOne DEF Fail, StepStatus
  <2> QED BY <1>7, <2>1, <2>2, StaysNearer DEF Fail, Way
<1>8. ASSUME NEW drafts \in Replacements, Replan(drafts)
      PROVE  NearerEnd
  BY <1>8 DEF Replan, NearerEnd, IInv, TypeOK
<1>9. ASSUME NEW drafts \in Replacements, Hang(drafts)
      PROVE  NearerEnd
  <2>1. at <= Len(plan) /\ pc = "failed"
    BY <1>9, Executing DEF Hang, MayReplan
  <2>2. Same(Statuses, Tries)
    BY <1>9, SameSteps DEF Hang
  <2> QED BY <1>9, <2>1, <2>2, StaysNearer DEF Hang, Way
<1> QED BY <1>1, <1>2, <1>3, <1>4, <1>5, <1>6, <1>7, <1>8, <1>9 DEF Execute

\* No merge makes a plan longer than validate_plan allows.
LEMMA ShortStep ==
  ASSUME Len(plan) <= MaxSteps, [Next]_vars
  PROVE  Len(plan') <= MaxSteps
<1>1. ASSUME NEW drafts \in Replacements, Replan(drafts)
      PROVE  Len(plan') <= MaxSteps
  BY <1>1, BoundsAssumption DEF Replan, Valid
<1>2. CASE UNCHANGED plan
  BY <1>2
<1> QED
  BY <1>1, <1>2 DEF Next, Execute, vars, Finish, StopBefore, Refuse, StopBetween, TooLate,
     Abandon, Hang, Stop, GiveUp, Forbid, Begin, Attempt, Succeed, TryAgain, Fail, Cancel, Deadline, Retry

LEMMA Bounded ==
  ASSUME IInv, Len(plan) <= MaxSteps
  PROVE  WithinBounds
<1>1. at <= MaxSteps + 1
  BY Shape, BoundsAssumption
<1>2. Attempted <= MaxRetries + 1
  <2>1. CASE at <= Len(steps)
    <3>1. at \in DOMAIN steps
      BY <2>1 DEF IInv, TypeOK
    <3> QED BY <2>1, <3>1 DEF Attempted, IInv, TypeOK
  <2>2. CASE ~(at <= Len(steps))
    BY <2>2, BoundsAssumption DEF Attempted
  <2> QED BY <2>1, <2>2
<1>3. replans <= Limit
  BY BoundsAssumption DEF IInv, TypeOK
<1>4. Way(pc) <= 4
  BY DEF Way
<1> QED BY <1>1, <1>2, <1>3, <1>4 DEF WithinBounds

\* Every step of an execution raises a measure that has a bound (Advances): it takes
\* finitely many steps and has then ended or hangs in a merge, whatever tools and
\* planner do and for plans of any length: execute_step, try_replan, the loop of
\* RuntimeRunLifecycle.
THEOREM ExecutionAdvances == Spec => []WithinBounds /\ Advances
<1>1. Init => IInv /\ Len(plan) <= MaxSteps
  <2> SUFFICES ASSUME Init PROVE IInv /\ Len(plan) <= MaxSteps
    OBVIOUS
  <2>1. Valid(plan)
    BY OriginalsAssumption DEF Init
  <2>2. Len(plan) <= MaxSteps
    BY <2>1, BoundsAssumption DEF Valid
  <2> QED BY <2>2, InvInit
<1>2. IInv /\ Len(plan) <= MaxSteps /\ [Next]_vars => (IInv /\ Len(plan) <= MaxSteps)'
  BY InvStep, ShortStep
<1>3. IInv /\ Len(plan) <= MaxSteps => WithinBounds
  BY Bounded
<1>4. IInv /\ [Next]_vars => [Execute => NearerEnd]_vars
  BY ExecuteNearer
<1> QED BY <1>1, <1>2, <1>3, <1>4, PTL DEF Spec, Advances

=============================================================================
