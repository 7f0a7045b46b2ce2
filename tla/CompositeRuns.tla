--------------------------- MODULE CompositeRuns ---------------------------
(***************************************************************************)
(* An asynchronous composite run in SQLite mode: CompositeApplication.run  *)
(* takes the components of a request in declaration order and calls the    *)
(* service of each component's Domain; CompositeRunApplication stores the  *)
(* aggregated result and closes the job.  Around it work the reaper, the   *)
(* failure handler of run_job, crashes and the recovery of the next        *)
(* process, which calls the coordinator again from the first component.    *)
(*                                                                         *)
(* A component is its position in the request.  What a service computes is *)
(* abstracted to the status of its run; the row of the run itself belongs  *)
(* to the Domain's own service.                                            *)
(***************************************************************************)
EXTENDS Naturals, Sequences, RunStatus

CONSTANTS
  Requests,       \* the normalized requests a client may submit
  ChildStatuses,  \* what the run of a component may end with
  ForeignStatuses, \* and what with when it reports another Domain than its component's
  MaxCrashes,     \* bound: crashes of the process
  MaxErrors       \* bound: exceptions of the worker

\* normalize_composite_request, validate_component_composition: dependencies
\* point to earlier components, inputs come from dependencies.  enabled says
\* whether the Host's allowlist has the component's Domain.
Component(position) ==
  [deps : SUBSET (1..(position - 1)), inputs : SUBSET (1..(position - 1)),
   required : BOOLEAN, enabled : BOOLEAN]

ASSUME RequestsAssumption ==
  \A request \in Requests :
    /\ request \in Seq([deps : SUBSET Nat, inputs : SUBSET Nat,
                        required : BOOLEAN, enabled : BOOLEAN])
    /\ request # <<>>
    /\ \A c \in DOMAIN request :
         request[c] \in Component(c) /\ request[c].inputs \subseteq request[c].deps
ASSUME StatusesAssumption ==
  /\ ChildStatuses \subseteq TerminalStatus \cup {"PLANNING"}
  /\ ForeignStatuses \subseteq ChildStatuses
ASSUME BoundsAssumption == MaxCrashes \in Nat /\ MaxErrors \in Nat

VARIABLES
  req,       \* the request, in the payload of the job
  job,       \* async_jobs.status
  snap,      \* the agent_runs row
  up,        \* a service process is alive
  pc,        \* where its worker is
  children,  \* children: results of the components so far, in order
  out,       \* the snapshot the worker is about to save
  failed,    \* the worker is in the failure handler of run_job
  reap,      \* where the reaper is in expire_job
  \* bookkeeping of the model
  crashes, errors,
  ran        \* runs of each component that have completed

vars == <<req, job, snap, up, pc, children, out, failed, reap, crashes, errors, ran>>

worker == <<pc, children, out, failed>>

-----------------------------------------------------------------------------
(* States of components and of the whole.                                  *)

\* _child_state: the state in a receipt, which the dependency gate looks at.
ChildState(status) ==
  CASE status = "COMPLETED" -> "completed"
    [] status = "PLANNING" -> "pending"
    [] status \in {"NEEDS_CLARIFICATION", "WAITING_FOR_DECISION"} -> "blocked"
    [] OTHER -> "failed"

\* Mutant of ComponentState: nobody compares the Domains.
ComponentStateOfAny(child) ==
  CASE child.status = "COMPLETED" -> "completed"
    [] child.status = "PLANNING" -> "pending"
    [] child.status \in {"FAILED", "CANCELLED", "REJECTED"} -> "failed"
    [] OTHER -> "blocked"

\* _component_state and the Domain check behind it: the state in the result.  It
\* knows no TIMED_OUT, and a child that reports another Domain than the one of its
\* component is blocked whatever its status.
ComponentState(child) ==
  CASE child.foreign -> "blocked"
    [] ~child.foreign /\ child.status = "COMPLETED" -> "completed"
    [] ~child.foreign /\ child.status = "PLANNING" -> "pending"
    [] ~child.foreign /\ child.status \in {"FAILED", "CANCELLED", "REJECTED"} -> "failed"
    [] OTHER -> "blocked"

\* Mutant of Aggregate: without required components nothing is missing.
AggregateRequired(request, states) ==
  CASE \A c \in DOMAIN request : request[c].required => states[c] = "completed" -> "completed"
    [] OTHER -> "failed"

\* _aggregate_state.
Aggregate(request, states) ==
  LET marked == {c \in DOMAIN request : request[c].required}
      required == IF marked = {} THEN DOMAIN request ELSE marked
      among == {states[c] : c \in required}
      rest == DOMAIN request \ marked
  IN IF among \subseteq {"completed"}
       THEN IF \A c \in rest : states[c] = "completed" THEN "completed" ELSE "partial"
     ELSE IF "failed" \in among THEN "failed"
     ELSE IF "blocked" \in among THEN "blocked" ELSE "pending"

Verdict == {"completed", "partial", "failed", "blocked", "pending"}

\* _coordinator_status: the status of the response, which closes the job.
ResponseStatus(verdict) ==
  CASE verdict = "completed" -> "COMPLETED"
    [] verdict = "partial" -> "PARTIAL"
    [] verdict = "blocked" -> "BLOCKED"
    [] OTHER -> "FAILED"

\* Mutant of SnapshotStatus: the word of the response is taken as it is.
SnapshotStatusRaw(verdict) == ResponseStatus(verdict)

\* _run_status: the status of the snapshot.
SnapshotStatus(verdict) ==
  CASE verdict \in {"completed", "partial"} -> "COMPLETED"
    [] verdict = "blocked" -> "NEEDS_CLARIFICATION"
    [] OTHER -> "FAILED"

\* A result of a component, and why it has it: its service has run, or was not
\* called for a dependency or an input (error_code).
Cause == {"run", "dependency", "input"}

\* A snapshot is its status, the state of the composite section of its result
\* and the components there; none of them before the coordinator has returned.
Bare(status) == [status |-> status, state |-> "none", parts |-> <<>>]

JobWord == ActiveStatus \cup TerminalStatus \cup {"PARTIAL", "BLOCKED"}

Init ==
  /\ req \in Requests
  /\ job = "QUEUED"
  /\ snap = Bare("PLANNING")
  /\ up = TRUE
  /\ pc = "claim"
  /\ children = <<>>
  /\ out = Bare("PLANNING")
  /\ failed = FALSE
  /\ reap = "idle"
  /\ crashes = 0
  /\ errors = 0
  /\ ran = [c \in DOMAIN req |-> 0]

-----------------------------------------------------------------------------
(* The process.                                                            *)

\* Mutant of Claim: a recovering process takes only jobs that never ran.
ClaimQueued ==
  /\ up /\ pc = "claim"
  /\ IF job = "QUEUED"
       THEN job' = "RUNNING" /\ pc' = "gate"
       ELSE pc' = "idle" /\ UNCHANGED job
  /\ children' = <<>>
  /\ UNCHANGED <<req, snap, up, out, failed, reap, crashes, errors, ran>>

\* claim_async_job and run_job up to the provider: the submitter's claim, or
\* the one of a recovering process, which finds any active job.
Claim ==
  /\ up /\ pc = "claim"
  /\ IF job \in ActiveStatus
       THEN job' = "RUNNING" /\ pc' = "gate"
       ELSE pc' = "idle" /\ UNCHANGED job
  /\ children' = <<>>
  /\ UNCHANGED <<req, snap, up, out, failed, reap, crashes, errors, ran>>

Crash ==
  /\ up /\ crashes < MaxCrashes
  /\ up' = FALSE
  /\ pc' = "idle" /\ children' = <<>> /\ out' = Bare("PLANNING") /\ failed' = FALSE
  /\ reap' = "idle"
  /\ crashes' = crashes + 1
  /\ UNCHANGED <<req, job, snap, errors, ran>>

\* CompositeRunApplication.__init__: the reaper is started, recover looks for
\* jobs of dead processes.
Restart ==
  /\ ~up
  /\ up' = TRUE
  /\ pc' = "claim"
  /\ UNCHANGED <<req, job, snap, children, out, failed, reap, crashes, errors, ran>>

-----------------------------------------------------------------------------
(* CompositeApplication.run.                                               *)

At == Len(children) + 1

\* Mutant of BlockedBy: only required dependencies are looked at.
BlockedByRequired(c) ==
  {d \in req[c].deps : req[d].required /\ ChildState(children[d].status) # "completed"}

\* Dependencies without a receipt in state completed.
BlockedBy(c) == {d \in req[c].deps : ChildState(children[d].status) # "completed"}

AtComponent == pc = "gate" /\ At \in DOMAIN req

Record(status, cause, foreign) ==
  children' = Append(children, [status |-> status, cause |-> cause, foreign |-> foreign])

\* _blocked_child: a dependency has not completed; the service is not called.
Block ==
  /\ AtComponent /\ BlockedBy(At) # {}
  /\ Record("NEEDS_CLARIFICATION", "dependency", FALSE)
  /\ UNCHANGED <<req, job, snap, up, pc, out, failed, reap, crashes, errors, ran>>

\* _input_blocked_child: the source has completed, but its result has another
\* kind, or nothing at the path.
BlockInput ==
  /\ AtComponent /\ BlockedBy(At) = {} /\ req[At].enabled
  /\ req[At].inputs # {}
  /\ Record("NEEDS_CLARIFICATION", "input", FALSE)
  /\ UNCHANGED <<req, job, snap, up, pc, out, failed, reap, crashes, errors, ran>>

Call ==
  /\ AtComponent /\ BlockedBy(At) = {} /\ req[At].enabled
  /\ pc' = "call"
  /\ UNCHANGED <<req, job, snap, up, children, out, failed, reap, crashes, errors, ran>>

Counted(status) ==
  ran' = IF status = "COMPLETED" THEN [ran EXCEPT ![At] = @ + 1] ELSE ran

\* Mutant of Return: a component that fails ends the loop, and all that come
\* after it count as blocked.
ReturnOrBreak(status, foreign) ==
  /\ pc = "call"
  /\ children' = [c \in IF status = "FAILED" THEN DOMAIN req ELSE 1..At |->
                    IF c < At THEN children[c]
                    ELSE IF c = At
                      THEN [status |-> status, cause |-> "run", foreign |-> foreign]
                    ELSE [status |-> "NEEDS_CLARIFICATION", cause |-> "dependency",
                          foreign |-> FALSE]]
  /\ Counted(status)
  /\ pc' = "gate"
  /\ UNCHANGED <<req, job, snap, up, out, failed, reap, crashes, errors>>

\* The service returns its run, which may name another Domain; an exception it
\* raises counts as FAILED.
Return(status, foreign) ==
  /\ pc = "call"
  /\ Record(status, "run", foreign)
  /\ Counted(status)
  /\ pc' = "gate"
  /\ UNCHANGED <<req, job, snap, up, out, failed, reap, crashes, errors>>

\* _project_component: the components so far, as the result shows them.  It keeps
\* the status of each beside its state.
Parts == [c \in DOMAIN children |-> [state |-> ComponentState(children[c]),
                                     status |-> children[c].status,
                                     cause |-> children[c].cause,
                                     foreign |-> children[c].foreign]]

\* build_composite_result_contract and the snapshot around it.
Assemble ==
  /\ pc = "gate" /\ At \notin DOMAIN req
  /\ LET verdict == Aggregate(req, [c \in DOMAIN req |-> Parts[c].state])
     IN out' = [status |-> SnapshotStatus(verdict), state |-> verdict, parts |-> Parts]
  /\ pc' = "fence"
  /\ UNCHANGED <<req, job, snap, up, children, failed, reap, crashes, errors, ran>>

-----------------------------------------------------------------------------
(* The end of the run: save_run, finalize_job, the handler of run_job.     *)

\* save reads the job row.
Fence ==
  /\ pc = "fence"
  /\ pc' = IF Fenced(job, out.status) THEN "finish" ELSE "write"
  /\ UNCHANGED <<req, job, snap, up, children, out, failed, reap, crashes, errors, ran>>

\* save writes the row, in a transaction of its own.
Write ==
  /\ pc = "write"
  /\ snap' = out
  /\ pc' = "finish"
  /\ UNCHANGED <<req, job, up, children, out, failed, reap, crashes, errors, ran>>

\* What the job is closed with: the response, or FAILED from the handler.
Closing == IF failed THEN "FAILED" ELSE ResponseStatus(out.state)

\* Mutant of Finish: a job is closed whatever its row says.
FinishAny ==
  /\ pc = "finish"
  /\ job' = Closing
  /\ pc' = "idle"
  /\ UNCHANGED <<req, snap, up, children, out, failed, reap, crashes, errors, ran>>

\* finish_async_job, for an active job only.
Finish ==
  /\ pc = "finish"
  /\ job' = IF job \in ActiveStatus THEN Closing ELSE job
  /\ pc' = "idle"
  /\ UNCHANGED <<req, snap, up, children, out, failed, reap, crashes, errors, ran>>

\* Where an exception reaches the handler of run_job: a Domain that is not
\* enabled, a service without a usable interface, a result that misses its
\* execution binding (the service has run), the runtime context, the contract of
\* the result, the artifact, a busy database.
Raises ==
  \/ AtComponent /\ BlockedBy(At) = {} /\ ~req[At].enabled /\ UNCHANGED <<errors, ran>>
  \/ pc = "call" /\ errors < MaxErrors /\ errors' = errors + 1
     /\ \E status \in {"COMPLETED", "FAILED"} : Counted(status)
  \/ pc \in {"gate", "fence", "write", "finish"} /\ ~failed /\ errors < MaxErrors
     /\ errors' = errors + 1 /\ UNCHANGED ran

Raise ==
  /\ Raises
  /\ failed' = TRUE
  /\ pc' = "handler"
  /\ UNCHANGED <<req, job, snap, up, children, out, reap, crashes>>

\* The handler of run_job reads the snapshot: an unfinished one becomes FAILED, a
\* finished one is kept; it is saved, and the job is closed as FAILED.
Handle ==
  /\ pc = "handler"
  /\ out' = IF snap.status = "PLANNING" THEN Bare("FAILED") ELSE snap
  /\ pc' = "fence"
  /\ UNCHANGED <<req, job, snap, up, children, failed, reap, crashes, errors, ran>>

\* Where nobody catches an exception: in the claim, before or after its commit, in
\* the reads in front of the try of run_job, and in its handler.
Unguarded == pc \in {"claim", "handler"} \/ (failed /\ pc \in {"fence", "write", "finish"})

\* The thread ends, or the submission or the recovery that would have started it,
\* and the job stays as it is.
Lose ==
  /\ Unguarded /\ errors < MaxErrors
  /\ job' \in IF pc = "claim" /\ job \in ActiveStatus THEN {job, "RUNNING"} ELSE {job}
  /\ pc' = "lost"
  /\ errors' = errors + 1
  /\ UNCHANGED <<req, snap, up, children, out, failed, reap, crashes, ran>>

WorkerStep ==
  \/ Claim \/ Block \/ BlockInput \/ Call
  \/ \E status \in ChildStatuses : Return(status, FALSE)
  \/ \E status \in ForeignStatuses : Return(status, TRUE)
  \/ Assemble \/ Fence \/ Write \/ Finish \/ Raise \/ Handle \/ Lose

-----------------------------------------------------------------------------
(* The reaper.  Nothing tells the coordinator: it never checks a cancel.   *)

Expire ==
  /\ up /\ reap = "idle"
  /\ job \in ActiveStatus
  /\ job' = "TIMED_OUT"
  /\ reap' = "get"
  /\ UNCHANGED <<req, snap, up, worker, crashes, errors, ran>>

\* A finished snapshot stays.
ReapGet ==
  /\ reap = "get"
  /\ reap' = IF snap.status = "PLANNING" THEN "save" ELSE "idle"
  /\ UNCHANGED <<req, job, snap, up, worker, crashes, errors, ran>>

ReapSave ==
  /\ reap = "save"
  /\ snap' = Bare("TIMED_OUT")
  /\ reap' = "idle"
  /\ UNCHANGED <<req, job, up, worker, crashes, errors, ran>>

ReapStep == ReapGet \/ ReapSave

Next == WorkerStep \/ Crash \/ Restart \/ Expire \/ ReapStep

Spec == Init /\ [][Next]_vars

\* Threads of a live process run, every service call returns, and a supervisor
\* restarts a dead process.  Nothing is assumed of the reaper.
FairSpec == Spec /\ WF_vars(WorkerStep) /\ WF_vars(Restart)

-----------------------------------------------------------------------------
(* Properties.                                                             *)

Snapshot ==
  [status : {"PLANNING"} \cup TerminalStatus,
   state : Verdict \cup {"none"},
   parts : {<<>>} \cup [DOMAIN req -> [state : {"completed", "failed", "blocked", "pending"},
                                      status : ChildStatuses \cup {"NEEDS_CLARIFICATION"},
                                      cause : Cause, foreign : BOOLEAN]]]

\* Rows, worker and reaper hold values the code can store there; children are
\* those of the components before the one the coordinator is at.
TypeOK ==
  /\ req \in Requests
  /\ job \in JobWord
  /\ snap \in Snapshot /\ out \in Snapshot
  /\ up \in BOOLEAN /\ failed \in BOOLEAN
  /\ pc \in {"idle", "claim", "gate", "call", "fence", "write", "finish", "handler", "lost"}
  /\ children \in Seq([status : ChildStatuses \cup {"NEEDS_CLARIFICATION"}, cause : Cause,
                       foreign : BOOLEAN])
  /\ Len(children) <= Len(req)
  /\ pc = "call" => At \in DOMAIN req
  /\ reap \in {"idle", "get", "save"}
  /\ crashes \in Nat /\ errors \in Nat
  /\ ran \in [DOMAIN req -> Nat]

\* What a published result says of a component: its status, which the gate went
\* by, and its state, which the verdict went by.
Done(c) == snap.parts[c].status = "COMPLETED"
Settles(c) == snap.parts[c].state = "completed"

\* A client that polls a completed or partial composite gets what it asked for:
\* every required component is shown as completed, and every component with a
\* completed run has had one, on dependencies that all had one before it,
\* whatever crashed, timed out or was run twice.  A dependency may still be shown
\* as blocked, for the Domain it reported.
CompletedIsReal ==
  snap.state \in {"completed", "partial"} =>
    /\ \A c \in DOMAIN req : req[c].required => Settles(c)
    /\ \A c \in DOMAIN req : Settles(c) => Done(c)
    /\ \A c \in DOMAIN req : Done(c) => ran[c] > 0 /\ \A d \in req[c].deps : Done(d)
    /\ snap.state = "completed" <=> \A c \in DOMAIN req : Settles(c)

\* The failure of a component takes only those that depend on it along: in a
\* published result a component was kept from running for a dependency exactly
\* when the run of one has not completed.  The state the result shows may differ
\* from what the gate went by, and in one way only: a completed run of another
\* Domain is shown as blocked, and those that depend on it have run all the same.
FailureIsContained ==
  snap.parts # <<>> =>
    \A c \in DOMAIN req :
      /\ snap.parts[c].cause = "dependency" <=> \E d \in req[c].deps : ~Done(d)
      /\ snap.parts[c].cause = "input" => req[c].inputs # {}
      /\ Settles(c) # Done(c) =>
           snap.parts[c].foreign /\ snap.parts[c].cause = "run" /\ snap.parts[c].state = "blocked"

\* A job that a worker has closed with an answer and the result a client polls
\* say the same, although the rows are written in two transactions, in which
\* the words differ, with the reaper and crashes in between.
ClosedAgrees ==
  job \in {"COMPLETED", "PARTIAL", "BLOCKED"} =>
    ResponseStatus(snap.state) = job /\ SnapshotStatus(snap.state) = snap.status

\* Why these hold, as an inductive invariant.  Sound: each component has the
\* cause the runs of its dependencies give it, so far and in every assembled
\* result; such a result has the words of its parts; and a worker that is about to
\* close an active job has stored what it closes it with, because the reaper writes
\* only after it has closed the job itself.
Sound(parts) ==
  \A c \in DOMAIN parts :
    /\ parts[c].state = ComponentState(parts[c])
    /\ parts[c].foreign => parts[c].cause = "run"
    /\ parts[c].status = "COMPLETED" =>
         ran[c] > 0 /\ \A d \in req[c].deps : parts[d].status = "COMPLETED"
    /\ parts[c].cause = "dependency" <=>
         \E d \in req[c].deps : parts[d].status # "COMPLETED"
    /\ parts[c].cause = "input" => req[c].inputs # {}

Faithful(snapshot) ==
  IF snapshot.parts = <<>> THEN snapshot.state = "none"
  ELSE /\ Sound(snapshot.parts)
       /\ snapshot.state = Aggregate(req, [c \in DOMAIN req |-> snapshot.parts[c].state])
       /\ snapshot.status = SnapshotStatus(snapshot.state)

ResultInv ==
  /\ Sound(Parts) /\ Faithful(snap) /\ Faithful(out)
  /\ pc = "call" => \A d \in req[At].deps : Parts[d].status = "COMPLETED"

RowInv ==
  /\ pc \in {"gate", "call", "fence", "write", "finish", "handler"} =>
       job \in ActiveStatus \cup {"TIMED_OUT"}
  /\ reap # "idle" => job = "TIMED_OUT"
  /\ pc = "handler" => failed
  /\ pc \in {"fence", "write", "finish"} /\ ~failed => out.parts # <<>>
  /\ pc = "finish" /\ ~failed /\ job \in ActiveStatus => snap = out

CompositeInv == ResultInv /\ RowInv /\ ClosedAgrees

\* An execution in progress, as the evaluation of a graph of components.
Evaluating == pc \in {"gate", "call", "fence", "write", "finish"} /\ ~failed

\* A completed run of another Domain is a state of its own there.
Graded(part) ==
  IF part.foreign /\ part.status = "COMPLETED" THEN "foreign" ELSE part.state

StateOf(c) ==
  IF ~Evaluating \/ c > At THEN "waiting"
  ELSE IF c < At THEN Graded(Parts[c])
  ELSE IF pc = "call" THEN "running" ELSE "waiting"

Evaluation ==
  INSTANCE ComponentGraph WITH
    graph <- req,
    state <- [c \in DOMAIN req |-> StateOf(c)],
    answer <- IF Evaluating /\ pc \in {"fence", "write", "finish"} THEN out.state ELSE "none"

\* The sequential coordinator implements the evaluation of the dependency graph:
\* nothing starts before the runs of its dependencies have completed in this very
\* execution, and the answer is the verdict on all components.
EvaluationSpec == Evaluation!Spec

\* Every accepted composite run is closed, through crashes and exceptions and
\* without the reaper, unless an exception that nobody catches has taken its
\* thread: then only the reaper or the end of the process closes it.
AcceptedComposesToEnd == <>[](job \notin ActiveStatus \/ pc = "lost")

\* A component that has completed is not executed again after a restart
\* (docs/m278-composite-lifecycle-spec.md, success criterion 4).
CompletedRunsOnce == \A c \in DOMAIN req : ran[c] <= 1

=============================================================================
