---------------------------- MODULE ToolApproval ----------------------------
(***************************************************************************)
(* Tools a run proposes and people approve.  A ReAct run that proposes a   *)
(* tool gets an approval record and waits (RuntimeReactExecution).  Clients*)
(* decide the record (AgentService.resolve_tool_approval over              *)
(* SQLiteToolApprovalStore); an approved tool is published in the registry *)
(* of the process that handles the decision, and the waiting run is        *)
(* resumed, or closed, by the thread of the client                         *)
(* (RuntimeToolApprovalResume, RunLifecycle.resume_tool_approval).         *)
(*                                                                         *)
(* Threads of any number of service processes share one SQLite file; each  *)
(* process has a registry of its own.  A step is one transaction, one      *)
(* access to the registry or one call.                                     *)
(***************************************************************************)
EXTENDS Naturals, FiniteSets, RunStatus

CONSTANTS
  Runs,        \* runs; the worker of a run is named by its run
  Clients,     \* HTTP requests that decide approvals, with their threads
  Processes,   \* service processes
  Approvals,   \* identities of proposals: domain and receipt fingerprint
  MaxActions,  \* react_max_actions: tool calls and proposals of one loop
  MaxCrashes,  \* bound: process deaths
  None

ASSUME ThreadAssumption == Runs \cap Clients = {}
ASSUME NoneAssumption == None \notin Runs \cup Approvals \cup Processes
ASSUME BoundsAssumption == MaxActions \in Nat /\ MaxCrashes \in Nat

VARIABLES
  record,    \* tool_approvals: status of the record and the run it belongs to
  snap,      \* agent_runs: the stored snapshot
  job,       \* async_jobs: status of the job row, Absent for a synchronous run
  registry,  \* the approval bound to the tool's name in a process's ToolRegistry
  thread,    \* workers and clients
  \* bookkeeping of the model
  called,    \* approvals whose tool was executed
  early,     \* approvals decided before their run was left waiting for them
  crashes

vars == <<record, snap, job, registry, thread, called, early, crashes>>

-----------------------------------------------------------------------------
Threads == Runs \cup Clients

\* TOOL_APPROVAL_STATES.  The version of a record follows its status (1, 2, 3);
\* runs propose receipts without a deadline, so no record expires.
RecordStatus == {Absent, "pending", "invalid", "approved", "rejected", "revoked"}

\* An invalid record never is decided.
Undecided == {"pending", "invalid"}

Outcome == {"COMPLETED", "FAILED", "REJECTED"}

\* AgentRunResult: its status, approval and state of its action_receipt, and the
\* action_count of its react_evidence.
Result ==
  [status : {"EXECUTING", "WAITING_FOR_DECISION"} \cup Outcome,
   approval : Approvals \cup {None},
   state : {"none", "awaiting_approval", "approved_resume", "closed_without_execution"},
   acts : 0..MaxActions]

FreshResult == [status |-> "EXECUTING", approval |-> None, state |-> "none", acts |-> 0]

LoopPc == {"react", "call", "step", "leave", "create"}

SavePc == {"waits", "final", "again", "finish"}

HandlerPc == {"swap", "find", "bind", "apply", "resume"}

\* approval: the one a client decides, a worker proposes or a loop calls;
\* out: the status a client decides for, then what the run ends with;
\* waiting: the client has found the run waiting; known: the loop knows the tool;
\* acts: the actions it has taken.
Thread ==
  [pc : {"idle", "dead", "done"} \cup LoopPc \cup SavePc \cup HandlerPc,
   proc : Processes \cup {None}, run : Runs \cup {None},
   approval : Approvals \cup {None},
   out : RecordStatus \cup Outcome \cup {"WAITING_FOR_DECISION"},
   waiting : BOOLEAN, result : Result,
   known : BOOLEAN, acts : 0..MaxActions]

Away(pc) ==
  [pc |-> pc, proc |-> None, run |-> None, approval |-> None, out |-> Absent,
   waiting |-> FALSE, result |-> FreshResult, known |-> FALSE, acts |-> 0]

\* A thread runs the loop of this run or stores its result.
Busy(r) == \E t \in Threads : thread[t].run = r /\ thread[t].pc \in LoopPc \cup SavePc

Goto(t, pc) == thread' = [thread EXCEPT ![t].pc = pc]

\* A handler returns or raises; a worker is through.
Return(t) == thread' = [thread EXCEPT ![t] = Away("done")]

\* What SQLiteStateStore.save leaves of a result.  Fence and write are one step here;
\* AsyncRuns has what can happen between the two.
Stored(r, result) == IF Fenced(job[r], result.status) THEN snap[r] ELSE result

Save(t) ==
  LET r == thread[t].run
  IN snap' = [snap EXCEPT ![r] = Stored(r, thread[t].result)]

-----------------------------------------------------------------------------
(* The ReAct loop.                                                         *)

\* A thread enters the loop; it may call the tool if its name is bound now, and it
\* goes on counting where the result ends (_resume_state).
Loop(p, r, result) ==
  [Away("react") EXCEPT !.proc = p, !.run = r, !.result = result,
                        !.known = registry[p] # None, !.acts = result.acts]

Init ==
  /\ record = [a \in Approvals |-> [status |-> Absent, run |-> None]]
  /\ snap = [r \in Runs |-> FreshResult]
  /\ job \in [Runs -> {Absent, "RUNNING"}]
  /\ registry = [p \in Processes |-> None]
  /\ \E home \in [Runs -> Processes] :
       thread = [t \in Threads |->
                   IF t \in Runs
                     THEN [Away("react") EXCEPT !.proc = home[t], !.run = t]
                     ELSE Away("idle")]
  /\ called = {}
  /\ early = {}
  /\ crashes = 0

\* The loop is left with this outcome; run() then saves the executing result.
LeaveWith(t, out) ==
  thread' = [thread EXCEPT ![t].pc = "leave", ![t].out = out, ![t].approval = None,
                           ![t].known = FALSE]

\* The step of a tool call is over.
StepEnds(t, out) ==
  thread' = [thread EXCEPT ![t].pc = "step", ![t].out = out, ![t].approval = None]

\* Mutant of MayAct: the loop does not count.
MayActAlways(t) == TRUE

\* The action budget of the loop is not used up.
MayAct(t) == thread[t].acts < MaxActions

\* The model finishes, gives up or rejects the request.
Conclude(t) ==
  /\ thread[t].pc = "react"
  /\ \E out \in Outcome : LeaveWith(t, out)
  /\ UNCHANGED <<record, snap, job, registry, called, early, crashes>>

\* The model proposes a tool, maybe one that was proposed before;
\* normalize_tool_proposal refuses a name the registry already has.
Propose(t) ==
  /\ thread[t].pc = "react" /\ MayAct(t)
  /\ \E a \in Approvals :
       thread' = [thread EXCEPT
         ![t].pc = "leave", ![t].acts = @ + 1, ![t].known = FALSE, ![t].approval = a,
         ![t].out = IF registry[thread[t].proc] = None
                      THEN "WAITING_FOR_DECISION" ELSE "FAILED"]
  /\ UNCHANGED <<record, snap, job, registry, called, early, crashes>>

\* AgentRuntime._approval_gate: the record, read again before every call.
Gate(a) == record[a].status = "approved"

\* ToolRegistry.invoke up to the handler: the name is looked up in the registry
\* as it is now.  A name that has gone when the action is validated ends the loop
\* without a step, with what has been done as a partial answer or with none.
Invoke(t) ==
  LET a == registry[thread[t].proc]
      open == a # None /\ Gate(a)
  IN /\ thread[t].pc = "react" /\ MayAct(t) /\ thread[t].known
     /\ \/ /\ open
           /\ thread' = [thread EXCEPT ![t].pc = "call", ![t].approval = a,
                                       ![t].acts = @ + 1]
        \/ /\ ~open
           /\ thread' = [thread EXCEPT ![t].pc = "step", ![t].out = "FAILED",
                                       ![t].acts = @ + 1]
        \/ /\ a = None
           /\ \E out \in {"COMPLETED", "FAILED"} :
                thread' = [thread EXCEPT ![t].pc = "leave", ![t].out = out,
                                         ![t].known = FALSE, ![t].acts = @ + 1]
     /\ UNCHANGED <<record, snap, job, registry, called, early, crashes>>

\* The handler of the tool runs in its container, and succeeds or fails.
Call(t) ==
  /\ thread[t].pc = "call"
  /\ called' = called \cup {thread[t].approval}
  /\ \E out \in {Absent, "FAILED"} : StepEnds(t, out)
  /\ UNCHANGED <<record, snap, job, registry, early, crashes>>

\* _execute_tool_action saves the step, completed or failed; a failed one ends the
\* loop.
SaveStep(t) ==
  /\ thread[t].pc = "step"
  /\ Save(t)
  /\ IF thread[t].out = "FAILED" THEN LeaveWith(t, "FAILED") ELSE Goto(t, "react")
  /\ UNCHANGED <<record, job, registry, called, early, crashes>>

\* run() saves what the loop has left behind, the action count included, then turns
\* to the outcome.
Leave(t) ==
  LET r == thread[t].run
      left == [thread[t].result EXCEPT !.acts = thread[t].acts]
      waits == thread[t].out = "WAITING_FOR_DECISION"
  IN /\ thread[t].pc = "leave"
     /\ snap' = [snap EXCEPT ![r] = Stored(r, left)]
     /\ thread' = [thread EXCEPT
          ![t].pc = IF waits THEN "create" ELSE "final",
          ![t].acts = 0,
          ![t].result = IF waits THEN left ELSE [left EXCEPT !.status = thread[t].out]]
     /\ UNCHANGED <<record, job, registry, called, early, crashes>>

\* create_from_receipt, then the result that waits.  A receipt whose definition is
\* too large makes an invalid record.  A proposal of another run with the same
\* receipt is refused and fails the run; one of the same run keeps its record,
\* decided or not.
Create(t) ==
  /\ thread[t].pc = "create"
  /\ LET a == thread[t].approval
         fresh == record[a].status = Absent
         kept == fresh \/ record[a].run = thread[t].run
     IN /\ early' = IF fresh \/ record[a].status \in Undecided THEN early ELSE early \cup {a}
        /\ \E status \in Undecided :
             record' = IF fresh
                         THEN [record EXCEPT ![a] = [status |-> status, run |-> thread[t].run]]
                         ELSE record
        /\ thread' = [thread EXCEPT
             ![t].pc = IF kept THEN "waits" ELSE "final", ![t].approval = None,
             ![t].result = IF kept
               THEN [@ EXCEPT !.status = "WAITING_FOR_DECISION", !.approval = a,
                              !.state = "awaiting_approval"]
               ELSE [@ EXCEPT !.status = "FAILED"]]
  /\ UNCHANGED <<snap, job, registry, called, crashes>>

\* _finish_outcome saves the result that waits.
SaveWaiting(t) ==
  /\ thread[t].pc = "waits"
  /\ Save(t)
  /\ Goto(t, "final")
  /\ UNCHANGED <<record, job, registry, called, early, crashes>>

\* _evidence_and_finalize and _close_without_execution save the final result.
SaveFinal(t) ==
  /\ thread[t].pc = "final"
  /\ Save(t)
  /\ Goto(t, "again")
  /\ UNCHANGED <<record, job, registry, called, early, crashes>>

\* RunApplication.execute saves it once more.
SaveAgain(t) ==
  /\ thread[t].pc = "again"
  /\ Save(t)
  /\ Goto(t, "finish")
  /\ UNCHANGED <<record, job, registry, called, early, crashes>>

\* finalize_job closes the job row with the status of the result, if this
\* process owns the row, and the thread returns.
Finish(t) ==
  LET r == thread[t].run
  IN /\ thread[t].pc = "finish"
     /\ job' = IF job[r] = "RUNNING" /\ thread[r].proc = thread[t].proc
                 THEN [job EXCEPT ![r] = thread[t].result.status] ELSE job
     /\ Return(t)
     /\ UNCHANGED <<record, snap, registry, called, early, crashes>>

-----------------------------------------------------------------------------
(* resolve_tool_approval.                                                  *)

\* transition: the status an action leads to, and the one it starts from.
Before(status) == IF status = "revoked" THEN "approved" ELSE "pending"

\* resolve reads the record.  An action that was taken before returns it as it
\* is; one that is not allowed in its status raises.
Begin(c) ==
  /\ thread[c].pc = "idle"
  /\ \E p \in Processes, a \in Approvals, status \in {"approved", "rejected", "revoked"} :
       /\ record[a].status \in {status, Before(status)}
       /\ thread' = [thread EXCEPT ![c] =
            [Away(IF record[a].status = status THEN "find" ELSE "swap")
               EXCEPT !.proc = p, !.approval = a, !.out = status, !.run = record[a].run]]
  /\ UNCHANGED <<record, snap, job, registry, called, early, crashes>>

\* Mutant of Unchanged: an update without its WHERE status and version.
UnchangedAlways(a, status) == TRUE

\* The row is still the one the thread has read.
Unchanged(a, status) == record[a].status = Before(status)

\* _cas_update, or tool_approval_version_mismatch.
Swap(c) ==
  LET a == thread[c].approval
  IN /\ thread[c].pc = "swap"
     /\ \/ /\ Unchanged(a, thread[c].out)
           /\ record' = [record EXCEPT ![a].status = thread[c].out]
           /\ early' = IF Busy(thread[c].run) THEN early \cup {a} ELSE early
           /\ Goto(c, "find")
        \/ /\ ~Unchanged(a, thread[c].out)
           /\ Return(c)
           /\ UNCHANGED <<record, early>>
     /\ UNCHANGED <<snap, job, registry, called, crashes>>

\* _approval_runtime_and_result.
Find(c) ==
  /\ thread[c].pc = "find"
  /\ thread' = [thread EXCEPT
       ![c].pc = "bind",
       ![c].waiting = snap[thread[c].run].status = "WAITING_FOR_DECISION"]
  /\ UNCHANGED <<record, snap, job, registry, called, early, crashes>>

\* Mutant of Published: nothing is published.
PublishedNever(a, status, bound) == bound

\* Mutant of Published: the tool of a rejected proposal is published as well.
PublishedAlways(a, status, bound) == a

\* The binding after the decision: register_approved_tool keeps a name that is
\* taken, revoke_approved_tool removes its own binding.
Published(a, status, bound) ==
  CASE status = "approved" /\ bound = None -> a
    [] status = "revoked" /\ bound = a -> None
    [] OTHER -> bound

\* The decision is published in this process, then applied to a run that was
\* found waiting.
Bind(c) ==
  LET p == thread[c].proc
  IN /\ thread[c].pc = "bind"
     /\ registry' = [registry EXCEPT ![p] = Published(thread[c].approval, thread[c].out, @)]
     /\ IF thread[c].waiting THEN Goto(c, "apply") ELSE Return(c)
     /\ UNCHANGED <<record, snap, job, called, early, crashes>>

\* _validate_waiting_result, on the snapshot as it is now.
WaitsFor(r, a) ==
  snap[r].status = "WAITING_FOR_DECISION" /\ snap[r].approval = a

\* What apply requires: the run waits for this approval, and the tool of an
\* approved one is bound here.
Applicable(c) ==
  /\ WaitsFor(thread[c].run, thread[c].approval)
  /\ thread[c].out = "approved" => thread[c].approval = registry[thread[c].proc]

\* apply reads the snapshot for resume_tool_approval.
Resume(c) ==
  /\ thread[c].pc = "apply" /\ thread[c].out = "approved" /\ Applicable(c)
  /\ thread' = [thread EXCEPT
       ![c].pc = "resume",
       ![c].result = [snap[thread[c].run] EXCEPT !.state = "approved_resume"]]
  /\ UNCHANGED <<record, snap, job, registry, called, early, crashes>>

\* resume_tool_approval stores the receipt of the approval with the status still
\* waiting, and enters the loop.
Enter(c) ==
  /\ thread[c].pc = "resume"
  /\ Save(c)
  /\ thread' = [thread EXCEPT ![c] =
       Loop(thread[c].proc, thread[c].run, [thread[c].result EXCEPT !.status = "EXECUTING"])]
  /\ UNCHANGED <<record, job, registry, called, early, crashes>>

\* The decisions that close the waiting run.
Refusals == {"rejected", "revoked"}

\* _close_without_execution: the run ends REJECTED.  Its save and the one of
\* RunApplication.execute are those of any final result.
Refuse(c) ==
  /\ thread[c].pc = "apply" /\ thread[c].out \in Refusals /\ Applicable(c)
  /\ thread' = [thread EXCEPT
       ![c].pc = "final", ![c].approval = None,
       ![c].result = [snap[thread[c].run] EXCEPT !.status = "REJECTED",
                                                 !.state = "closed_without_execution"]]
  /\ UNCHANGED <<record, snap, job, registry, called, early, crashes>>

\* approval_run_not_waiting, approval_fingerprint_mismatch, approval_binding_missing.
Raise(c) ==
  /\ thread[c].pc = "apply" /\ ~Applicable(c)
  /\ Return(c)
  /\ UNCHANGED <<record, snap, job, registry, called, early, crashes>>

-----------------------------------------------------------------------------
(* Faults.                                                                 *)

\* _restore_approved_tools in a new process: the first approved record that is
\* listed is bound to the name.
Rehydrated ==
  LET approved == {a \in Approvals : record[a].status = "approved"}
  IN IF approved = {} THEN {None} ELSE approved

\* A process dies with its threads and registry, and is started anew.
Crash(p) ==
  /\ crashes < MaxCrashes
  /\ crashes' = crashes + 1
  /\ thread' = [t \in Threads |->
                  IF thread[t].proc = p THEN Away("dead") ELSE thread[t]]
  /\ \E bound \in Rehydrated : registry' = [registry EXCEPT ![p] = bound]
  /\ UNCHANGED <<record, snap, job, called, early>>

\* A process that starts claims the job of a dead one: the run starts over.
Recover(r) ==
  /\ thread[r].pc = "dead" /\ job[r] = "RUNNING"
  /\ \E p \in Processes : thread' = [thread EXCEPT ![r] = Loop(p, r, FreshResult)]
  /\ snap' = [snap EXCEPT ![r] = FreshResult]
  /\ UNCHANGED <<record, job, registry, called, early, crashes>>

-----------------------------------------------------------------------------
LoopStep(t) ==
  \/ Conclude(t) \/ Propose(t) \/ Invoke(t) \/ Call(t) \/ SaveStep(t) \/ Leave(t)
  \/ Create(t) \/ SaveWaiting(t) \/ SaveFinal(t) \/ SaveAgain(t) \/ Finish(t)

Decide(c) ==
  \/ Swap(c) \/ Find(c) \/ Bind(c) \/ Resume(c) \/ Enter(c) \/ Refuse(c) \/ Raise(c)

Next ==
  \/ \E t \in Threads : LoopStep(t)
  \/ \E c \in Clients : Begin(c) \/ Decide(c)
  \/ \E p \in Processes : Crash(p)
  \/ \E r \in Runs : Recover(r)

Spec == Init /\ [][Next]_vars

-----------------------------------------------------------------------------
(* Properties.                                                             *)

\* Every variable keeps its type.
TypeOK ==
  /\ record \in [Approvals -> [status : RecordStatus, run : Runs \cup {None}]]
  /\ snap \in [Runs -> Result]
  /\ job \in [Runs -> {Absent, "RUNNING", "WAITING_FOR_DECISION"} \cup Outcome]
  /\ registry \in [Processes -> Approvals \cup {None}]
  /\ thread \in [Threads -> Thread]
  /\ called \subseteq Approvals
  /\ early \subseteq Approvals
  /\ crashes \in 0..MaxCrashes

\* Whoever decides in whatever interleaving and wherever, late publications and
\* restarts included: a tool is in a registry or has been executed only if its
\* proposal was approved, and a proposal that was rejected stays out of every
\* registry for ever.
OnlyApprovedTools ==
  \A a \in Approvals :
    a \in called \/ (\E p \in Processes : registry[p] = a)
      => record[a].status \in {"approved", "revoked"}

\* The receipt in the snapshot of a run and the approval record are stored by
\* different threads in transactions of their own; still a run reads
\* closed without execution only when its own proposal was rejected or revoked,
\* and resumed only when it was approved.
Supports(state) ==
  CASE state = "closed_without_execution" -> {"rejected", "revoked"}
    [] state = "approved_resume" -> {"approved", "revoked"}
    [] OTHER -> RecordStatus \ {Absent}

ReceiptAgrees ==
  \A r \in Runs :
    snap[r].approval # None =>
      /\ record[snap[r].approval].run = r
      /\ record[snap[r].approval].status \in Supports(snap[r].state)

\* The decision of a record, its publication and its application to the run are
\* separate steps, and several clients take them at a time.  When all have
\* returned and no process has died, no synchronous run still waits for a proposal
\* that was decided: rejected and revoked ones have closed it, approved ones have
\* continued it.  Except when the decision came before the run was left waiting, or
\* when another approved proposal has, or had, the name.
Settled == \A t \in Threads : thread[t].pc \in {"idle", "done"}

DecidedRunHasEnded ==
  Settled /\ crashes = 0 =>
    \A r \in Runs, a \in Approvals \ early :
      WaitsFor(r, a) /\ job[r] = Absent /\ record[a].status \notin Undecided
        => \E b \in Approvals \ {a} : record[b].status \in {"approved", "revoked"}

-----------------------------------------------------------------------------
(* What the documents say and the code does not do; see the README.        *)

\* "a repeated decision is idempotent": however often a proposal is approved, one
\* thread at most continues its run.
ResumedOnce ==
  \A t, u \in Threads :
    thread[t].pc \in LoopPc /\ thread[u].pc \in LoopPc /\ thread[t].run = thread[u].run
      => t = u

=============================================================================
