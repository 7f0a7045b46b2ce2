----------------------------- MODULE RunActions -----------------------------
(***************************************************************************)
(* What clients do to one run of spatial-agent after it was planned:       *)
(* approve or reject its plan, cancel it, retry it.  The handlers are      *)
(* DecisionApplication.resolve, RunRecoveryApplication.cancel and retry;   *)
(* under them lie the receipts of ActionApplication, SQLiteDecisionStore,  *)
(* RuntimeDecisionResume, RuntimeRecoverySurface and the snapshot of the   *)
(* run.  Handlers run in threads of any number of service processes over   *)
(* one SQLite file.  A step is one transaction, or one tool call.          *)
(*                                                                         *)
(* The run is synchronous (no job row: job = Absent) or asynchronous with  *)
(* its job row closed, as AsyncRuns leaves it.  It waits for a decision or *)
(* has failed when clients turn to it; or it is a synchronous run whose    *)
(* own request thread is still at work.                                    *)
(***************************************************************************)
EXTENDS Naturals, RunStatus

CONSTANTS
  Clients,       \* HTTP threads that handle actions on the run
  None,          \* no action
  MaxDeaths,     \* bound: threads that die with their process
  Quota          \* may cost governance refuse a resumed run?

ASSUME NoneAssumption == None \notin {"approve", "reject", "cancel", "retry"}
ASSUME BoundsAssumption == MaxDeaths \in Nat /\ Quota \in BOOLEAN

VARIABLES
  job,       \* async_jobs: status of the run's job, which no action changes
  snap,      \* agent_runs: status in the stored snapshot
  decision,  \* agent_decisions: status and version
  receipt,   \* interaction_receipts: status of the row (run, action)
  flag,      \* run_controls: cancel_requested
  runner,    \* the thread of the synchronous run
  client,    \* the threads that handle actions
  \* bookkeeping of the model
  runs,      \* executions of the approved plan
  deaths,
  refused    \* cost governance has refused a resumed run

vars == <<job, snap, decision, receipt, flag, runner, client, runs, deaths, refused>>

-----------------------------------------------------------------------------
Actions == {"approve", "reject", "cancel", "retry"}

DecisionStatus == {Absent, "PENDING", "ACCEPTED", "REJECTED", "EXPIRED", "CONSUMED"}

ReceiptStatus == {Absent, "IN_PROGRESS", "COMPLETED", "FAILED"}

\* The places of a handler that has reserved the receipt of its action.
Reserved ==
  {"read", "cas", "admit", "load", "consume", "clear", "check", "tool", "snapshot",
   "request", "save", "again", "complete", "fail"}

ClientPc == {"idle", "reopen", "keepGet", "keepWrite"} \cup Reserved

\* version: of the decision as the thread has read it; out: the status of the
\* snapshot the thread is to save.
Client == [pc : ClientPc, action : Actions \cup {None}, version : 0..3, out : SnapStatus]

IdleClient == [pc |-> "idle", action |-> None, version |-> 0, out |-> Absent]

Runner == [pc : {"plan", "save", "again", "done"}, out : SnapStatus]

Goto(c, pc) == client' = [client EXCEPT ![c].pc = pc]

EndWith(c, pc, out) == client' = [client EXCEPT ![c].pc = pc, ![c].out = out]

Return(c) == client' = [client EXCEPT ![c] = IdleClient]

\* SQLiteStateStore.save.  The job row is closed or absent, so reading the
\* fence and writing behind it is as good as one step.
Save(out) == snap' = IF Fenced(job, out) THEN snap ELSE out

-----------------------------------------------------------------------------
(* SQLiteDecisionStore.                                                    *)

\* Mutant of Swap: an update without its WHERE status and version.
SwapBlind(status, version, new) ==
  decision' = [status |-> new, version |-> decision.version + 1]

\* _cas_update: the row is replaced only while it is the one that was read.
Swap(status, version, new) ==
  decision' = IF decision = [status |-> status, version |-> version]
                THEN [status |-> new, version |-> version + 1] ELSE decision

\* Mutant of Holds: the caller does not look at the row count.
HoldsAlways(status, version) == TRUE

\* The update has found its row (rowcount = 1).
Holds(status, version) == decision = [status |-> status, version |-> version]

\* get: whoever reads a pending decision after its deadline marks it EXPIRED,
\* unless it is resolved in between.
Expire ==
  /\ decision.status = "PENDING"
  /\ Swap("PENDING", decision.version, "EXPIRED")
  /\ UNCHANGED <<job, snap, receipt, flag, runner, client, runs, deaths, refused>>

-----------------------------------------------------------------------------
(* The run's own thread.                                                   *)

\* The runner of a run that was planned before clients turned to it.
NoRunner == [pc |-> "done", out |-> Absent]

Init ==
  /\ snap \in {"PLANNING", "WAITING_FOR_DECISION", "FAILED"}
  /\ job \in {Absent, snap} \ {"PLANNING"}
  /\ decision = IF snap = "WAITING_FOR_DECISION"
                  THEN [status |-> "PENDING", version |-> 1]
                  ELSE [status |-> Absent, version |-> 0]
  /\ receipt = [a \in Actions |-> Absent]
  /\ flag = FALSE
  /\ runner = IF snap = "PLANNING" THEN [pc |-> "plan", out |-> Absent] ELSE NoRunner
  /\ client = [c \in Clients |-> IdleClient]
  /\ runs = 0
  /\ deaths = 0
  /\ refused = FALSE

\* RunLifecycle.run after the first save: the plan awaits confirmation and a
\* decision is created for it, or it is executed at once.
Plan ==
  /\ runner.pc = "plan"
  /\ \E out \in {"WAITING_FOR_DECISION", "COMPLETED", "FAILED", "CANCELLED"} :
       /\ out = "CANCELLED" => flag
       /\ runner' = [pc |-> "save", out |-> out]
       /\ decision' = IF out = "WAITING_FOR_DECISION"
                        THEN [status |-> "PENDING", version |-> 1] ELSE decision
  /\ UNCHANGED <<job, snap, receipt, flag, client, runs, deaths, refused>>

\* _evidence_and_finalize stores the snapshot.
RunnerSave ==
  /\ runner.pc = "save"
  /\ Save(runner.out)
  /\ runner' = [runner EXCEPT !.pc = "again"]
  /\ UNCHANGED <<job, decision, receipt, flag, client, runs, deaths, refused>>

\* RunApplication.execute stores the same snapshot again.
RunnerSaveAgain ==
  /\ runner.pc = "again"
  /\ Save(runner.out)
  /\ runner' = [runner EXCEPT !.pc = "done"]
  /\ UNCHANGED <<job, decision, receipt, flag, client, runs, deaths, refused>>

RunnerStep == Plan \/ RunnerSave \/ RunnerSaveAgain

-----------------------------------------------------------------------------
(* Receipts: ActionApplication.                                            *)

\* Where a handler starts.  A decision is known to clients from the first
\* snapshot that waits for it.
FirstPc(a) ==
  CASE a \in {"approve", "reject"} -> "read"
    [] a = "cancel" -> "snapshot"
    [] OTHER -> "load"

Known(a) == a \in {"approve", "reject"} =>
              decision.status # Absent /\ runner.pc \in {"again", "done"}

Arrives(c, a) ==
  /\ client[c].pc = "idle"
  /\ Known(a)

\* Mutant of Reserve: the insert replaces the row.
ReserveAgain(c, a) ==
  /\ Arrives(c, a)
  /\ receipt' = [receipt EXCEPT ![a] = "IN_PROGRESS"]
  /\ client' = [client EXCEPT ![c].pc = FirstPc(a), ![c].action = a]
  /\ UNCHANGED <<job, snap, decision, flag, runner, runs, deaths, refused>>

\* reserve_interaction: the primary key (run, action) lets one handler in.  A
\* row that is there is replayed or refused, and nothing happens.
Reserve(c, a) ==
  /\ Arrives(c, a)
  /\ receipt[a] = Absent
  /\ receipt' = [receipt EXCEPT ![a] = "IN_PROGRESS"]
  /\ client' = [client EXCEPT ![c].pc = FirstPc(a), ![c].action = a]
  /\ UNCHANGED <<job, snap, decision, flag, runner, runs, deaths, refused>>

\* A retry without a key has found a FAILED row and will try to reopen it.
FindFailed(c) ==
  /\ Arrives(c, "retry")
  /\ receipt["retry"] = "FAILED"
  /\ client' = [client EXCEPT ![c].pc = "reopen", ![c].action = "retry"]
  /\ UNCHANGED <<job, snap, decision, receipt, flag, runner, runs, deaths, refused>>

\* reopen_interaction: only while the row is FAILED, else the call is refused.
Reopen(c) ==
  /\ client[c].pc = "reopen"
  /\ IF receipt["retry"] = "FAILED"
       THEN /\ receipt' = [receipt EXCEPT !["retry"] = "IN_PROGRESS"]
            /\ Goto(c, "load")
       ELSE /\ UNCHANGED receipt
            /\ Return(c)
  /\ UNCHANGED <<job, snap, decision, flag, runner, runs, deaths, refused>>

\* complete_interaction, which guards itself with IN_PROGRESS.
CloseReceipt(a, status) ==
  receipt' = [receipt EXCEPT ![a] = IF @ = "IN_PROGRESS" THEN status ELSE @]

\* The handler has an answer.  Only a retry looks at how the run has ended.
Complete(c) ==
  /\ client[c].pc = "complete"
  /\ CloseReceipt(client[c].action,
       IF client[c].action = "retry" /\ client[c].out # "COMPLETED"
         THEN "FAILED" ELSE "COMPLETED")
  /\ Goto(c, "keepGet")
  /\ UNCHANGED <<job, snap, decision, flag, runner, runs, deaths, refused>>

\* Mutant of Fail: the exception leaves the receipt alone.
FailSilently(c) ==
  /\ client[c].pc = "fail"
  /\ Return(c)
  /\ UNCHANGED <<job, snap, decision, receipt, flag, runner, runs, deaths, refused>>

\* The handler has raised: a FAILED row with no result, and no snapshot to keep
\* the receipt in.
Fail(c) ==
  /\ client[c].pc = "fail"
  /\ CloseReceipt(client[c].action, "FAILED")
  /\ Return(c)
  /\ UNCHANGED <<job, snap, decision, flag, runner, runs, deaths, refused>>

\* persist_receipt reads the run, puts the receipt into it and stores it whole.
KeepGet(c) ==
  /\ client[c].pc = "keepGet"
  /\ EndWith(c, "keepWrite", snap)
  /\ UNCHANGED <<job, snap, decision, receipt, flag, runner, runs, deaths, refused>>

KeepWrite(c) ==
  /\ client[c].pc = "keepWrite"
  /\ Save(client[c].out)
  /\ Return(c)
  /\ UNCHANGED <<job, decision, receipt, flag, runner, runs, deaths, refused>>

-----------------------------------------------------------------------------
(* The decision: resolve and resume.                                       *)

\* SQLiteDecisionStore.resolve reads the record; a record that is no longer
\* pending raises.
Read(c) ==
  /\ client[c].pc = "read"
  /\ client' = [client EXCEPT ![c].version = decision.version,
                              ![c].pc = IF decision.status = "PENDING"
                                          THEN "cas" ELSE "fail"]
  /\ UNCHANGED <<job, snap, decision, receipt, flag, runner, runs, deaths, refused>>

\* resolve writes the verdict, or raises because somebody else has.  An
\* approval goes on to the run; a rejection or a cancel saves its own status.
Decide(c) ==
  /\ client[c].pc = "cas"
  /\ LET a == client[c].action
         v == client[c].version
     IN /\ Swap("PENDING", v, IF a = "approve" THEN "ACCEPTED" ELSE "REJECTED")
        /\ client' = [client EXCEPT
             ![c].pc = IF ~Holds("PENDING", v) THEN "fail"
                       ELSE IF a = "approve" THEN "admit" ELSE "save",
             ![c].version = v + 1,
             ![c].out = IF a = "reject" THEN "REJECTED" ELSE "CANCELLED"]
  /\ UNCHANGED <<job, snap, receipt, flag, runner, runs, deaths, refused>>

\* SubmissionApplication.run: the concurrency limit and the token budget come
\* before the runtime, and raise.
Admit(c) ==
  /\ client[c].pc = "admit"
  /\ \E ok \in {TRUE, ~Quota} :
       /\ Goto(c, IF ok THEN "load" ELSE "fail")
       /\ refused' = (refused \/ ~ok)
  /\ UNCHANGED <<job, snap, decision, receipt, flag, runner, runs, deaths>>

\* The runtime reads the run: an approved one must be waiting, a run that is to
\* be retried must have failed, at a step.
Load(c) ==
  /\ client[c].pc = "load"
  /\ Goto(c, CASE client[c].action = "approve" /\ snap = "WAITING_FOR_DECISION" -> "consume"
               [] client[c].action = "retry" /\ snap = "FAILED" -> "clear"
               [] OTHER -> "fail")
  /\ UNCHANGED <<job, snap, decision, receipt, flag, runner, runs, deaths, refused>>

\* RuntimeDecisionResume.resume uses the approval up before it starts.
Consume(c) ==
  /\ client[c].pc = "consume"
  /\ Swap("ACCEPTED", client[c].version, "CONSUMED")
  /\ Goto(c, IF Holds("ACCEPTED", client[c].version) THEN "clear" ELSE "fail")
  /\ UNCHANGED <<job, snap, receipt, flag, runner, runs, deaths, refused>>

-----------------------------------------------------------------------------
(* Execution, of an approved plan and of a retry.  A plan is one step here. *)

\* An earlier cancel does not count.  The snapshot still says what it said.
Clear(c) ==
  /\ client[c].pc = "clear"
  /\ flag' = FALSE
  /\ Goto(c, "check")
  /\ UNCHANGED <<job, snap, decision, receipt, runner, runs, deaths, refused>>

\* check_control before a step.  retry_failed has no handler for a cancelled
\* run and ends FAILED.
Check(c) ==
  /\ client[c].pc = "check"
  /\ IF flag
       THEN EndWith(c, "save", IF client[c].action = "retry" THEN "FAILED" ELSE "CANCELLED")
       ELSE Goto(c, "tool")
  /\ UNCHANGED <<job, snap, decision, receipt, flag, runner, runs, deaths, refused>>

Tool(c) ==
  /\ client[c].pc = "tool"
  /\ \E out \in {"COMPLETED", "FAILED"} : EndWith(c, "save", out)
  /\ runs' = IF client[c].action = "approve" THEN runs + 1 ELSE runs
  /\ UNCHANGED <<job, snap, decision, receipt, flag, runner, deaths, refused>>

\* Mutant of SaveResult: the rejected or cancelled run is not stored.
SaveNothing(c) ==
  /\ client[c].pc = "save"
  /\ IF client[c].out \in {"REJECTED", "CANCELLED"} THEN UNCHANGED snap
     ELSE Save(client[c].out)
  /\ Goto(c, IF client[c].action \in {"approve", "retry"} THEN "again" ELSE "complete")
  /\ UNCHANGED <<job, decision, receipt, flag, runner, runs, deaths, refused>>

\* The handler stores what the run has come to.
SaveResult(c) ==
  /\ client[c].pc = "save"
  /\ Save(client[c].out)
  /\ Goto(c, IF client[c].action \in {"approve", "retry"} THEN "again" ELSE "complete")
  /\ UNCHANGED <<job, decision, receipt, flag, runner, runs, deaths, refused>>

\* RunApplication.execute and _retry_payload store it once more.
SaveAgain(c) ==
  /\ client[c].pc = "again"
  /\ Save(client[c].out)
  /\ Goto(c, "complete")
  /\ UNCHANGED <<job, decision, receipt, flag, runner, runs, deaths, refused>>

-----------------------------------------------------------------------------
(* Cancel: RuntimeRecoverySurface.cancel.                                  *)

\* Of a waiting run the decision is to be rejected, an active one is flagged,
\* any other is refused.  A plan that is being executed on an approval, or
\* again, still shows the snapshot from before and cannot be cancelled.
Snapshot(c) ==
  /\ client[c].pc = "snapshot"
  /\ Goto(c, CASE snap = "PLANNING" -> "request"
               [] snap = "WAITING_FOR_DECISION" -> "read"
               [] OTHER -> "fail")
  /\ UNCHANGED <<job, snap, decision, receipt, flag, runner, runs, deaths, refused>>

Request(c) ==
  /\ client[c].pc = "request"
  /\ flag' = TRUE
  /\ Goto(c, "complete")
  /\ UNCHANGED <<job, snap, decision, receipt, runner, runs, deaths, refused>>

-----------------------------------------------------------------------------
\* What a handler does once it is called.
Step(c) ==
  \/ Reopen(c) \/ Complete(c) \/ Fail(c) \/ KeepGet(c) \/ KeepWrite(c)
  \/ Read(c) \/ Decide(c) \/ Admit(c) \/ Load(c) \/ Consume(c)
  \/ Clear(c) \/ Check(c) \/ Tool(c) \/ SaveResult(c) \/ SaveAgain(c)
  \/ Snapshot(c) \/ Request(c)

\* The process of a thread dies.
Die ==
  /\ deaths < MaxDeaths
  /\ deaths' = deaths + 1
  /\ \/ /\ runner.pc # "done"
        /\ runner' = NoRunner
        /\ UNCHANGED client
     \/ \E c \in Clients :
          /\ client[c].pc # "idle"
          /\ Return(c)
          /\ UNCHANGED runner
  /\ UNCHANGED <<job, snap, decision, receipt, flag, runs, refused>>

Next ==
  \/ RunnerStep \/ Expire \/ Die
  \/ \E c \in Clients :
       \/ FindFailed(c) \/ Step(c)
       \/ \E a \in Actions : Reserve(c, a)

Spec == Init /\ [][Next]_vars

\* Threads keep running; nobody has to call, and no deadline has to pass.
FairSpec == Spec /\ WF_vars(RunnerStep) /\ \A c \in Clients : WF_vars(Step(c))

-----------------------------------------------------------------------------
(* Properties.                                                             *)

\* Every variable keeps its type.
TypeOK ==
  /\ job \in {Absent, "WAITING_FOR_DECISION", "FAILED"}
  /\ snap \in SnapStatus
  /\ decision \in [status : DecisionStatus, version : 0..3]
  /\ receipt \in [Actions -> ReceiptStatus]
  /\ flag \in BOOLEAN
  /\ runner \in Runner
  /\ client \in [Clients -> Client]
  /\ runs \in Nat
  /\ deaths \in Nat
  /\ refused \in BOOLEAN

Handles(c, a) == client[c].action = a /\ client[c].pc \in Reserved

\* A browser double click, two workers or a retry on top of a retry: an action
\* is never handled by two threads at a time.
OneHandler ==
  \A c, d \in Clients, a \in Actions : Handles(c, a) /\ Handles(d, a) => c = d

\* Whoever approves, rejects, cancels or lets the deadline pass, in whatever
\* interleaving, and whoever dies: the decision keeps the promises of
\* DecisionLedger.  It falls once, an approval is consumed before the plan runs,
\* the plan runs at most once, and never after a rejection.
Ledger == INSTANCE DecisionLedger
            WITH decision <- decision.status, executed <- runs

LedgerSpec == Ledger!Spec

\* The receipt a client can replay tells what has become of the decision: it
\* never reads COMPLETED for an approval that was not used up or for a rejection
\* that did not win, so never for both.
ReceiptIsTrue ==
  /\ receipt["approve"] = "COMPLETED" => decision.status = "CONSUMED"
  /\ receipt["reject"] = "COMPLETED" => decision.status = "REJECTED"

\* Why these hold, as an inductive invariant.  The version tells how far the
\* decision has come; a handler that is at work holds its receipt IN_PROGRESS;
\* past its transaction on the decision it has the result in its place; and the
\* plan has not run as long as its handler is before the tool.
VersionOf(status) ==
  CASE status = Absent -> 0
    [] status = "PENDING" -> 1
    [] status = "CONSUMED" -> 3
    [] OTHER -> 2

Executing == {"clear", "check", "tool"}

ClientInv(c) ==
  LET pc == client[c].pc
      a == client[c].action
  IN /\ pc # "idle" => a \in Actions
     /\ pc \in Reserved => receipt[a] = "IN_PROGRESS"
     /\ pc = "cas" => client[c].version = 1
     /\ pc = "admit" => a = "approve"
     /\ pc \in Executing \cup {"load", "consume", "again"} => a \in {"approve", "retry"}
     /\ pc \in {"snapshot", "request"} => a = "cancel"
     /\ pc = "reopen" => a = "retry"
     /\ a = "approve" /\ pc \in Executing => runs = 0
     /\ a = "approve" /\ pc \in Executing \cup {"save", "again", "complete"}
          => decision.status = "CONSUMED"
     /\ a = "reject" /\ pc \in {"save", "complete"} => decision.status = "REJECTED"

HandlerInv ==
  /\ decision.version = VersionOf(decision.status)
  /\ runs \in {0, 1} /\ (decision.status # "CONSUMED" => runs = 0)
  /\ OneHandler
  /\ ReceiptIsTrue
  /\ \A c \in Clients : ClientInv(c)

ActionInv == HandlerInv /\ (runner.pc = "plan" => decision.status = Absent)

Settled == runner.pc = "done" /\ \A c \in Clients : client[c].pc = "idle"

\* What the snapshot of a synchronous run may say for each decision.
SnapAfter(status) ==
  CASE status \in {"PENDING", "EXPIRED"} -> {"WAITING_FOR_DECISION"}
    [] status = "REJECTED" -> {"REJECTED", "CANCELLED"}
    [] status = "CONSUMED" -> {"COMPLETED", "FAILED", "CANCELLED"}
    [] OTHER -> {}

\* The decision and the snapshot of a synchronous run are stored in different
\* transactions by different threads, and every handler stores the snapshot up to
\* four times.  When all are through, and none has died or been refused, the two
\* agree; for a run whose own thread had ended before.
SnapshotAgrees ==
  /\ Settled /\ runner = NoRunner /\ job = Absent
  /\ deaths = 0 /\ ~refused
  /\ decision.status # Absent
  => snap \in SnapAfter(decision.status)

\* An action that was let in is answered, whatever the others do, as long as
\* no process dies.
ReceiptCloses ==
  \A a \in Actions :
    receipt[a] = "IN_PROGRESS" ~> receipt[a] # "IN_PROGRESS" \/ deaths > 0

-----------------------------------------------------------------------------
(* What the documents say and the code does not do; see the README.        *)

\* "POST /runs/{run_id}/retry can then resume a failed planned run": when the
\* retry is answered COMPLETED and all is quiet, the run is completed.
RetriedRunIsCompleted ==
  Settled /\ receipt["retry"] = "COMPLETED" => snap = "COMPLETED"

=============================================================================
