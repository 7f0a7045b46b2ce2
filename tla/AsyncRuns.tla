----------------------------- MODULE AsyncRuns -----------------------------
(***************************************************************************)
(* The asynchronous run lifecycle of spatial-agent in its SQLite mode:     *)
(* AsyncApplication (submit, run_job, finalize_job, recover), the part of  *)
(* RunLifecycle and RunApplication a worker thread walks through, the      *)
(* timeout reaper of ServiceState and the statements of SQLiteStateStore   *)
(* they share.  Every service process has its own threads and one database *)
(* joins them.  A step is one SQLite transaction, or one read that is a    *)
(* transaction of its own; what a thread remembers between two steps is in *)
(* its own record and dies with its process.                               *)
(***************************************************************************)
EXTENDS Naturals, RunStatus

CONSTANTS
  Runs,           \* run ids, one idempotency key each
  Procs,          \* operating system process ids
  None,           \* the NULL owner_pid, and "no run"
  Outcomes,       \* how a run may end by itself
  Steps,          \* bound: tool steps of one run
  MaxDisruptions, \* bound: crashes, shutdowns, raised exceptions
  Overlap,        \* may two service processes be alive at the same time?
  ReusePids,      \* may a restarted process get the pid of a dead one?
  ReaperOn,       \* does the deployment call start_reaper?
  CancelOn        \* do clients cancel runs?

ASSUME NoneAssumption == None \notin Runs \cup Procs
ASSUME OutcomesAssumption == Outcomes \subseteq NaturalOutcome
ASSUME BoundsAssumption == Steps \in Nat \ {0} /\ MaxDisruptions \in Nat
ASSUME SwitchAssumption == {Overlap, ReusePids, ReaperOn, CancelOn} \subseteq BOOLEAN

VARIABLES
  \* durable: the SQLite tables
  job,     \* async_jobs: status and owner_pid of each run
  snap,    \* agent_runs: status in the stored snapshot
  flag,    \* run_controls: cancel_requested
  ended,   \* run_events: status of the terminal event
  \* volatile: the service processes and their threads
  life,    \* whether a process is down, recovering, up or closing
  found,   \* the orphans a starting process listed and has not handled yet
  sub,     \* the run an HTTP thread has inserted and not claimed yet
  worker,  \* one pool thread per scheduled run
  reap,    \* the reaper thread
  cancel,  \* the one cancel a client may send for a run: its HTTP thread
  \* bookkeeping of the model
  used,    \* pids that have been given out
  disruptions

durable == <<job, snap, flag, ended>>
threads == <<found, sub, worker, reap, cancel>>
history == <<used, disruptions>>
vars == <<job, snap, flag, ended, life, found, sub, worker, reap, cancel,
          used, disruptions>>

-----------------------------------------------------------------------------
(* The records of a thread.                                                *)

\* The places where a worker calls SQLiteStateStore.save.
SavePoint == {"plan", "result", "again", "fail"}

\* lost: an exception that run_job does not catch has ended the thread; the place
\* remembers that until the process is gone.
WorkerPc ==
  SavePoint \cup {"idle", "queued", "control", "tool", "controlEvent", "event",
                  "finalize", "finish", "failGet", "failEvent", "failFinish",
                  "lost"}

\* passed: the fence of the save at pc has been read and was open.
Worker == [pc : WorkerPc, out : EventStatus, step : 0..Steps, passed : BOOLEAN]

IdleWorker == [pc |-> "idle", out |-> Absent, step |-> 0, passed |-> FALSE]

QueuedWorker == [IdleWorker EXCEPT !.pc = "queued"]

Reaper == [pc : {"idle", "get", "save", "event"}, run : Runs \cup {None}]

IdleReaper == [pc |-> "idle", run |-> None]

\* seen: the snapshot the thread has read and will store again.
Canceller ==
  [pc : {"none", "read", "request", "fence", "write", "get", "keepFence",
         "keepWrite", "done"},
   by : Procs \cup {None}, seen : SnapStatus]

NoCancel == [pc |-> "none", by |-> None, seen |-> Absent]

\* A cancel that is over, or has died with its process.
CancelOver == [NoCancel EXCEPT !.pc = "done"]

\* A client has asked to cancel the run.
Asked(r) == cancel[r].pc # "none"

Orphan == [run : Runs, owner : Procs \cup {None}]

Alive(p) == life[p] # "down"

SetWorker(p, r, w) == worker' = [worker EXCEPT ![p][r] = w]

Goto(p, r, pc) ==
  SetWorker(p, r, [worker[p][r] EXCEPT !.pc = pc, !.passed = FALSE])

EndWith(p, r, pc, out) ==
  SetWorker(p, r, [worker[p][r] EXCEPT !.pc = pc, !.out = out])

Disrupt == /\ disruptions < MaxDisruptions
           /\ disruptions' = disruptions + 1

-----------------------------------------------------------------------------
(* The SQLite statements.                                                  *)

\* append_run_event: the first terminal event of a run is kept for ever.
AppendTerminal(r, status) ==
  ended' = [ended EXCEPT ![r] = IF @ = Absent THEN status ELSE @]

\* claim_async_job, non-recovering: only a job nobody owns.
ClaimableNew(r) == job[r].status \in ActiveStatus /\ job[r].owner = None

\* claim_async_job with recover: prev is the owner the caller has listed.
ClaimableOrphan(r, p, prev) ==
  /\ job[r].status \in ActiveStatus
  /\ \/ job[r].owner = None
     \/ IF prev = None THEN job[r].owner # p ELSE job[r].owner = prev

\* Mutant of ClaimedBy: a recovering claim forgets a requested cancel.
ClaimedByAnew(row, p) == [status |-> "RUNNING", owner |-> p]

\* The row after a claim: a requested cancel survives it.
ClaimedBy(row, p) ==
  [status |-> IF row.status = "CANCEL_REQUESTED" THEN row.status ELSE "RUNNING",
   owner |-> p]

\* Mutants of FinishJob, for the runs that must notice them: the update
\* without its status guard, and a guard that forgets CANCEL_REQUESTED.
FinishJobAnyStatus(r, p, status) ==
  job' = [job EXCEPT ![r].status = IF job[r].owner = p THEN status ELSE @]

FinishJobNoCancel(r, p, status) ==
  job' = [job EXCEPT ![r].status =
            IF @ \in {"QUEUED", "RUNNING"} /\ job[r].owner = p THEN status ELSE @]

\* finish_async_job: only the owner, and only while the job is active.
FinishJob(r, p, status) ==
  job' = [job EXCEPT ![r].status =
            IF @ \in ActiveStatus /\ job[r].owner = p THEN status ELSE @]

-----------------------------------------------------------------------------
Init ==
  /\ job = [r \in Runs |-> [status |-> Absent, owner |-> None]]
  /\ snap = [r \in Runs |-> Absent]
  /\ flag = [r \in Runs |-> FALSE]
  /\ ended = [r \in Runs |-> Absent]
  /\ life = [p \in Procs |-> "down"]
  /\ found = [p \in Procs |-> {}]
  /\ sub = [p \in Procs |-> None]
  /\ worker = [p \in Procs |-> [r \in Runs |-> IdleWorker]]
  /\ reap = [p \in Procs |-> IdleReaper]
  /\ cancel = [r \in Runs |-> NoCancel]
  /\ used = {}
  /\ disruptions = 0

-----------------------------------------------------------------------------
(* Service processes.                                                      *)

\* Mutant of Recoverable: a job that was never claimed is not listed.
RecoverableOwned(p) ==
  {[run |-> r, owner |-> job[r].owner] :
     r \in {x \in Runs : job[x].status \in ActiveStatus
                        /\ job[x].owner \notin {p, None}}}

\* list_recoverable_async_jobs: active, and not owned by the caller's pid.
Recoverable(p) ==
  {[run |-> r, owner |-> job[r].owner] :
     r \in {x \in Runs : job[x].status \in ActiveStatus /\ job[x].owner # p}}

\* AgentService.__init__ up to the query of AsyncApplication.recover.
Start(p) ==
  /\ life[p] = "down"
  /\ ReusePids \/ p \notin used
  /\ Overlap \/ \A q \in Procs : ~Alive(q)
  /\ life' = [life EXCEPT ![p] = "recovering"]
  /\ found' = [found EXCEPT ![p] = Recoverable(p)]
  /\ used' = used \cup {p}
  /\ UNCHANGED <<durable, sub, worker, reap, cancel, disruptions>>

\* One iteration of AsyncApplication.recover: skip a job whose listed owner
\* is alive, else claim it with the listed owner and schedule it.
Recover(p, o) ==
  /\ life[p] = "recovering"
  /\ o \in found[p]
  /\ found' = [found EXCEPT ![p] = @ \ {o}]
  /\ IF ~(o.owner \in Procs /\ Alive(o.owner)) /\ ClaimableOrphan(o.run, p, o.owner)
       THEN /\ job' = [job EXCEPT ![o.run] = ClaimedBy(@, p)]
            /\ SetWorker(p, o.run, QueuedWorker)
       ELSE UNCHANGED <<job, worker>>
  /\ UNCHANGED <<snap, flag, ended, life, sub, reap, cancel, history>>

\* The constructor returns: the process takes requests and reaps.
Serve(p) ==
  /\ life[p] = "recovering"
  /\ found[p] = {}
  /\ life' = [life EXCEPT ![p] = "up"]
  /\ UNCHANGED <<durable, threads, history>>

\* AgentService.close: no new submission, the reaper thread is joined and the
\* executor stops accepting work.
Close(p) ==
  /\ life[p] = "up"
  /\ reap[p].pc = "idle"
  /\ Disrupt
  /\ life' = [life EXCEPT ![p] = "closing"]
  /\ UNCHANGED <<durable, threads, used>>

\* An exception of the store leaves recover and with it the constructor: the
\* process exits, after the pool has run what has been scheduled so far.
RecoverRaise(p) ==
  /\ life[p] = "recovering"
  /\ Disrupt
  /\ life' = [life EXCEPT ![p] = "closing"]
  /\ found' = [found EXCEPT ![p] = {}]
  /\ UNCHANGED <<durable, sub, worker, reap, cancel, used>>

\* executor.shutdown(wait=True) has drained the pool and the process exits.
Exit(p) ==
  /\ life[p] = "closing"
  /\ sub[p] = None
  /\ \A r \in Runs : worker[p][r].pc \in {"idle", "lost"} /\ cancel[r].by # p
  /\ life' = [life EXCEPT ![p] = "down"]
  /\ worker' = [worker EXCEPT ![p] = [r \in Runs |-> IdleWorker]]
  /\ UNCHANGED <<durable, found, sub, reap, cancel, history>>

\* The process dies between two steps and takes its threads with it.
Crash(p) ==
  /\ Alive(p)
  /\ Disrupt
  /\ life' = [life EXCEPT ![p] = "down"]
  /\ found' = [found EXCEPT ![p] = {}]
  /\ sub' = [sub EXCEPT ![p] = None]
  /\ worker' = [worker EXCEPT ![p] = [r \in Runs |-> IdleWorker]]
  /\ reap' = [reap EXCEPT ![p] = IdleReaper]
  /\ cancel' = [r \in Runs |-> IF cancel[r].by = p THEN CancelOver ELSE cancel[r]]
  /\ UNCHANGED <<durable, used>>

-----------------------------------------------------------------------------
(* Requests.                                                               *)

\* AsyncApplication.submit up to create_async_submission: the job row and the
\* first snapshot are one transaction, and the process-local jobs lock lets one
\* submission of a process through at a time.  A resubmission finds the row
\* and its snapshot and changes nothing.
Submit(p, r) ==
  /\ life[p] = "up"
  /\ sub[p] = None
  /\ job[r].status = Absent
  /\ job' = [job EXCEPT ![r] = [status |-> "QUEUED", owner |-> None]]
  /\ snap' = [snap EXCEPT ![r] = IF @ = Absent THEN "PLANNING" ELSE @]
  /\ sub' = [sub EXCEPT ![p] = r]
  /\ UNCHANGED <<flag, ended, life, found, worker, reap, cancel, history>>

\* The rest of submit: claim, and schedule when the claim succeeded.  An
\* executor that is shut down refuses the work after the claim.
Claim(p) ==
  /\ sub[p] # None
  /\ LET r == sub[p] IN
       IF ClaimableNew(r)
         THEN /\ job' = [job EXCEPT ![r] = ClaimedBy(@, p)]
              /\ IF life[p] = "closing" THEN UNCHANGED worker
                 ELSE SetWorker(p, r, QueuedWorker)
         ELSE UNCHANGED <<job, worker>>
  /\ sub' = [sub EXCEPT ![p] = None]
  /\ UNCHANGED <<snap, flag, ended, life, found, reap, cancel, history>>

\* The claim of submit raises: the request ends with an error and leaves the job
\* it has accepted to nobody; a resubmission does not claim it.
ClaimRaise(p) ==
  /\ sub[p] # None
  /\ Disrupt
  /\ sub' = [sub EXCEPT ![p] = None]
  /\ UNCHANGED <<durable, life, found, worker, reap, cancel, used>>

\* RunRecoveryApplication.cancel.  The receipt of a run's cancel is inserted
\* under the key (run, action), so the handler runs once for each run.
CancelReserve(p, r) ==
  /\ CancelOn
  /\ life[p] = "up"
  /\ job[r].status # Absent
  /\ cancel[r].pc = "none"
  /\ cancel' = [cancel EXCEPT ![r] = [pc |-> "read", by |-> p, seen |-> Absent]]
  /\ UNCHANGED <<durable, life, found, sub, worker, reap, history>>

\* RuntimeRecoverySurface.cancel reads the snapshot.  Of a waiting run it
\* rejects the decision, which only this handler touches in this module; a
\* finished run is refused.
CancelRead(r) ==
  /\ cancel[r].pc = "read"
  /\ cancel' = [cancel EXCEPT ![r] =
                  CASE snap[r] = "PLANNING" -> [@ EXCEPT !.pc = "request"]
                    [] snap[r] = "WAITING_FOR_DECISION" -> [@ EXCEPT !.pc = "fence"]
                    [] OTHER -> CancelOver]
  /\ UNCHANGED <<durable, life, found, sub, worker, reap, history>>

\* request_cancel, for the worker to see.
CancelRequest(r) ==
  /\ cancel[r].pc = "request"
  /\ flag' = [flag EXCEPT ![r] = TRUE]
  /\ job' = [job EXCEPT ![r].status =
               IF @ \in {"QUEUED", "RUNNING"} THEN "CANCEL_REQUESTED" ELSE @]
  /\ cancel' = [cancel EXCEPT ![r].pc = "get"]
  /\ UNCHANGED <<snap, ended, life, found, sub, worker, reap, history>>

\* The waiting snapshot is saved as CANCELLED.  The reply says CANCELLED
\* whether the fence was open or not.
CancelFence(r) ==
  /\ cancel[r].pc = "fence"
  /\ cancel' = [cancel EXCEPT ![r].pc =
                  IF Fenced(job[r].status, "CANCELLED") THEN "get" ELSE "write"]
  /\ UNCHANGED <<durable, life, found, sub, worker, reap, history>>

CancelWrite(r) ==
  /\ cancel[r].pc = "write"
  /\ snap' = [snap EXCEPT ![r] = "CANCELLED"]
  /\ cancel' = [cancel EXCEPT ![r].pc = "get"]
  /\ UNCHANGED <<job, flag, ended, life, found, sub, worker, reap, history>>

\* complete_receipt and persist_receipt: the handler reads the snapshot, puts
\* the receipt into it and saves the whole of it again.
CancelGet(r) ==
  /\ cancel[r].pc = "get"
  /\ cancel' = [cancel EXCEPT ![r].pc = "keepFence", ![r].seen = snap[r]]
  /\ UNCHANGED <<durable, life, found, sub, worker, reap, history>>

CancelKeepFence(r) ==
  /\ cancel[r].pc = "keepFence"
  /\ cancel' = [cancel EXCEPT ![r] =
                  IF Fenced(job[r].status, cancel[r].seen) THEN CancelOver
                  ELSE [@ EXCEPT !.pc = "keepWrite"]]
  /\ UNCHANGED <<durable, life, found, sub, worker, reap, history>>

CancelKeepWrite(r) ==
  /\ cancel[r].pc = "keepWrite"
  /\ snap' = [snap EXCEPT ![r] = cancel[r].seen]
  /\ cancel' = [cancel EXCEPT ![r] = CancelOver]
  /\ UNCHANGED <<job, flag, ended, life, found, sub, worker, reap, history>>

CancelStep(r) ==
  \/ CancelRead(r) \/ CancelRequest(r) \/ CancelFence(r) \/ CancelWrite(r)
  \/ CancelGet(r) \/ CancelKeepFence(r) \/ CancelKeepWrite(r)

-----------------------------------------------------------------------------
(* The worker thread: AsyncApplication.run_job.                            *)

\* A pool thread takes the job and enters the run provider.
Begin(p, r) ==
  /\ worker[p][r].pc = "queued"
  /\ Goto(p, r, "plan")
  /\ UNCHANGED <<durable, life, found, sub, reap, cancel, history>>

\* What the save at the worker's pc would store.
Saved(w) == IF w.pc = "plan" THEN "PLANNING" ELSE w.out

AfterSave == [plan |-> "control", result |-> "event", again |-> "finalize",
              fail |-> "failEvent"]

\* SQLiteStateStore.save, the SELECT: it runs outside the transaction of the
\* upsert.  A closed fence makes save return False, which no caller looks at.
SaveFence(p, r) ==
  LET w == worker[p][r] IN
  /\ w.pc \in SavePoint /\ ~w.passed
  /\ IF Fenced(job[r].status, Saved(w))
       THEN Goto(p, r, AfterSave[w.pc])
       ELSE SetWorker(p, r, [w EXCEPT !.passed = TRUE])
  /\ UNCHANGED <<durable, life, found, sub, reap, cancel, history>>

\* SQLiteStateStore.save, the upsert and its commit.
SaveWrite(p, r) ==
  LET w == worker[p][r] IN
  /\ w.pc \in SavePoint /\ w.passed
  /\ snap' = [snap EXCEPT ![r] = Saved(w)]
  /\ Goto(p, r, AfterSave[w.pc])
  /\ UNCHANGED <<job, flag, ended, life, found, sub, reap, cancel, history>>

\* RunControl.check: a requested cancel first, then the run's own deadline.
Control(p, r) ==
  /\ worker[p][r].pc = "control"
  /\ IF flag[r] THEN EndWith(p, r, "controlEvent", "CANCELLED")
     ELSE \/ Goto(p, r, "tool")
          \/ EndWith(p, r, "controlEvent", "TIMED_OUT")
  /\ UNCHANGED <<durable, life, found, sub, reap, cancel, history>>

\* Planner, tools and answer: another step, or the end of the run.
Tool(p, r) ==
  LET w == worker[p][r] IN
  /\ w.pc = "tool"
  /\ \/ /\ w.step + 1 < Steps
        /\ SetWorker(p, r, [w EXCEPT !.pc = "control", !.step = @ + 1])
     \/ \E out \in Outcomes : EndWith(p, r, "result", out)
  /\ UNCHANGED <<durable, life, found, sub, reap, cancel, history>>

\* _emit_failure_event: run_cancelled and run_timed_out are terminal events,
\* appended before the snapshot is saved.
ControlEvent(p, r) ==
  /\ worker[p][r].pc = "controlEvent"
  /\ AppendTerminal(r, worker[p][r].out)
  /\ Goto(p, r, "result")
  /\ UNCHANGED <<job, snap, flag, life, found, sub, reap, cancel, history>>

\* The last event of _evidence_and_finalize; a waiting run ends with a
\* non-terminal one.
Event(p, r) ==
  LET w == worker[p][r] IN
  /\ w.pc = "event"
  /\ IF w.out = "WAITING_FOR_DECISION" THEN UNCHANGED ended
     ELSE AppendTerminal(r, w.out)
  /\ Goto(p, r, "again")
  /\ UNCHANGED <<job, snap, flag, life, found, sub, reap, cancel, history>>

\* finalize_job, the read: only the recorded owner goes on.
Finalize(p, r) ==
  /\ worker[p][r].pc = "finalize"
  /\ IF job[r].owner = p THEN Goto(p, r, "finish")
     ELSE SetWorker(p, r, IdleWorker)
  /\ UNCHANGED <<durable, life, found, sub, reap, cancel, history>>

\* finalize_job, the update.
Finish(p, r) ==
  /\ worker[p][r].pc = "finish"
  /\ FinishJob(r, p, worker[p][r].out)
  /\ SetWorker(p, r, IdleWorker)
  /\ UNCHANGED <<snap, flag, ended, life, found, sub, reap, cancel,
                 history>>

\* Where an exception leaves the run provider for the handler of run_job: before
\* the try of Runtime.run (runtime context, concurrency limit, the first save), in
\* the save that its own handler repeats, and after it has returned (artifact
\* export, the saves and reads there).  What Runtime.run catches itself is a
\* FAILED outcome of the run.
Caught == {"queued", "plan", "result", "again", "finalize", "finish"}

\* Where it leaves run_job: the reads in front of its try, the read and the save of
\* its handler and the update behind it.
Uncaught == {"queued", "failGet", "fail", "failFinish"}

\* An exception in a worker thread.  _append_event swallows its own; one that
\* nobody catches ends the thread and leaves the job as it is.
Raise(p, r) ==
  LET w == worker[p][r] IN
  /\ Disrupt
  /\ \/ w.pc \in Caught /\ Goto(p, r, "failGet")
     \/ w.pc = "failEvent" /\ Goto(p, r, "failFinish")
     \/ w.pc \in Uncaught /\ Goto(p, r, "lost")
  /\ UNCHANGED <<durable, life, found, sub, reap, cancel, used>>

\* Mutant of FailGet: the handler keeps the status of an unfinished snapshot.
FailGetKeep(p, r) ==
  /\ worker[p][r].pc = "failGet"
  /\ EndWith(p, r, "fail", IF snap[r] = Absent THEN "FAILED" ELSE snap[r])
  /\ UNCHANGED <<durable, life, found, sub, reap, cancel, history>>

\* The handler of run_job: read the snapshot; an unfinished one becomes FAILED,
\* a finished one keeps its status.
FailGet(p, r) ==
  /\ worker[p][r].pc = "failGet"
  /\ EndWith(p, r, "fail",
             IF snap[r] \in {Absent, "PLANNING"} THEN "FAILED" ELSE snap[r])
  /\ UNCHANGED <<durable, life, found, sub, reap, cancel, history>>

FailEvent(p, r) ==
  /\ worker[p][r].pc = "failEvent"
  /\ AppendTerminal(r, "FAILED")
  /\ Goto(p, r, "failFinish")
  /\ UNCHANGED <<job, snap, flag, life, found, sub, reap, cancel, history>>

\* Mutant of FailFinish: the handler ends without closing the job.
FailFinishOpen(p, r) ==
  /\ worker[p][r].pc = "failFinish"
  /\ SetWorker(p, r, IdleWorker)
  /\ UNCHANGED <<durable, life, found, sub, reap, cancel, history>>

\* The handler closes the job as FAILED whatever the snapshot says.
FailFinish(p, r) ==
  /\ worker[p][r].pc = "failFinish"
  /\ FinishJob(r, p, "FAILED")
  /\ SetWorker(p, r, IdleWorker)
  /\ UNCHANGED <<snap, flag, ended, life, found, sub, reap, cancel,
                 history>>

WorkerStep(p, r) ==
  \/ Begin(p, r) \/ SaveFence(p, r) \/ SaveWrite(p, r) \/ Control(p, r)
  \/ Tool(p, r) \/ ControlEvent(p, r) \/ Event(p, r) \/ Finalize(p, r)
  \/ Finish(p, r) \/ FailGet(p, r) \/ FailEvent(p, r) \/ FailFinish(p, r)

-----------------------------------------------------------------------------
(* The timeout reaper: ServiceState._reaper_loop and expire_job.           *)

\* Mutant of Expire: only a job that has an owner can time out.
ExpireOwned(p, r) ==
  /\ ReaperOn
  /\ life[p] = "up"
  /\ reap[p].pc = "idle"
  /\ job[r].status \in ActiveStatus
  /\ job[r].owner # None
  /\ job' = [job EXCEPT ![r].status = "TIMED_OUT"]
  /\ flag' = [flag EXCEPT ![r] = TRUE]
  /\ reap' = [reap EXCEPT ![p] = [pc |-> "get", run |-> r]]
  /\ UNCHANGED <<snap, ended, life, found, sub, worker, cancel, history>>

\* expire_async_job: one transaction closes the job and requests a cancel.
\* Time is not modelled: any active job may be older than the limit.
Expire(p, r) ==
  /\ ReaperOn
  /\ life[p] = "up"
  /\ reap[p].pc = "idle"
  /\ job[r].status \in ActiveStatus
  /\ job' = [job EXCEPT ![r].status = "TIMED_OUT"]
  /\ flag' = [flag EXCEPT ![r] = TRUE]
  /\ reap' = [reap EXCEPT ![p] = [pc |-> "get", run |-> r]]
  /\ UNCHANGED <<snap, ended, life, found, sub, worker, cancel, history>>

\* A finished snapshot is left alone, and then no event is appended either.
ReapGet(p) ==
  /\ reap[p].pc = "get"
  /\ reap' = [reap EXCEPT ![p] =
                IF snap[reap[p].run] \in TerminalStatus THEN IdleReaper
                ELSE [@ EXCEPT !.pc = "save"]]
  /\ UNCHANGED <<durable, life, found, sub, worker, cancel, history>>

\* The TIMED_OUT snapshot agrees with the job row, so its fence is open.
ReapSave(p) ==
  /\ reap[p].pc = "save"
  /\ IF Fenced(job[reap[p].run].status, "TIMED_OUT") THEN UNCHANGED snap
     ELSE snap' = [snap EXCEPT ![reap[p].run] = "TIMED_OUT"]
  /\ reap' = [reap EXCEPT ![p].pc = "event"]
  /\ UNCHANGED <<job, flag, ended, life, found, sub, worker, cancel,
                 history>>

ReapEvent(p) ==
  /\ reap[p].pc = "event"
  /\ AppendTerminal(reap[p].run, "TIMED_OUT")
  /\ reap' = [reap EXCEPT ![p] = IdleReaper]
  /\ UNCHANGED <<job, snap, flag, life, found, sub, worker, cancel,
                 history>>

\* _reaper_loop swallows every exception of expire_job.
ReapFail(p) ==
  /\ reap[p].pc # "idle"
  /\ Disrupt
  /\ reap' = [reap EXCEPT ![p] = IdleReaper]
  /\ UNCHANGED <<durable, life, found, sub, worker, cancel, used>>

ReapStep(p) == ReapGet(p) \/ ReapSave(p) \/ ReapEvent(p)

-----------------------------------------------------------------------------
\* An open job that no thread of a serving process has in hand: an exception has
\* ended its worker, or its submission between insert and claim.
Stranded(r) ==
  /\ job[r].status \in ActiveStatus
  /\ \E p \in Procs :
       /\ life[p] = "up"
       /\ \/ job[r].owner = p /\ worker[p][r].pc = "lost"
          \/ job[r].owner = None /\ sub[p] # r

\* Every job is closed or stranded and clients may leave it at that: the only
\* states in which TLC is to accept that nothing else can happen.
Quiet ==
  /\ \A r \in Runs : job[r].status \in TerminalStatus \/ Stranded(r)
  /\ UNCHANGED vars

Next ==
  \/ \E p \in Procs :
       \/ Start(p) \/ Serve(p) \/ Close(p) \/ Exit(p) \/ Crash(p)
       \/ \E o \in found[p] : Recover(p, o)
       \/ RecoverRaise(p) \/ ClaimRaise(p)
       \/ Claim(p) \/ ReapStep(p) \/ ReapFail(p)
       \/ \E r \in Runs :
            \/ Submit(p, r) \/ CancelReserve(p, r)
            \/ WorkerStep(p, r) \/ Raise(p, r) \/ Expire(p, r)
  \/ \E r \in Runs : CancelStep(r)
  \/ Quiet

Spec == Init /\ [][Next]_vars

\* Threads of a live process keep running, a starting process gets through its
\* recovery, a supervisor restarts the service, the reaper wakes up again and
\* again.  Nothing is assumed of clients, and nothing of failures.
Fairness ==
  /\ WF_vars(\E p \in Procs : Start(p))
  /\ \A p \in Procs :
       /\ WF_vars(Serve(p)) /\ WF_vars(Exit(p)) /\ WF_vars(Claim(p))
       /\ WF_vars(\E o \in found[p] : Recover(p, o))
       /\ WF_vars(ReapStep(p))
       /\ \A r \in Runs : WF_vars(WorkerStep(p, r))
  /\ \A r \in Runs :
       WF_vars(CancelStep(r)) /\ WF_vars(\E p \in Procs : Expire(p, r))

FairSpec == Spec /\ Fairness

-----------------------------------------------------------------------------
(* Properties.                                                             *)

\* Every variable keeps its type.
TypeOK ==
  /\ job \in [Runs -> [status : JobStatus, owner : Procs \cup {None}]]
  /\ snap \in [Runs -> SnapStatus]
  /\ flag \in [Runs -> BOOLEAN]
  /\ ended \in [Runs -> EventStatus]
  /\ life \in [Procs -> {"down", "recovering", "up", "closing"}]
  /\ found \in [Procs -> SUBSET Orphan]
  /\ sub \in [Procs -> Runs \cup {None}]
  /\ worker \in [Procs -> [Runs -> Worker]]
  /\ reap \in [Procs -> Reaper]
  /\ cancel \in [Runs -> Canceller]
  /\ used \subseteq Procs
  /\ disruptions \in Nat

\* A run is shown as CANCELLED only when a client asked for that.  The reaper
\* sets the same cancel flag to stop a worker it has timed out; the worker then
\* ends its run as CANCELLED and only the fence keeps that out of the result.
CancelledOnlyOnRequest ==
  \A r \in Runs : "CANCELLED" \in {snap[r], job[r].status} => Asked(r)

\* Why it holds, as an inductive invariant.  A cancel flag nobody asked for was
\* set by the reaper, so the job row is TIMED_OUT; a worker that ends CANCELLED
\* has read the flag; and its save goes past the fence only without that row.
FlagHasCause ==
  \A r \in Runs : flag[r] /\ ~Asked(r) => job[r].status = "TIMED_OUT"

CancelHasCause(w, r) ==
  /\ w.passed => w.pc \in SavePoint
  /\ w.out = "CANCELLED" /\ ~Asked(r) => job[r].status = "TIMED_OUT"
  /\ w.passed /\ Saved(w) = "CANCELLED" => Asked(r)

CancelInv ==
  /\ CancelledOnlyOnRequest
  /\ FlagHasCause
  /\ \A p \in Procs, r \in Runs : CancelHasCause(worker[p][r], r)

\* A job that a serving process owns has a thread that is to close it, or had one
\* that an exception outside the reach of run_job's handler has ended: no
\* interleaving of claim, recovery, crash and finish strands it otherwise.
OwnedJobHasWorker ==
  \A p \in Procs, r \in Runs :
    /\ life[p] \in {"recovering", "up"}
    /\ job[r].status \in ActiveStatus
    /\ job[r].owner = p
    => worker[p][r].pc # "idle"

\* When a worker has closed its job and no client has interfered, the result a
\* client polls is the outcome the job was closed with, or some other terminal
\* result if an exception closed the job.
PublishedWith(r) ==
  /\ snap[r] \in TerminalStatus
  /\ job[r].status # "FAILED" => snap[r] = job[r].status

ClosedJobIsPublished ==
  \A r \in Runs :
    job[r].status \in TerminalStatus \ {"TIMED_OUT"} /\ ~Asked(r) => PublishedWith(r)

\* The first terminal status of a job is its last: no late worker, cancel,
\* recovery or reaper changes a job row that is closed.
TerminalJobIsFinal ==
  [][\A r \in Runs : job[r].status \in TerminalStatus => job'[r] = job[r]]_vars

\* The job table keeps the promises of JobLedger.
Ledger == INSTANCE JobLedger
            WITH status <- [r \in Runs |-> job[r].status],
                 owner <- [r \in Runs |-> job[r].owner],
                 alive <- {p \in Procs : Alive(p)}

LedgerSpec == Ledger!Spec

\* Why it does while one process is alive at a time, as an inductive invariant:
\* a cancel flag, and a worker that ends CANCELLED on the strength of it, have
\* left their mark in the job row; threads belong to live processes.
CancelRecorded(r) == job[r].status \in TerminalStatus \cup {"CANCEL_REQUESTED"}

\* The places of a worker that carries the final outcome of its run.
Ending == {"controlEvent", "result", "event", "again", "finalize", "finish"}

OneAlive == \A p, q \in Procs : Alive(p) /\ Alive(q) => p = q

FlagRecorded == \A r \in Runs : flag[r] => CancelRecorded(r)

SubmitterAlive == \A p \in Procs : sub[p] # None => Alive(p)

WorkerRecorded(w, p, r) ==
  /\ w.pc # "idle" => Alive(p)
  /\ w.pc \in Ending =>
       w.out \in TerminalStatus /\ (w.out = "CANCELLED" => CancelRecorded(r))

AskedKnown == \A r \in Runs : job[r].status = Absent => cancel[r] = NoCancel

AbsentUnowned == \A r \in Runs : job[r].status = Absent => job[r].owner = None

LedgerInv ==
  /\ AbsentUnowned /\ AskedKnown /\ OneAlive /\ FlagRecorded /\ SubmitterAlive
  /\ \A p \in Procs, r \in Runs : WorkerRecorded(worker[p][r], p, r)

\* Why an owned job has its worker, as an inductive invariant, where pids are not
\* reused: an owner is a process that has been started, so no process starts as
\* the owner of anything.
OwnedInv ==
  /\ OwnedJobHasWorker
  /\ SubmitterAlive
  /\ \A p \in Procs : Alive(p) => p \in used
  /\ \A r \in Runs : job[r].owner \in used \cup {None}

\* Why closed jobs are published while one process is alive at a time, as an
\* inductive invariant.  A job with a worker is active or timed out, and a
\* worker that goes to close it has stored what it closes it with.
WorkerPublishes(w, r) ==
  /\ w.pc # "idle" => job[r].status \in ActiveStatus \cup {"TIMED_OUT"}
  /\ w.pc = "fail" => w.out \in TerminalStatus
  /\ job[r].status \in ActiveStatus /\ ~Asked(r) =>
       /\ w.pc \in {"event", "again", "finalize", "finish"} => snap[r] = w.out
       /\ w.pc \in {"failEvent", "failFinish"} => snap[r] \in TerminalStatus

PublishInv ==
  /\ ClosedJobIsPublished
  /\ \A p \in Procs, r \in Runs : WorkerPublishes(worker[p][r], r)
  /\ \A p \in Procs :
       reap[p].pc # "idle" => reap[p].run \in Runs /\ job[reap[p].run].status = "TIMED_OUT"

\* With the reaper, every accepted run is closed in the end: by a worker, by the
\* worker that recovers it after a crash, or by the reaper.
AcceptedRunCloses ==
  \A r \in Runs : job[r].status # Absent ~> job[r].status \in TerminalStatus

\* Without it, workers and recovery close every accepted run, unless an exception
\* that nobody catches strands it; and the next process closes a run that the last
\* one has left behind, stranded or not, unless its own worker is lost as well.
ClosedOrStranded ==
  \A r \in Runs :
    /\ job[r].status # Absent ~> job[r].status \in TerminalStatus \/ Stranded(r)
    /\ job[r].status # Absent /\ (\A p \in Procs : ~Alive(p))
         ~> job[r].status \in TerminalStatus \/ \E p \in Procs : worker[p][r].pc = "lost"

-----------------------------------------------------------------------------
(* What the documents say and the code does not do; see the README.        *)

\* A late worker does not replace the result of a run the reaper timed out.
LateWorkerNeverOverwrites ==
  [][\A r \in Runs :
       job[r].status = "TIMED_OUT" /\ snap[r] = "TIMED_OUT"
         => snap'[r] = "TIMED_OUT"]_vars

\* Once the reaper is through with a run, its result is a terminal one.
TimedOutIsPublished ==
  \A r \in Runs :
    job[r].status = "TIMED_OUT" /\ (\A p \in Procs : reap[p].run # r)
      => snap[r] \in TerminalStatus

=============================================================================
