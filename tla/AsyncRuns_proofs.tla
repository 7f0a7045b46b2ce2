------------------------- MODULE AsyncRuns_proofs --------------------------
(***************************************************************************)
(* Proofs about AsyncRuns that hold for any number of runs, processes,     *)
(* steps and disruptions.                                                  *)
(***************************************************************************)
EXTENDS AsyncRuns, TLAPS

USE NoneAssumption, OutcomesAssumption, BoundsAssumption

-----------------------------------------------------------------------------
(* Types.                                                                  *)

\* Storing a well-typed record keeps the worker table well-typed.
LEMMA SetWorkerType ==
  ASSUME TypeOK, NEW p \in Procs, NEW r \in Runs, NEW w \in Worker,
         SetWorker(p, r, w)
  PROVE  worker' \in [Procs -> [Runs -> Worker]]
BY DEF TypeOK, SetWorker

\* A thread that moves on keeps a well-typed record.
LEMMA GotoType ==
  ASSUME TypeOK, NEW p \in Procs, NEW r \in Runs, NEW pc \in WorkerPc,
         Goto(p, r, pc)
  PROVE  worker' \in [Procs -> [Runs -> Worker]]
<1>1. worker[p][r] \in Worker
  BY DEF TypeOK
<1>2. [worker[p][r] EXCEPT !.pc = pc, !.passed = FALSE] \in Worker
  BY <1>1 DEF Worker
<1> QED BY <1>2, SetWorkerType DEF Goto

LEMMA EndWithType ==
  ASSUME TypeOK, NEW p \in Procs, NEW r \in Runs, NEW pc \in WorkerPc,
         NEW out \in EventStatus, EndWith(p, r, pc, out)
  PROVE  worker' \in [Procs -> [Runs -> Worker]]
<1>1. worker[p][r] \in Worker
  BY DEF TypeOK
<1>2. [worker[p][r] EXCEPT !.pc = pc, !.out = out] \in Worker
  BY <1>1 DEF Worker
<1> QED BY <1>2, SetWorkerType DEF EndWith

\* An exception takes a thread to the handler, past its own event, or away.
LEMMA RaiseMoves ==
  ASSUME NEW p \in Procs, NEW r \in Runs, Raise(p, r)
  PROVE  /\ worker[p][r].pc \notin {"idle", "lost"}
         /\ \E pc \in {"failGet", "failFinish", "lost"} : Goto(p, r, pc)
BY DEF Raise, Caught, Uncaught

\* A fresh worker record is well-typed.
LEMMA FreshWorkerType ==
  /\ IdleWorker \in Worker
  /\ QueuedWorker \in Worker
<1>1. IdleWorker \in Worker
  BY DEF IdleWorker, Worker, WorkerPc, EventStatus
<1>2. [IdleWorker EXCEPT !.pc = "queued"] \in Worker
  BY <1>1 DEF Worker, WorkerPc
<1> QED BY <1>1, <1>2 DEF QueuedWorker

\* The row a claim or a finish leaves is a row.
LEMMA ClaimedByType ==
  ASSUME NEW row \in [status : JobStatus, owner : Procs \cup {None}],
         NEW p \in Procs
  PROVE  ClaimedBy(row, p) \in [status : JobStatus, owner : Procs \cup {None}]
BY DEF ClaimedBy, JobStatus, ActiveStatus

LEMMA ClaimType ==
  ASSUME TypeOK, NEW r \in Runs, NEW p \in Procs,
         job' = [job EXCEPT ![r] = ClaimedBy(@, p)]
  PROVE  job' \in [Runs -> [status : JobStatus, owner : Procs \cup {None}]]
<1>1. job[r] \in [status : JobStatus, owner : Procs \cup {None}]
  BY DEF TypeOK
<1>2. ClaimedBy(job[r], p) \in [status : JobStatus, owner : Procs \cup {None}]
  BY <1>1, ClaimedByType
<1> QED BY <1>2 DEF TypeOK

\* Storing a status in a row leaves a row.
LEMMA StatusType ==
  ASSUME TypeOK, NEW r \in Runs, NEW s \in JobStatus,
         job' = [job EXCEPT ![r].status = s]
  PROVE  job' \in [Runs -> [status : JobStatus, owner : Procs \cup {None}]]
<1>1. job[r] \in [status : JobStatus, owner : Procs \cup {None}]
  BY DEF TypeOK
<1>2. [job[r] EXCEPT !.status = s] \in [status : JobStatus, owner : Procs \cup {None}]
  BY <1>1
<1>3. job' = [job EXCEPT ![r] = [job[r] EXCEPT !.status = s]]
  OBVIOUS
<1> QED BY <1>2, <1>3 DEF TypeOK

LEMMA FinishJobType ==
  ASSUME TypeOK, NEW r \in Runs, NEW p \in Procs, NEW status \in JobStatus,
         FinishJob(r, p, status)
  PROVE  job' \in [Runs -> [status : JobStatus, owner : Procs \cup {None}]]
<1> DEFINE s == IF job[r].status \in ActiveStatus /\ job[r].owner = p THEN status
                ELSE job[r].status
<1>1. s \in JobStatus
  BY DEF TypeOK
<1>2. job' = [job EXCEPT ![r].status = s]
  BY DEF FinishJob
<1> HIDE DEF s
<1> QED BY <1>1, <1>2, StatusType

LEMMA AppendTerminalType ==
  ASSUME TypeOK, NEW r \in Runs, NEW status \in EventStatus,
         AppendTerminal(r, status)
  PROVE  ended' \in [Runs -> EventStatus]
BY DEF TypeOK, AppendTerminal

\* Writing a snapshot status keeps the snapshots well-typed.
LEMMA SavedType ==
  ASSUME NEW w \in Worker, w.pc \in SavePoint
  PROVE  /\ Saved(w) \in SnapStatus
         /\ AfterSave[w.pc] \in WorkerPc
<1>1. Saved(w) \in SnapStatus
  BY DEF Saved, SnapStatus, Worker, EventStatus
<1>2. AfterSave[w.pc] \in WorkerPc
  BY DEF AfterSave, SavePoint, WorkerPc
<1> QED BY <1>1, <1>2

\* A step of a worker thread keeps every type.
LEMMA WorkerStepType ==
  ASSUME TypeOK, NEW p \in Procs, NEW r \in Runs, WorkerStep(p, r)
  PROVE  TypeOK'
<1> USE DEF durable, history
<1> DEFINE w == worker[p][r]
<1>w. w \in Worker
  BY DEF TypeOK
<1>1. CASE Begin(p, r)
  <2>1. worker' \in [Procs -> [Runs -> Worker]]
    BY <1>1, GotoType DEF Begin, WorkerPc, SavePoint
  <2> QED BY <1>1, <2>1 DEF TypeOK, Begin
<1>2. CASE SaveFence(p, r)
  <2>1. AfterSave[w.pc] \in WorkerPc
    BY <1>2, <1>w, SavedType DEF SaveFence
  <2>2. [w EXCEPT !.passed = TRUE] \in Worker
    BY <1>w DEF Worker
  <2>3. worker' \in [Procs -> [Runs -> Worker]]
    BY <1>2, <2>1, <2>2, GotoType, SetWorkerType DEF SaveFence
  <2> QED BY <1>2, <2>3 DEF TypeOK, SaveFence
<1>3. CASE SaveWrite(p, r)
  <2>1. Saved(w) \in SnapStatus /\ AfterSave[w.pc] \in WorkerPc
    BY <1>3, <1>w, SavedType DEF SaveWrite
  <2>2. worker' \in [Procs -> [Runs -> Worker]]
    BY <1>3, <2>1, GotoType DEF SaveWrite
  <2>3. snap' \in [Runs -> SnapStatus]
    BY <1>3, <2>1 DEF TypeOK, SaveWrite
  <2> QED BY <1>3, <2>2, <2>3 DEF TypeOK, SaveWrite
<1>4. CASE Control(p, r)
  <2>1. worker' \in [Procs -> [Runs -> Worker]]
    BY <1>4, GotoType, EndWithType
       DEF Control, WorkerPc, EventStatus, TerminalStatus
  <2> QED BY <1>4, <2>1 DEF TypeOK, Control
<1>5. CASE Tool(p, r)
  <2>1. ASSUME w.step + 1 < Steps
        PROVE  [w EXCEPT !.pc = "control", !.step = @ + 1] \in Worker
    <3>1. w.step + 1 \in 0..Steps
      BY <1>w, <2>1, BoundsAssumption DEF Worker
    <3> HIDE DEF w
    <3>2. [w EXCEPT !.pc = "control", !.step = w.step + 1] \in Worker
      BY <1>w, <3>1 DEF Worker, WorkerPc
    <3> QED BY <3>2
  <2>2. ASSUME NEW out \in Outcomes PROVE out \in EventStatus
    BY OutcomesAssumption DEF EventStatus, NaturalOutcome
  <2>3. worker' \in [Procs -> [Runs -> Worker]]
    BY <1>5, <2>1, <2>2, SetWorkerType, EndWithType DEF Tool, WorkerPc, SavePoint
  <2> QED BY <1>5, <2>3 DEF TypeOK, Tool
<1>6. CASE ControlEvent(p, r)
  <2>1. worker' \in [Procs -> [Runs -> Worker]]
    BY <1>6, GotoType DEF ControlEvent, WorkerPc, SavePoint
  <2>2. ended' \in [Runs -> EventStatus]
    BY <1>6, <1>w, AppendTerminalType DEF ControlEvent, Worker
  <2> QED BY <1>6, <2>1, <2>2 DEF TypeOK, ControlEvent
<1>7. CASE Event(p, r)
  <2>1. worker' \in [Procs -> [Runs -> Worker]]
    BY <1>7, GotoType DEF Event, WorkerPc, SavePoint
  <2>2. ended' \in [Runs -> EventStatus]
    BY <1>7, <1>w, AppendTerminalType DEF Event, Worker, TypeOK
  <2> QED BY <1>7, <2>1, <2>2 DEF TypeOK, Event
<1>8. CASE Finalize(p, r)
  <2>1. worker' \in [Procs -> [Runs -> Worker]]
    BY <1>8, GotoType, SetWorkerType, FreshWorkerType DEF Finalize, WorkerPc
  <2> QED BY <1>8, <2>1 DEF TypeOK, Finalize
<1>9. CASE Finish(p, r)
  <2>1. worker' \in [Procs -> [Runs -> Worker]]
    BY <1>9, SetWorkerType, FreshWorkerType DEF Finish
  <2>2. w.out \in JobStatus
    BY <1>w DEF Worker, EventStatus, JobStatus
  <2>3. job' \in [Runs -> [status : JobStatus, owner : Procs \cup {None}]]
    BY <1>9, <2>2, FinishJobType DEF Finish
  <2> QED BY <1>9, <2>1, <2>3 DEF TypeOK, Finish
<1>10. CASE FailGet(p, r)
  <2>1. (IF snap[r] \in {Absent, "PLANNING"} THEN "FAILED" ELSE snap[r])
          \in EventStatus
    BY DEF TypeOK, SnapStatus, EventStatus, TerminalStatus
  <2>2. worker' \in [Procs -> [Runs -> Worker]]
    BY <1>10, <2>1, EndWithType DEF FailGet, WorkerPc, SavePoint
  <2> QED BY <1>10, <2>2 DEF TypeOK, FailGet
<1>11. CASE FailEvent(p, r)
  <2>1. worker' \in [Procs -> [Runs -> Worker]]
    BY <1>11, GotoType DEF FailEvent, WorkerPc
  <2>2. ended' \in [Runs -> EventStatus]
    BY <1>11, AppendTerminalType DEF FailEvent, EventStatus, TerminalStatus
  <2> QED BY <1>11, <2>1, <2>2 DEF TypeOK, FailEvent
<1>12. CASE FailFinish(p, r)
  <2>1. worker' \in [Procs -> [Runs -> Worker]]
    BY <1>12, SetWorkerType, FreshWorkerType DEF FailFinish
  <2>2. job' \in [Runs -> [status : JobStatus, owner : Procs \cup {None}]]
    BY <1>12, FinishJobType DEF FailFinish, JobStatus, TerminalStatus
  <2> QED BY <1>12, <2>1, <2>2 DEF TypeOK, FailFinish
<1> QED BY <1>1, <1>2, <1>3, <1>4, <1>5, <1>6, <1>7, <1>8, <1>9, <1>10, <1>11,
           <1>12 DEF WorkerStep

\* The records a cancel handler begins and ends with are well-typed.
LEMMA CancelOverType == NoCancel \in Canceller /\ CancelOver \in Canceller
<1>1. NoCancel \in Canceller
  BY DEF NoCancel, Canceller, SnapStatus
<1>2. [NoCancel EXCEPT !.pc = "done"] \in Canceller
  BY <1>1 DEF Canceller
<1> QED BY <1>1, <1>2 DEF CancelOver

\* Moving a cancel handler on, with what it has read, keeps its table well-typed.
LEMMA CancelMoveType ==
  ASSUME TypeOK, NEW r \in Runs, NEW c \in Canceller,
         cancel' = [cancel EXCEPT ![r] = c]
  PROVE  cancel' \in [Runs -> Canceller]
BY DEF TypeOK

\* A step of a cancel handler keeps every type.
LEMMA CancelStepType ==
  ASSUME TypeOK, NEW r \in Runs, CancelStep(r)
  PROVE  TypeOK'
<1> USE DEF durable, history
<1> PICK c : c = cancel[r]
  OBVIOUS
<1>c. c \in Canceller
  BY DEF TypeOK
<1>m. ASSUME NEW pc \in {"request", "fence", "write", "get", "keepFence", "keepWrite"}
      PROVE  [c EXCEPT !.pc = pc] \in Canceller
  BY <1>c DEF Canceller
<1>1. CASE CancelRead(r)
  <2>1. PICK d : d = CASE snap[r] = "PLANNING" -> [c EXCEPT !.pc = "request"]
                      [] snap[r] = "WAITING_FOR_DECISION" -> [c EXCEPT !.pc = "fence"]
                      [] OTHER -> CancelOver
    OBVIOUS
  <2>2. d \in Canceller
    BY <1>m, <2>1, CancelOverType
  <2>3. cancel' = [cancel EXCEPT ![r] = d]
    BY <1>1, <2>1 DEF CancelRead
  <2>4. cancel' \in [Runs -> Canceller]
    BY <2>2, <2>3, CancelMoveType
  <2> QED BY <1>1, <2>4 DEF TypeOK, CancelRead
<1>2. CASE CancelRequest(r)
  <2> DEFINE s == IF job[r].status \in {"QUEUED", "RUNNING"} THEN "CANCEL_REQUESTED"
                  ELSE job[r].status
  <2>1. s \in JobStatus
    BY DEF TypeOK, JobStatus, ActiveStatus
  <2>2. job' = [job EXCEPT ![r].status = s]
    BY <1>2 DEF CancelRequest
  <2> HIDE DEF s
  <2>3. job' \in [Runs -> [status : JobStatus, owner : Procs \cup {None}]]
    BY <2>1, <2>2, StatusType
  <2>4. cancel' = [cancel EXCEPT ![r] = [c EXCEPT !.pc = "get"]]
    BY <1>2 DEF CancelRequest
  <2>5. cancel' \in [Runs -> Canceller]
    BY <1>m, <2>4, CancelMoveType
  <2> QED BY <1>2, <2>3, <2>5 DEF TypeOK, CancelRequest
<1>3. CASE CancelFence(r)
  <2>1. \/ cancel' = [cancel EXCEPT ![r] = [c EXCEPT !.pc = "get"]]
        \/ cancel' = [cancel EXCEPT ![r] = [c EXCEPT !.pc = "write"]]
    BY <1>3 DEF CancelFence
  <2>2. cancel' \in [Runs -> Canceller]
    BY <1>m, <2>1, CancelMoveType
  <2> QED BY <1>3, <2>2 DEF TypeOK, CancelFence
<1>4. CASE CancelWrite(r)
  <2>1. cancel' = [cancel EXCEPT ![r] = [c EXCEPT !.pc = "get"]]
    BY <1>4 DEF CancelWrite
  <2>2. cancel' \in [Runs -> Canceller]
    BY <1>m, <2>1, CancelMoveType
  <2>3. snap' \in [Runs -> SnapStatus]
    BY <1>4 DEF TypeOK, CancelWrite, SnapStatus, TerminalStatus
  <2> QED BY <1>4, <2>2, <2>3 DEF TypeOK, CancelWrite
<1>5. CASE CancelGet(r)
  <2>1. PICK d : d = [c EXCEPT !.pc = "keepFence", !.seen = snap[r]]
    OBVIOUS
  <2>2. snap[r] \in SnapStatus
    BY DEF TypeOK
  <2>3. d \in Canceller
    BY <1>c, <2>1, <2>2 DEF Canceller
  <2>4. cancel' = [cancel EXCEPT ![r] = d]
    BY <1>5, <2>1 DEF CancelGet
  <2>5. cancel' \in [Runs -> Canceller]
    BY <2>3, <2>4, CancelMoveType
  <2> QED BY <1>5, <2>5 DEF TypeOK, CancelGet
<1>6. CASE CancelKeepFence(r)
  <2>1. \/ cancel' = [cancel EXCEPT ![r] = CancelOver]
        \/ cancel' = [cancel EXCEPT ![r] = [c EXCEPT !.pc = "keepWrite"]]
    BY <1>6 DEF CancelKeepFence
  <2>2. cancel' \in [Runs -> Canceller]
    BY <1>m, <2>1, CancelMoveType, CancelOverType
  <2> QED BY <1>6, <2>2 DEF TypeOK, CancelKeepFence
<1>7. CASE CancelKeepWrite(r)
  <2>1. cancel' \in [Runs -> Canceller]
    BY <1>7, CancelMoveType, CancelOverType DEF CancelKeepWrite
  <2>2. snap' = [snap EXCEPT ![r] = c.seen] /\ c.seen \in SnapStatus
    BY <1>7, <1>c DEF CancelKeepWrite, Canceller
  <2> QED BY <1>7, <2>1, <2>2 DEF TypeOK, CancelKeepWrite
<1> QED BY <1>1, <1>2, <1>3, <1>4, <1>5, <1>6, <1>7 DEF CancelStep

\* Every step of the system keeps every type.
THEOREM TypeStep == TypeOK /\ [Next]_vars => TypeOK'
<1> SUFFICES ASSUME TypeOK, [Next]_vars PROVE TypeOK'
  OBVIOUS
<1> USE DEF durable, threads, history
<1>1. ASSUME NEW p \in Procs, Start(p) PROVE TypeOK'
  <2>1. Recoverable(p) \subseteq Orphan
    BY DEF TypeOK, Recoverable, Orphan
  <2> QED BY <1>1, <2>1 DEF TypeOK, Start
<1>2. ASSUME NEW p \in Procs, Serve(p) PROVE TypeOK'
  BY <1>2 DEF TypeOK, Serve
<1>3. ASSUME NEW p \in Procs, Close(p) PROVE TypeOK'
  BY <1>3 DEF TypeOK, Close, Disrupt
<1>4. ASSUME NEW p \in Procs, Exit(p) PROVE TypeOK'
  <2>1. [r \in Runs |-> IdleWorker] \in [Runs -> Worker]
    BY FreshWorkerType
  <2> QED BY <1>4, <2>1 DEF TypeOK, Exit
<1>5. ASSUME NEW p \in Procs, Crash(p) PROVE TypeOK'
  <2>1. [r \in Runs |-> IdleWorker] \in [Runs -> Worker]
    BY FreshWorkerType
  <2>2. IdleReaper \in Reaper
    BY DEF IdleReaper, Reaper
  <2> QED BY <1>5, <2>1, <2>2, CancelOverType DEF TypeOK, Crash, Disrupt
<1>6. ASSUME NEW p \in Procs, NEW o \in found[p], Recover(p, o) PROVE TypeOK'
  <2>1. o \in Orphan /\ o.run \in Runs
    BY DEF TypeOK, Orphan
  <2>2. job' \in [Runs -> [status : JobStatus, owner : Procs \cup {None}]]
    <3>1. CASE job' = job
      BY <3>1 DEF TypeOK
    <3>2. CASE job' = [job EXCEPT ![o.run] = ClaimedBy(@, p)]
      BY <2>1, <3>2, ClaimType
    <3> QED BY <1>6, <3>1, <3>2 DEF Recover
  <2>3. worker' \in [Procs -> [Runs -> Worker]]
    BY <1>6, <2>1, FreshWorkerType, SetWorkerType DEF TypeOK, Recover
  <2> QED BY <1>6, <2>2, <2>3 DEF TypeOK, Recover
<1>7. ASSUME NEW p \in Procs, Claim(p) PROVE TypeOK'
  <2>1. sub[p] \in Runs
    BY <1>7 DEF TypeOK, Claim
  <2>2. job' \in [Runs -> [status : JobStatus, owner : Procs \cup {None}]]
    <3>1. CASE job' = job
      BY <3>1 DEF TypeOK
    <3>2. CASE job' = [job EXCEPT ![sub[p]] = ClaimedBy(@, p)]
      BY <2>1, <3>2, ClaimType
    <3> QED BY <1>7, <3>1, <3>2 DEF Claim
  <2>3. worker' \in [Procs -> [Runs -> Worker]]
    BY <1>7, <2>1, FreshWorkerType, SetWorkerType DEF TypeOK, Claim
  <2> QED BY <1>7, <2>2, <2>3 DEF TypeOK, Claim
<1>8. ASSUME NEW p \in Procs, NEW r \in Runs, Submit(p, r) PROVE TypeOK'
  BY <1>8 DEF TypeOK, Submit, JobStatus, ActiveStatus, SnapStatus
<1>9. ASSUME NEW r \in Runs, CancelStep(r) PROVE TypeOK'
  BY <1>9, CancelStepType
<1>10. ASSUME NEW p \in Procs, NEW r \in Runs, CancelReserve(p, r) PROVE TypeOK'
  <2>1. [pc |-> "read", by |-> p, seen |-> Absent] \in Canceller
    BY DEF Canceller, SnapStatus
  <2> QED BY <1>10, <2>1 DEF TypeOK, CancelReserve
<1>11. CASE Quiet
  BY <1>11 DEF TypeOK, Quiet, vars
<1>12. ASSUME NEW p \in Procs, NEW r \in Runs, WorkerStep(p, r) PROVE TypeOK'
  BY <1>12, WorkerStepType
<1>13. ASSUME NEW p \in Procs, NEW r \in Runs, Raise(p, r) PROVE TypeOK'
  <2>1. worker' \in [Procs -> [Runs -> Worker]]
    BY <1>13, RaiseMoves, GotoType DEF WorkerPc
  <2> QED BY <1>13, <2>1 DEF TypeOK, Raise, Disrupt
<1>14. ASSUME NEW p \in Procs, NEW r \in Runs, Expire(p, r) PROVE TypeOK'
  <2>1. job' \in [Runs -> [status : JobStatus, owner : Procs \cup {None}]]
    BY <1>14, StatusType DEF Expire, JobStatus, TerminalStatus
  <2>2. reap' \in [Procs -> Reaper]
    BY <1>14 DEF TypeOK, Expire, Reaper
  <2> QED BY <1>14, <2>1, <2>2 DEF TypeOK, Expire
<1>15. ASSUME NEW p \in Procs, ReapStep(p) PROVE TypeOK'
  <2>1. CASE ReapGet(p)
    BY <2>1 DEF TypeOK, ReapGet, Reaper, IdleReaper
  <2>2. CASE ReapSave(p)
    <3>1. snap' \in [Runs -> SnapStatus]
      BY <2>2 DEF TypeOK, ReapSave, SnapStatus, TerminalStatus
    <3>2. reap[p] \in Reaper
      BY DEF TypeOK
    <3>3. [reap[p] EXCEPT !.pc = "event"] \in Reaper
      BY <3>2 DEF Reaper
    <3>4. reap' = [reap EXCEPT ![p] = [reap[p] EXCEPT !.pc = "event"]]
      BY <2>2 DEF ReapSave
    <3>5. reap' \in [Procs -> Reaper]
      BY <3>3, <3>4 DEF TypeOK
    <3> QED BY <2>2, <3>1, <3>5 DEF TypeOK, ReapSave
  <2>3. CASE ReapEvent(p)
    <3>1. ended' \in [Runs -> EventStatus]
      BY <2>3 DEF TypeOK, ReapEvent, AppendTerminal, EventStatus, TerminalStatus
    <3> QED BY <2>3, <3>1 DEF TypeOK, ReapEvent, Reaper, IdleReaper
  <2> QED BY <1>15, <2>1, <2>2, <2>3 DEF ReapStep
<1>16. ASSUME NEW p \in Procs, ReapFail(p) PROVE TypeOK'
  BY <1>16 DEF TypeOK, ReapFail, Reaper, IdleReaper, Disrupt
<1>17. CASE UNCHANGED vars
  BY <1>17 DEF TypeOK, vars
<1>18. ASSUME NEW p \in Procs, RecoverRaise(p) \/ ClaimRaise(p) PROVE TypeOK'
  <2>1. CASE RecoverRaise(p)
    BY <2>1 DEF TypeOK, RecoverRaise, Disrupt
  <2>2. CASE ClaimRaise(p)
    BY <2>2 DEF TypeOK, ClaimRaise, Disrupt
  <2> QED BY <1>18, <2>1, <2>2
<1> QED BY <1>1, <1>2, <1>3, <1>4, <1>5, <1>6, <1>7, <1>8, <1>9, <1>10, <1>11,
           <1>12, <1>13, <1>14, <1>15, <1>16, <1>17, <1>18 DEF Next

\* TypeOK is an invariant: the lifecycle never stores a value outside its type.
THEOREM TypeInvariant == Spec => []TypeOK
<1>1. Init => TypeOK
  <2> SUFFICES ASSUME Init PROVE TypeOK
    OBVIOUS
  <2>1. IdleReaper \in Reaper
    BY DEF IdleReaper, Reaper
  <2>2. job \in [Runs -> [status : JobStatus, owner : Procs \cup {None}]]
    BY DEF Init, JobStatus
  <2>3. worker \in [Procs -> [Runs -> Worker]]
    BY FreshWorkerType DEF Init
  <2> QED BY <2>1, <2>2, <2>3, CancelOverType DEF Init, TypeOK, SnapStatus, EventStatus
<1> QED BY <1>1, TypeStep, PTL DEF Spec

-----------------------------------------------------------------------------
(* Closed jobs.                                                            *)

\* A closed job is not active.
LEMMA Disjoint == \A s \in TerminalStatus : s \notin ActiveStatus /\ s # Absent
BY DEF TerminalStatus, ActiveStatus, Absent

\* No step changes the row of a closed job.
THEOREM TerminalStep ==
  ASSUME TypeOK, [Next]_vars, NEW r \in Runs, job[r].status \in TerminalStatus
  PROVE  job'[r] = job[r]
<1> USE DEF durable, threads, history
<1>a. job[r].status \notin ActiveStatus /\ job[r].status # Absent
  BY Disjoint
<1>b. job[r].status \notin {"QUEUED", "RUNNING"}
  BY <1>a DEF ActiveStatus
<1>c. job \in [Runs -> [status : JobStatus, owner : Procs \cup {None}]]
  BY DEF TypeOK
<1>1. ASSUME NEW p \in Procs, NEW o \in found[p], Recover(p, o) PROVE job'[r] = job[r]
  <2>1. o.run \in Runs
    BY DEF TypeOK, Orphan
  <2> QED BY <1>1, <1>a, <1>c, <2>1 DEF Recover, ClaimableOrphan
<1>2. ASSUME NEW p \in Procs, Claim(p) PROVE job'[r] = job[r]
  BY <1>2, <1>a, <1>c DEF Claim, ClaimableNew
<1>3. ASSUME NEW p \in Procs, NEW s \in Runs, Submit(p, s) PROVE job'[r] = job[r]
  BY <1>3, <1>a, <1>c DEF Submit
<1>4. ASSUME NEW s \in Runs, CancelStep(s) PROVE job'[r] = job[r]
  <2>1. CASE CancelRequest(s)
    BY <2>1, <1>b, <1>c DEF CancelRequest
  <2>2. CASE ~CancelRequest(s)
    BY <1>4, <2>2 DEF CancelStep, CancelRead, CancelFence, CancelWrite, CancelGet,
       CancelKeepFence, CancelKeepWrite
  <2> QED BY <2>1, <2>2
<1>5. ASSUME NEW p \in Procs, NEW s \in Runs, Expire(p, s) PROVE job'[r] = job[r]
  BY <1>5, <1>a, <1>c DEF Expire
<1>6. ASSUME NEW p \in Procs, NEW s \in Runs, WorkerStep(p, s) PROVE job'[r] = job[r]
  <2>1. ASSUME NEW t, FinishJob(s, p, t) PROVE job'[r] = job[r]
    BY <2>1, <1>a, <1>c DEF FinishJob
  <2> QED BY <1>6, <2>1 DEF WorkerStep, Begin, SaveFence, SaveWrite, Control, Tool,
             ControlEvent, Event, Finalize, Finish, FailGet, FailEvent, FailFinish
<1>7. ASSUME NEW p \in Procs, NEW s \in Runs,
             CancelReserve(p, s) \/ Raise(p, s)
      PROVE  job'[r] = job[r]
  BY <1>7 DEF CancelReserve, Raise
<1>8. ASSUME NEW p \in Procs,
             \/ Start(p) \/ Serve(p) \/ Close(p) \/ Exit(p) \/ Crash(p)
             \/ RecoverRaise(p) \/ ClaimRaise(p) \/ ReapStep(p) \/ ReapFail(p)
      PROVE  job'[r] = job[r]
  BY <1>8 DEF Start, Serve, Close, Exit, Crash, RecoverRaise, ClaimRaise, ReapStep,
     ReapGet, ReapSave, ReapEvent, ReapFail
<1>9. CASE Quiet \/ UNCHANGED vars
  BY <1>9 DEF Quiet, vars
<1> QED BY <1>1, <1>2, <1>3, <1>4, <1>5, <1>6, <1>7, <1>8, <1>9 DEF Next

\* The first terminal status of a job is its last.
THEOREM TerminalIsFinal == Spec => TerminalJobIsFinal
<1>1. TypeOK /\ [Next]_vars
        => [\A r \in Runs : job[r].status \in TerminalStatus => job'[r] = job[r]]_vars
  BY TerminalStep
<1> QED BY <1>1, TypeInvariant, PTL DEF Spec, TerminalJobIsFinal

-----------------------------------------------------------------------------
(* A run is CANCELLED only when a client asked for it.                     *)

\* A cancel handler at work was asked to be, and stays so.
LEMMA CancelAsked ==
  ASSUME TypeOK, NEW r \in Runs, CancelStep(r)
  PROVE  Asked(r) /\ \A s \in Runs : Asked(s) => Asked(s)'
<1>1. cancel \in [Runs -> Canceller]
  BY DEF TypeOK
<1>2. CancelOver.pc = "done"
  BY DEF CancelOver, NoCancel
<1>3. Asked(r) /\ \A s \in Runs \ {r} : cancel'[s] = cancel[s]
  BY <1>1 DEF Asked, CancelStep, CancelRead, CancelRequest, CancelFence, CancelWrite,
     CancelGet, CancelKeepFence, CancelKeepWrite
<1>4. Asked(r)'
  <2>0. PICK c : c = cancel[r]
    OBVIOUS
  <2>c. c \in Canceller
    BY <1>1, <2>0
  <2>1. CASE CancelRead(r)
    <3>1. \/ cancel'[r] = [c EXCEPT !.pc = "request"]
          \/ cancel'[r] = [c EXCEPT !.pc = "fence"]
          \/ cancel'[r] = CancelOver
      BY <1>1, <2>0, <2>1 DEF CancelRead
    <3> QED BY <1>2, <2>c, <3>1 DEF Asked, Canceller
  <2>2. CASE CancelRequest(r) \/ CancelFence(r) \/ CancelWrite(r)
    BY <1>1, <2>2 DEF Asked, CancelRequest, CancelFence, CancelWrite, Canceller
  <2>3. CASE CancelGet(r)
    BY <1>1, <2>3 DEF Asked, CancelGet, Canceller
  <2>4. CASE CancelKeepFence(r)
    <3>1. cancel'[r] = CancelOver \/ cancel'[r] = [c EXCEPT !.pc = "keepWrite"]
      BY <1>1, <2>0, <2>4 DEF CancelKeepFence
    <3> QED BY <1>2, <2>c, <3>1 DEF Asked, Canceller
  <2>5. CASE CancelKeepWrite(r)
    BY <1>1, <1>2, <2>5 DEF Asked, CancelKeepWrite
  <2> QED BY <2>1, <2>2, <2>3, <2>4, <2>5 DEF CancelStep
<1> QED BY <1>3, <1>4 DEF Asked

\* What every step keeps: requests are never withdrawn, deadlines are final.
LEMMA Kept ==
  ASSUME TypeOK, [Next]_vars
  PROVE  /\ \A r \in Runs : Asked(r) => Asked(r)'
         /\ \A r \in Runs : job[r].status = "TIMED_OUT" => job'[r].status = "TIMED_OUT"
<1> USE DEF durable, threads, history
<1> DEFINE Same == \A r \in Runs : Asked(r) => Asked(r)'
<1>0. UNCHANGED cancel => Same
  BY DEF Asked
<1> HIDE DEF Same
<1>1. ASSUME NEW p \in Procs, NEW r \in Runs, WorkerStep(p, r) PROVE Same
  BY <1>0, <1>1 DEF WorkerStep, Begin, SaveFence, SaveWrite, Control, Tool, ControlEvent,
     Event, Finalize, Finish, FailGet, FailEvent, FailFinish
<1>2. ASSUME NEW p \in Procs, NEW r \in Runs,
             Submit(p, r) \/ Raise(p, r) \/ Expire(p, r)
      PROVE  Same
  BY <1>0, <1>2 DEF Submit, Raise, Expire
<1>3. ASSUME NEW p \in Procs,
             \/ Start(p) \/ Serve(p) \/ Close(p) \/ Exit(p) \/ Claim(p)
             \/ RecoverRaise(p) \/ ClaimRaise(p) \/ ReapStep(p) \/ ReapFail(p)
             \/ \E o \in found[p] : Recover(p, o)
      PROVE  Same
  BY <1>0, <1>3 DEF Start, Serve, Close, Exit, Claim, Recover, RecoverRaise,
     ClaimRaise, ReapStep, ReapGet, ReapSave, ReapEvent, ReapFail
<1>4. ASSUME NEW p \in Procs, Crash(p) PROVE Same
  BY <1>4 DEF Crash, Asked, CancelOver, NoCancel, Same
<1>5. ASSUME NEW p \in Procs, NEW r \in Runs, CancelReserve(p, r) PROVE Same
  BY <1>5 DEF CancelReserve, Asked, TypeOK, Same
<1>6. ASSUME NEW r \in Runs, CancelStep(r) PROVE Same
  BY <1>6, CancelAsked DEF Same
<1>7. Same
  BY <1>0, <1>1, <1>2, <1>3, <1>4, <1>5, <1>6 DEF Next, Quiet, vars
<1>8. "TIMED_OUT" \in TerminalStatus
  BY DEF TerminalStatus
<1> QED BY <1>7, <1>8, TerminalStep DEF Same

\* A worker record that has cause to be cancelled keeps it.
LEMMA CauseKept ==
  ASSUME TypeOK, [Next]_vars, NEW w, NEW r \in Runs, CancelHasCause(w, r)
  PROVE  CancelHasCause(w, r)'
BY Kept DEF CancelHasCause

\* When the step of one thread has cause, the other threads have theirs.
LEMMA SetWorkerCause ==
  ASSUME TypeOK, CancelInv, [Next]_vars, NEW p \in Procs, NEW r \in Runs, NEW w,
         SetWorker(p, r, w), CancelHasCause(w, r)'
  PROVE  \A q \in Procs, s \in Runs : CancelHasCause(worker[q][s], s)'
<1> SUFFICES ASSUME NEW q \in Procs, NEW s \in Runs
             PROVE  CancelHasCause(worker[q][s], s)'
  OBVIOUS
<1>1. CASE q = p /\ s = r
  <2>1. worker'[q][s] = w
    BY <1>1 DEF SetWorker, TypeOK
  <2> QED BY <1>1, <2>1 DEF CancelHasCause, Saved
<1>2. CASE ~(q = p /\ s = r)
  <2>1. worker'[q][s] = worker[q][s]
    BY <1>2 DEF SetWorker, TypeOK
  <2>2. CancelHasCause(worker[q][s], s)
    BY DEF CancelInv
  <2> QED BY <2>1, <2>2, Kept DEF CancelHasCause
<1> QED BY <1>1, <1>2

\* When no thread moves, all have their cause.
LEMMA SameWorkerCause ==
  ASSUME TypeOK, CancelInv, [Next]_vars, UNCHANGED worker
  PROVE  \A q \in Procs, s \in Runs : CancelHasCause(worker[q][s], s)'
BY Kept DEF CancelInv, CancelHasCause

LEMMA SameStatusCause ==
  ASSUME TypeOK, CancelInv, [Next]_vars, UNCHANGED <<snap, job>>
  PROVE  CancelledOnlyOnRequest'
BY Kept DEF CancelInv, CancelledOnlyOnRequest

LEMMA SameFlagCause ==
  ASSUME TypeOK, CancelInv, [Next]_vars, UNCHANGED flag
  PROVE  FlagHasCause'
BY Kept DEF CancelInv, FlagHasCause

\* A thread that is idle or queued owes nothing.
LEMMA FreshCause ==
  ASSUME NEW r \in Runs
  PROVE  CancelHasCause(IdleWorker, r)' /\ CancelHasCause(QueuedWorker, r)'
BY DEF CancelHasCause, IdleWorker, QueuedWorker, Absent, Saved

\* Where a thread goes with its fence unread, only its outcome matters.
LEMMA GotoCause ==
  ASSUME TypeOK, CancelInv, [Next]_vars, NEW p \in Procs, NEW r \in Runs,
         NEW pc \in WorkerPc, Goto(p, r, pc)
  PROVE  \A q \in Procs, s \in Runs : CancelHasCause(worker[q][s], s)'
<1>1. PICK w : w = [worker[p][r] EXCEPT !.pc = pc, !.passed = FALSE]
  OBVIOUS
<1>2. worker[p][r] \in Worker /\ CancelHasCause(worker[p][r], r)
  BY DEF TypeOK, CancelInv
<1>3. w.passed = FALSE /\ w.out = worker[p][r].out
  BY <1>1, <1>2 DEF Worker
<1>4. CancelHasCause(w, r)'
  BY <1>2, <1>3, Kept DEF CancelHasCause
<1> QED BY <1>1, <1>4, SetWorkerCause DEF Goto

LEMMA EndWithCause ==
  ASSUME TypeOK, CancelInv, [Next]_vars, NEW p \in Procs, NEW r \in Runs,
         NEW pc \in WorkerPc, NEW out \in EventStatus, EndWith(p, r, pc, out),
         worker[p][r].pc \notin SavePoint,
         out = "CANCELLED" /\ ~Asked(r) => job[r].status = "TIMED_OUT"
  PROVE  \A q \in Procs, s \in Runs : CancelHasCause(worker[q][s], s)'
<1>1. PICK w : w = [worker[p][r] EXCEPT !.pc = pc, !.out = out]
  OBVIOUS
<1>2. worker[p][r] \in Worker /\ CancelHasCause(worker[p][r], r)
  BY DEF TypeOK, CancelInv
<1>3. w.passed = FALSE /\ w.out = out
  BY <1>1, <1>2 DEF Worker, CancelHasCause
<1>4. CancelHasCause(w, r)'
  BY <1>3, Kept DEF CancelHasCause
<1> QED BY <1>1, <1>4, SetWorkerCause DEF EndWith

\* A step of a worker thread keeps the invariant.
LEMMA WorkerStepCause ==
  ASSUME TypeOK, CancelInv, [Next]_vars, NEW p \in Procs, NEW r \in Runs,
         WorkerStep(p, r)
  PROVE  CancelInv'
<1> USE DEF durable, history
<1> DEFINE w == worker[p][r]
           Workers == \A q \in Procs, s \in Runs : CancelHasCause(worker[q][s], s)'
<1>w. w \in Worker /\ CancelHasCause(w, r)
  BY DEF TypeOK, CancelInv
<1>r. ASSUME CancelledOnlyOnRequest', FlagHasCause', Workers
      PROVE  CancelInv'
  BY <1>r DEF CancelInv, CancelHasCause, Saved
<1> HIDE DEF Workers
<1>1. CASE Begin(p, r)
  <2>1. Workers
    BY <1>1, GotoCause DEF Begin, WorkerPc, SavePoint, Workers
  <2> QED BY <1>1, <1>r, <2>1, SameStatusCause, SameFlagCause DEF Begin
<1>2. CASE SaveFence(p, r)
  <2>1. AfterSave[w.pc] \in WorkerPc
    BY <1>2, <1>w, SavedType DEF SaveFence
  <2>2. ASSUME Fenced(job[r].status, Saved(w)) PROVE Workers
    BY <1>2, <2>1, <2>2, GotoCause DEF SaveFence, Workers
  <2>3. ASSUME ~Fenced(job[r].status, Saved(w)) PROVE Workers
    <3>1. PICK x : x = [w EXCEPT !.passed = TRUE]
      OBVIOUS
    <3>2. x.pc = w.pc /\ x.out = w.out /\ x.passed = TRUE
      BY <1>w, <3>1 DEF Worker
    <3>3. Saved(x) = Saved(w)
      BY <3>2 DEF Saved
    <3>4. ASSUME Saved(w) = "CANCELLED", ~Asked(r) PROVE FALSE
      <4>1. w.out = "CANCELLED"
        BY <3>4 DEF Saved
      <4>2. job[r].status = "TIMED_OUT"
        BY <1>w, <3>4, <4>1 DEF CancelHasCause
      <4> QED BY <2>3, <3>4, <4>2 DEF Fenced, TerminalStatus
    <3>5. w.pc \in SavePoint
      BY <1>2 DEF SaveFence
    <3>6. CancelHasCause(x, r)'
      <4>1. x.passed => x.pc \in SavePoint
        BY <3>2, <3>5
      <4>2. x.out = "CANCELLED" /\ ~Asked(r)' => job'[r].status = "TIMED_OUT"
        BY <1>w, <3>2, Kept DEF CancelHasCause
      <4>3. Saved(x) = "CANCELLED" => Asked(r)'
        BY <3>3, <3>4, Kept
      <4> QED BY <4>1, <4>2, <4>3 DEF CancelHasCause, Saved
    <3>7. SetWorker(p, r, x)
      BY <1>2, <2>3, <3>1 DEF SaveFence
    <3> QED BY <3>6, <3>7, SetWorkerCause DEF Workers
  <2> QED BY <1>2, <1>r, <2>2, <2>3, SameStatusCause, SameFlagCause DEF SaveFence
<1>3. CASE SaveWrite(p, r)
  <2>1. AfterSave[w.pc] \in WorkerPc
    BY <1>3, <1>w, SavedType DEF SaveWrite
  <2>2. Workers
    BY <1>3, <2>1, GotoCause DEF SaveWrite, Workers
  <2>3. Saved(w) = "CANCELLED" => Asked(r)
    BY <1>3, <1>w DEF SaveWrite, CancelHasCause
  <2>4. CancelledOnlyOnRequest'
    BY <1>3, <2>3, Kept DEF SaveWrite, CancelInv, CancelledOnlyOnRequest, TypeOK
  <2> QED BY <1>3, <1>r, <2>2, <2>4, SameFlagCause DEF SaveWrite
<1>4. CASE Control(p, r)
  <2>1. "controlEvent" \in WorkerPc /\ "tool" \in WorkerPc /\ "control" \notin SavePoint
    BY DEF WorkerPc, SavePoint
  <2>2. "CANCELLED" \in EventStatus /\ "TIMED_OUT" \in EventStatus
    BY DEF EventStatus, TerminalStatus
  <2>3. flag[r] /\ ~Asked(r) => job[r].status = "TIMED_OUT"
    BY DEF CancelInv, FlagHasCause
  <2>4. Workers
    BY <1>4, <2>1, <2>2, <2>3, GotoCause, EndWithCause DEF Control, Workers
  <2> QED BY <1>4, <1>r, <2>4, SameStatusCause, SameFlagCause DEF Control
<1>5. CASE Tool(p, r)
  <2>1. ASSUME SetWorker(p, r, [w EXCEPT !.pc = "control", !.step = @ + 1])
        PROVE  Workers
    <3>1. PICK x : x = [w EXCEPT !.pc = "control", !.step = @ + 1]
      OBVIOUS
    <3>2. x.out = w.out /\ x.passed = w.passed
      BY <1>w, <3>1 DEF Worker
    <3>3. w.passed = FALSE
      BY <1>5, <1>w DEF Tool, CancelHasCause, SavePoint, Worker
    <3>4. CancelHasCause(x, r)'
      BY <1>w, <3>2, <3>3, Kept DEF CancelHasCause
    <3> QED BY <2>1, <3>1, <3>4, SetWorkerCause DEF Workers
  <2>2. ASSUME NEW out \in Outcomes, EndWith(p, r, "result", out) PROVE Workers
    <3>1. out \in EventStatus /\ out # "CANCELLED"
      BY OutcomesAssumption DEF EventStatus, NaturalOutcome
    <3>2. "result" \in WorkerPc /\ w.pc \notin SavePoint
      BY <1>5 DEF Tool, WorkerPc, SavePoint
    <3> QED BY <2>2, <3>1, <3>2, EndWithCause DEF Workers
  <2>3. Workers
    BY <1>5, <2>1, <2>2 DEF Tool
  <2> QED BY <1>5, <1>r, <2>3, SameStatusCause, SameFlagCause DEF Tool
<1>6. CASE ControlEvent(p, r) \/ Event(p, r) \/ FailEvent(p, r)
  <2>1. Workers
    BY <1>6, GotoCause DEF ControlEvent, Event, FailEvent, WorkerPc, SavePoint, Workers
  <2> QED BY <1>6, <1>r, <2>1, SameStatusCause, SameFlagCause
          DEF ControlEvent, Event, FailEvent
<1>7. CASE Finalize(p, r)
  <2>1. Workers
    BY <1>7, GotoCause, SetWorkerCause, FreshCause DEF Finalize, WorkerPc, Workers
  <2> QED BY <1>7, <1>r, <2>1, SameStatusCause, SameFlagCause DEF Finalize
<1>8. CASE Finish(p, r)
  <2>1. Workers
    BY <1>8, SetWorkerCause, FreshCause DEF Finish, Workers
  <2>2. w.out = "CANCELLED" /\ ~Asked(r) => job'[r] = job[r]
    <3>1. "TIMED_OUT" \in TerminalStatus
      BY DEF TerminalStatus
    <3> QED BY <1>w, <3>1, TerminalStep DEF CancelHasCause
  <2>3. CancelledOnlyOnRequest'
    BY <1>8, <2>2, Kept DEF Finish, FinishJob, CancelInv, CancelledOnlyOnRequest, TypeOK
  <2> QED BY <1>8, <1>r, <2>1, <2>3, SameFlagCause DEF Finish
<1>9. CASE FailGet(p, r)
  <2> DEFINE out == IF snap[r] \in {Absent, "PLANNING"} THEN "FAILED" ELSE snap[r]
  <2>1. out \in EventStatus
    BY DEF TypeOK, SnapStatus, EventStatus, TerminalStatus
  <2>2. out = "CANCELLED" => Asked(r)
    BY DEF CancelInv, CancelledOnlyOnRequest
  <2>3. "fail" \in WorkerPc /\ w.pc \notin SavePoint
    BY <1>9 DEF FailGet, WorkerPc, SavePoint
  <2>4. EndWith(p, r, "fail", out)
    BY <1>9 DEF FailGet
  <2> HIDE DEF out
  <2>5. Workers
    BY <2>1, <2>2, <2>3, <2>4, EndWithCause DEF Workers
  <2> QED BY <1>9, <1>r, <2>5, SameStatusCause, SameFlagCause DEF FailGet
<1>10. CASE FailFinish(p, r)
  <2>1. Workers
    BY <1>10, SetWorkerCause, FreshCause DEF FailFinish, Workers
  <2>2. CancelledOnlyOnRequest'
    BY <1>10, Kept DEF FailFinish, FinishJob, CancelInv, CancelledOnlyOnRequest, TypeOK
  <2> QED BY <1>10, <1>r, <2>1, <2>2, SameFlagCause DEF FailFinish
<1> QED BY <1>1, <1>2, <1>3, <1>4, <1>5, <1>6, <1>7, <1>8, <1>9, <1>10 DEF WorkerStep

\* Every step of the system keeps the invariant.
THEOREM CancelInvStep == TypeOK /\ CancelInv /\ [Next]_vars => CancelInv'
<1> SUFFICES ASSUME TypeOK, CancelInv, [Next]_vars PROVE CancelInv'
  OBVIOUS
<1> USE DEF durable, threads, history
<1> DEFINE Workers == \A q \in Procs, s \in Runs : CancelHasCause(worker[q][s], s)'
<1>c. ASSUME CancelledOnlyOnRequest', FlagHasCause', Workers
      PROVE  CancelInv'
  BY <1>c DEF CancelInv, CancelHasCause, Saved
<1>w. UNCHANGED worker => Workers
  BY SameWorkerCause
<1> HIDE DEF Workers
<1>1. ASSUME NEW p \in Procs,
             \/ Start(p) \/ Serve(p) \/ Close(p) \/ RecoverRaise(p) \/ ClaimRaise(p)
             \/ ReapGet(p) \/ ReapEvent(p) \/ ReapFail(p)
      PROVE  CancelInv'
  <2>1. UNCHANGED <<snap, job, flag, worker>>
    BY <1>1 DEF Start, Serve, Close, RecoverRaise, ClaimRaise, ReapGet, ReapEvent, ReapFail
  <2> QED BY <2>1, <1>c, <1>w, SameStatusCause, SameFlagCause
<1>2. ASSUME NEW p \in Procs, Exit(p) \/ Crash(p) PROVE CancelInv'
  <2>1. Workers
    <3> SUFFICES ASSUME NEW q \in Procs, NEW s \in Runs
                 PROVE  CancelHasCause(worker[q][s], s)'
      BY DEF Workers
    <3>1. CASE q = p
      <4>1. worker'[q][s] = IdleWorker
        BY <1>2, <3>1 DEF Exit, Crash, TypeOK
      <4> QED BY <4>1 DEF CancelHasCause, IdleWorker, Absent, Saved
    <3>2. CASE q # p
      <4>1. worker'[q][s] = worker[q][s]
        BY <1>2, <3>2 DEF Exit, Crash, TypeOK
      <4> QED BY <4>1, Kept DEF CancelInv, CancelHasCause, Saved
    <3> QED BY <3>1, <3>2
  <2> QED BY <1>2, <1>c, <2>1, SameStatusCause, SameFlagCause DEF Exit, Crash
<1>3. ASSUME NEW row, NEW p \in Procs PROVE ClaimedBy(row, p).status # "CANCELLED"
  BY DEF ClaimedBy
<1>4. ASSUME NEW p \in Procs, NEW o \in found[p], Recover(p, o) PROVE CancelInv'
  <2>1. o.run \in Runs
    BY DEF TypeOK, Orphan
  <2>2. Workers
    BY <1>4, <1>w, <2>1, SetWorkerCause, FreshCause DEF Recover, Workers
  <2>3. CancelledOnlyOnRequest'
    <3>1. \A r \in Runs : job'[r] = job[r] \/ job'[r] = ClaimedBy(job[r], p)
      BY <1>4, <2>1 DEF Recover, TypeOK
    <3>2. snap' = snap
      BY <1>4 DEF Recover
    <3> QED BY <1>3, <3>1, <3>2, Kept DEF CancelInv, CancelledOnlyOnRequest
  <2> QED BY <1>4, <1>c, <2>2, <2>3, SameFlagCause DEF Recover
<1>5. ASSUME NEW p \in Procs, Claim(p) PROVE CancelInv'
  <2>1. sub[p] \in Runs
    BY <1>5 DEF TypeOK, Claim
  <2>2. Workers
    BY <1>5, <1>w, <2>1, SetWorkerCause, FreshCause DEF Claim, Workers
  <2>3. CancelledOnlyOnRequest'
    <3>1. \A r \in Runs : job'[r] = job[r] \/ job'[r] = ClaimedBy(job[r], p)
      BY <1>5, <2>1 DEF Claim, TypeOK
    <3>2. snap' = snap
      BY <1>5 DEF Claim
    <3> QED BY <1>3, <3>1, <3>2, Kept DEF CancelInv, CancelledOnlyOnRequest
  <2> QED BY <1>5, <1>c, <2>2, <2>3, SameFlagCause DEF Claim
<1>6. ASSUME NEW p \in Procs, NEW r \in Runs, Submit(p, r) PROVE CancelInv'
  <2>1. CancelledOnlyOnRequest'
    BY <1>6, Kept DEF Submit, CancelInv, CancelledOnlyOnRequest, TypeOK
  <2> QED BY <1>6, <1>c, <1>w, <2>1, SameFlagCause DEF Submit
<1>7. ASSUME NEW r \in Runs, CancelStep(r) PROVE CancelInv'
  <2>1. Asked(r) /\ Asked(r)'
    BY <1>7, CancelAsked
  <2>2. UNCHANGED worker
    BY <1>7 DEF CancelStep, CancelRead, CancelRequest, CancelFence, CancelWrite,
       CancelGet, CancelKeepFence, CancelKeepWrite
  <2>3. \A s \in Runs \ {r} : UNCHANGED <<snap[s], job[s], flag[s]>>
    BY <1>7 DEF CancelStep, CancelRead, CancelRequest, CancelFence, CancelWrite,
       CancelGet, CancelKeepFence, CancelKeepWrite, TypeOK
  <2>4. CancelledOnlyOnRequest'
    BY <2>1, <2>3, Kept DEF CancelInv, CancelledOnlyOnRequest
  <2>5. FlagHasCause'
    BY <2>1, <2>3, Kept DEF CancelInv, FlagHasCause
  <2> QED BY <1>c, <1>w, <2>2, <2>4, <2>5
<1>8. ASSUME NEW p \in Procs, NEW r \in Runs, CancelReserve(p, r) PROVE CancelInv'
  BY <1>8, <1>c, <1>w, SameStatusCause, SameFlagCause DEF CancelReserve
<1>9. CASE Quiet
  BY <1>9, <1>c, <1>w, SameStatusCause, SameFlagCause DEF Quiet, vars
<1>10. ASSUME NEW p \in Procs, NEW r \in Runs, Raise(p, r) PROVE CancelInv'
  <2>1. Workers
    BY <1>10, RaiseMoves, GotoCause DEF WorkerPc, Workers
  <2> QED BY <1>10, <1>c, <2>1, SameStatusCause, SameFlagCause DEF Raise
<1>11. ASSUME NEW p \in Procs, NEW r \in Runs, Expire(p, r) PROVE CancelInv'
  <2>1. job'[r].status = "TIMED_OUT"
    BY <1>11 DEF Expire, TypeOK
  <2>2. CancelledOnlyOnRequest'
    BY <1>11, <2>1, Kept DEF Expire, CancelInv, CancelledOnlyOnRequest, TypeOK
  <2>3. FlagHasCause'
    BY <1>11, <2>1, Kept DEF Expire, CancelInv, FlagHasCause, TypeOK
  <2> QED BY <1>11, <1>c, <1>w, <2>2, <2>3 DEF Expire
<1>12. ASSUME NEW p \in Procs, ReapSave(p) PROVE CancelInv'
  <2>1. CancelledOnlyOnRequest'
    BY <1>12, Kept DEF ReapSave, CancelInv, CancelledOnlyOnRequest, TypeOK
  <2> QED BY <1>12, <1>c, <1>w, <2>1, SameFlagCause DEF ReapSave
<1>13. CASE UNCHANGED vars
  BY <1>13, <1>c, <1>w, SameStatusCause, SameFlagCause DEF vars
<1> QED BY <1>1, <1>2, <1>4, <1>5, <1>6, <1>7, <1>8, <1>9, <1>10, <1>11, <1>12,
           <1>13, WorkerStepCause DEF Next, ReapStep

\* A run is shown or recorded as CANCELLED only when a client asked for it,
\* whatever the processes, the reaper and the crashes do.
THEOREM CancelledOnRequest == Spec => []CancelledOnlyOnRequest
<1>1. Init => CancelInv
  BY DEF Init, CancelInv, CancelledOnlyOnRequest, FlagHasCause, CancelHasCause,
     IdleWorker, Absent
<1>2. CancelInv => CancelledOnlyOnRequest
  BY DEF CancelInv
<1> QED BY <1>1, <1>2, CancelInvStep, TypeInvariant, PTL DEF Spec

=============================================================================
