------------------------- MODULE LedgerRefinement --------------------------
(***************************************************************************)
(* The job table of AsyncRuns keeps the promises of JobLedger, for any     *)
(* number of runs, processes, steps and disruptions, in a deployment that  *)
(* has one service process alive at a time.                                *)
(***************************************************************************)
EXTENDS AsyncRuns_proofs

-----------------------------------------------------------------------------
(* Every step of AsyncRuns is a step of the ledger, or leaves it alone.    *)

\* What the ledger does not see.
LEMMA LedgerStutter ==
  ASSUME UNCHANGED job, \A p \in Procs : Alive(p)' <=> Alive(p)
  PROVE  UNCHANGED Ledger!vars
BY DEF Ledger!vars

\* Closing a job by the worker that owns it.
LEMMA FinishIsClose ==
  ASSUME TypeOK, UNCHANGED life, NEW p \in Procs, NEW r \in Runs, Alive(p),
         NEW s \in TerminalStatus, s = "CANCELLED" => CancelRecorded(r),
         FinishJob(r, p, s)
  PROVE  [Ledger!Next]_(Ledger!vars)
<1>1. job \in [Runs -> [status : JobStatus, owner : Procs \cup {None}]]
  BY DEF TypeOK
<1>2. UNCHANGED {q \in Procs : Alive(q)}
  BY DEF Alive
<1>3. CASE job[r].status \in ActiveStatus /\ job[r].owner = p
  <2>1. s = "CANCELLED" => job[r].status = "CANCEL_REQUESTED"
    BY <1>3, Disjoint DEF CancelRecorded
  <2>2. /\ [x \in Runs |-> job[x].status]'
             = [[x \in Runs |-> job[x].status] EXCEPT ![r] = s]
        /\ UNCHANGED [x \in Runs |-> job[x].owner]
    BY <1>1, <1>3 DEF FinishJob
  <2>3. Ledger!Close(r, s)
    BY <1>2, <1>3, <2>1, <2>2 DEF Ledger!Close, Ledger!ActiveStatus, ActiveStatus
  <2> QED BY <2>3 DEF Ledger!Next, Ledger!TerminalStatus, TerminalStatus
<1>4. CASE ~(job[r].status \in ActiveStatus /\ job[r].owner = p)
  <2>1. job' = job
    BY <1>1, <1>4 DEF FinishJob
  <2> QED BY <1>2, <2>1 DEF Ledger!vars
<1> QED BY <1>3, <1>4

\* Claiming a job that belongs to no live process.
LEMMA ClaimIsClaim ==
  ASSUME TypeOK, UNCHANGED life, NEW p \in Procs, NEW r \in Runs, Alive(p),
         job[r].status \in ActiveStatus,
         ~(job[r].owner \in Procs /\ Alive(job[r].owner)),
         job' = [job EXCEPT ![r] = ClaimedBy(@, p)]
  PROVE  [Ledger!Next]_(Ledger!vars)
<1>1. job \in [Runs -> [status : JobStatus, owner : Procs \cup {None}]]
  BY DEF TypeOK
<1>2. UNCHANGED {q \in Procs : Alive(q)}
  BY DEF Alive
<1>3. job'[r] = ClaimedBy(job[r], p) /\ \A x \in Runs \ {r} : job'[x] = job[x]
  BY <1>1
<1>4. /\ job'[r].owner = p
      /\ job'[r].status = IF job[r].status = "CANCEL_REQUESTED"
                            THEN job[r].status ELSE "RUNNING"
  BY <1>3 DEF ClaimedBy
<1>5. [x \in Runs |-> job[x].status]'
        = [[x \in Runs |-> job[x].status] EXCEPT ![r] =
             IF job[r].status = "CANCEL_REQUESTED" THEN job[r].status ELSE "RUNNING"]
  <2> DEFINE s == IF job[r].status = "CANCEL_REQUESTED" THEN job[r].status
                  ELSE "RUNNING"
  <2>1. \A x \in Runs : job'[x].status = IF x = r THEN s ELSE job[x].status
    BY <1>3, <1>4
  <2> HIDE DEF s
  <2>2. [x \in Runs |-> job[x].status]' = [[x \in Runs |-> job[x].status] EXCEPT ![r] = s]
    BY <2>1
  <2> QED BY <2>2 DEF s
<1>6. [x \in Runs |-> job[x].owner]'
        = [[x \in Runs |-> job[x].owner] EXCEPT ![r] = p]
  <2>1. \A x \in Runs : job'[x].owner = IF x = r THEN p ELSE job[x].owner
    BY <1>3, <1>4
  <2> QED BY <2>1
<1>7. Ledger!Claim(r, p)
  BY <1>2, <1>5, <1>6 DEF Ledger!Claim, Ledger!ActiveStatus, ActiveStatus
<1> QED BY <1>7 DEF Ledger!Next

\* A status written into the row of r, seen by the ledger.
LEMMA StatusSeen ==
  ASSUME TypeOK, NEW r \in Runs, NEW s, job' = [job EXCEPT ![r].status = s]
  PROVE  /\ [x \in Runs |-> job[x].status]'
              = [[x \in Runs |-> job[x].status] EXCEPT ![r] = s]
         /\ UNCHANGED [x \in Runs |-> job[x].owner]
<1>1. job \in [Runs -> [status : JobStatus, owner : Procs \cup {None}]]
  BY DEF TypeOK
<1> QED BY <1>1

\* A step of a worker changes the ledger only where it closes the job.
LEMMA WorkerIsLedger ==
  ASSUME TypeOK, LedgerInv, NEW p \in Procs, NEW r \in Runs, WorkerStep(p, r)
  PROVE  [Ledger!Next]_(Ledger!vars)
<1>1. WorkerRecorded(worker[p][r], p, r)
  BY DEF LedgerInv
<1>2. CASE Finish(p, r)
  <2>1. Alive(p) /\ worker[p][r].out \in TerminalStatus
    BY <1>1, <1>2 DEF Finish, WorkerRecorded, Ending
  <2>2. worker[p][r].out = "CANCELLED" => CancelRecorded(r)
    BY <1>1, <1>2 DEF Finish, WorkerRecorded, Ending
  <2> QED BY <1>2, <2>1, <2>2, FinishIsClose DEF Finish
<1>3. CASE FailFinish(p, r)
  <2>1. Alive(p)
    BY <1>1, <1>3 DEF FailFinish, WorkerRecorded
  <2>2. "FAILED" \in TerminalStatus
    BY DEF TerminalStatus
  <2> QED BY <1>3, <2>1, <2>2, FinishIsClose DEF FailFinish
<1>4. CASE ~Finish(p, r) /\ ~FailFinish(p, r)
  <2>1. UNCHANGED <<job, life>>
    BY <1>4 DEF WorkerStep, Begin, SaveFence, SaveWrite, Control, Tool,
       ControlEvent, Event, Finalize, FailGet, FailEvent, durable
  <2> QED BY <2>1, LedgerStutter DEF Alive
<1> QED BY <1>2, <1>3, <1>4


\* A claim takes a job from nobody, or from a process that is not alive: the
\* claiming process is the only live one.
LEMMA RecoverIsLedger ==
  ASSUME TypeOK, LedgerInv, NEW p \in Procs, NEW o \in found[p], Recover(p, o)
  PROVE  [Ledger!Next]_(Ledger!vars)
<1>1. o.run \in Runs /\ Alive(p) /\ UNCHANGED life
  BY DEF TypeOK, Orphan, Recover, Alive
<1>2. CASE ~(o.owner \in Procs /\ Alive(o.owner)) /\ ClaimableOrphan(o.run, p, o.owner)
  <2>1. job[o.run].status \in ActiveStatus
    BY <1>2 DEF ClaimableOrphan
  <2>2. ~(job[o.run].owner \in Procs /\ Alive(job[o.run].owner))
    BY <1>1, <1>2, NoneAssumption DEF ClaimableOrphan, LedgerInv, OneAlive
  <2> QED BY <1>1, <1>2, <2>1, <2>2, ClaimIsClaim DEF Recover
<1>3. CASE ~(~(o.owner \in Procs /\ Alive(o.owner))
             /\ ClaimableOrphan(o.run, p, o.owner))
  BY <1>1, <1>3, LedgerStutter DEF Recover, Alive
<1> QED BY <1>2, <1>3

LEMMA ClaimIsLedger ==
  ASSUME TypeOK, LedgerInv, NEW p \in Procs, Claim(p)
  PROVE  [Ledger!Next]_(Ledger!vars)
<1>1. sub[p] \in Runs /\ Alive(p) /\ UNCHANGED life
  BY DEF TypeOK, Claim, LedgerInv, SubmitterAlive
<1>2. CASE ClaimableNew(sub[p])
  <2>1. job[sub[p]].status \in ActiveStatus /\ job[sub[p]].owner \notin Procs
    BY <1>2, NoneAssumption DEF ClaimableNew
  <2> QED BY <1>1, <1>2, <2>1, ClaimIsClaim DEF Claim
<1>3. CASE ~ClaimableNew(sub[p])
  BY <1>1, <1>3, LedgerStutter DEF Claim, Alive
<1> QED BY <1>2, <1>3

\* Requests and the reaper write one status into one row.
LEMMA RequestIsLedger ==
  ASSUME TypeOK, LedgerInv, NEW r \in Runs,
         CancelRequest(r) \/ \E p \in Procs : Submit(p, r) \/ Expire(p, r)
  PROVE  [Ledger!Next]_(Ledger!vars)
<1>1. UNCHANGED {q \in Procs : Alive(q)}
  BY DEF CancelRequest, Submit, Expire, Alive, threads
<1>2. job \in [Runs -> [status : JobStatus, owner : Procs \cup {None}]]
  BY DEF TypeOK
<1>3. CASE CancelRequest(r)
  <2>1. CASE job[r].status \in {"QUEUED", "RUNNING"}
    <3>1. job' = [job EXCEPT ![r].status = "CANCEL_REQUESTED"]
      BY <1>3, <2>1 DEF CancelRequest
    <3>2. Ledger!RequestCancel(r)
      BY <1>1, <2>1, <3>1, StatusSeen DEF Ledger!RequestCancel
    <3> QED BY <3>2 DEF Ledger!Next
  <2>2. CASE job[r].status \notin {"QUEUED", "RUNNING"}
    <3>1. job' = job
      BY <1>2, <1>3, <2>2 DEF CancelRequest
    <3> QED BY <1>1, <3>1 DEF Ledger!vars
  <2> QED BY <2>1, <2>2
<1>4. ASSUME NEW p \in Procs, Submit(p, r) PROVE [Ledger!Next]_(Ledger!vars)
  <2>1. job' = [job EXCEPT ![r] = [status |-> "QUEUED", owner |-> None]]
    BY <1>4 DEF Submit
  <2>2. job[r].status = Absent /\ job[r].owner = None
    BY <1>4 DEF Submit, LedgerInv, AbsentUnowned
  <2>3. \A x \in Runs : /\ job'[x].status = IF x = r THEN "QUEUED" ELSE job[x].status
                        /\ job'[x].owner = job[x].owner
    BY <1>2, <2>1, <2>2
  <2>4. [x \in Runs |-> job[x].status]'
          = [[x \in Runs |-> job[x].status] EXCEPT ![r] = "QUEUED"]
    BY <2>3
  <2>5. Ledger!Accept(r)
    BY <1>1, <2>2, <2>3, <2>4 DEF Ledger!Accept, Ledger!Absent, Absent
  <2> QED BY <2>5 DEF Ledger!Next
<1>5. ASSUME NEW p \in Procs, Expire(p, r) PROVE [Ledger!Next]_(Ledger!vars)
  <2>1. job' = [job EXCEPT ![r].status = "TIMED_OUT"]
    BY <1>5 DEF Expire
  <2>2. Ledger!Expire(r)
    BY <1>1, <1>5, <2>1, StatusSeen
       DEF Expire, Ledger!Expire, Ledger!ActiveStatus, ActiveStatus
  <2> QED BY <2>2 DEF Ledger!Next
<1> QED BY <1>3, <1>4, <1>5

\* Processes start and stop.
LEMMA ProcessIsLedger ==
  ASSUME TypeOK, NEW p \in Procs,
         Start(p) \/ Serve(p) \/ Close(p) \/ RecoverRaise(p) \/ Exit(p) \/ Crash(p)
  PROVE  [Ledger!Next]_(Ledger!vars)
<1>1. UNCHANGED job
  BY DEF Start, Serve, Close, RecoverRaise, Exit, Crash, durable
<1>2. CASE Start(p)
  <2>1. ~Alive(p) /\ {q \in Procs : Alive(q)}' = {q \in Procs : Alive(q)} \cup {p}
    BY <1>2 DEF Start, Alive, TypeOK
  <2>2. Ledger!StartProcess(p)
    BY <1>1, <2>1 DEF Ledger!StartProcess
  <2> QED BY <2>2 DEF Ledger!Next
<1>3. CASE Exit(p) \/ Crash(p)
  <2>1. Alive(p) /\ {q \in Procs : Alive(q)}' = {q \in Procs : Alive(q)} \ {p}
    BY <1>3 DEF Exit, Crash, Alive, TypeOK
  <2>2. Ledger!StopProcess(p)
    BY <1>1, <2>1 DEF Ledger!StopProcess
  <2> QED BY <2>2 DEF Ledger!Next
<1>4. CASE Serve(p) \/ Close(p) \/ RecoverRaise(p)
  <2>1. \A q \in Procs : Alive(q)' <=> Alive(q)
    BY <1>4 DEF Serve, Close, RecoverRaise, Alive, TypeOK
  <2> QED BY <1>1, <2>1, LedgerStutter
<1> QED BY <1>2, <1>3, <1>4

\* The steps of a cancel handler that touch nothing a worker or the ledger sees.
LEMMA CancelApart ==
  ASSUME NEW r \in Runs, CancelStep(r), ~CancelRequest(r)
  PROVE  UNCHANGED <<job, life, flag, sub, worker>>
BY DEF CancelStep, CancelRead, CancelFence, CancelWrite, CancelGet, CancelKeepFence,
   CancelKeepWrite, durable

\* Every step of AsyncRuns is a step of JobLedger or a stutter.
LEMMA LedgerStep ==
  ASSUME TypeOK, LedgerInv, [Next]_vars
  PROVE  [Ledger!Next]_(Ledger!vars)
<1>1. ASSUME NEW p \in Procs,
             \/ ReapStep(p) \/ ReapFail(p) \/ ClaimRaise(p)
             \/ \E r \in Runs : CancelReserve(p, r) \/ Raise(p, r)
      PROVE  [Ledger!Next]_(Ledger!vars)
  <2>1. UNCHANGED <<job, life>>
    BY <1>1 DEF ReapStep, ReapGet, ReapSave, ReapEvent, ReapFail, ClaimRaise, CancelReserve,
       Raise, durable
  <2> QED BY <2>1, LedgerStutter DEF Alive
<1>2. CASE Quiet \/ UNCHANGED vars
  BY <1>2, LedgerStutter DEF Quiet, vars, Alive
<1>3. ASSUME NEW r \in Runs, CancelStep(r) PROVE [Ledger!Next]_(Ledger!vars)
  BY <1>3, CancelApart, LedgerStutter, RequestIsLedger DEF Alive
<1> QED BY <1>1, <1>2, <1>3, ProcessIsLedger, RecoverIsLedger, ClaimIsLedger,
           RequestIsLedger, WorkerIsLedger DEF Next

-----------------------------------------------------------------------------
(* The invariant the steps above rely on.                                  *)

\* Once a cancel is recorded in a job row, or the job is closed, it stays so:
\* a fact about JobLedger, brought here by the step above.
LEMMA RecordedKept ==
  ASSUME TypeOK, LedgerInv, [Next]_vars, NEW r \in Runs, CancelRecorded(r)
  PROVE  CancelRecorded(r)'
<1> DEFINE status == [x \in Runs |-> job[x].status]
           Recorded(s) == s \in TerminalStatus \cup {"CANCEL_REQUESTED"}
<1>1. status[r] = job[r].status /\ status'[r] = job'[r].status
  OBVIOUS
<1>2. Recorded(status[r]) /\ status[r] \notin {"QUEUED", "RUNNING", Absent}
  BY <1>1 DEF CancelRecorded, TerminalStatus, Absent
<1>3. ASSUME NEW x \in Runs,
             \/ Ledger!Accept(x) \/ Ledger!RequestCancel(x) \/ Ledger!Expire(x)
             \/ \E p \in Procs : Ledger!Claim(x, p)
             \/ \E s \in Ledger!TerminalStatus : Ledger!Close(x, s)
      PROVE  Recorded(status'[r])
  <2>1. CASE x = r
    BY <1>2, <1>3, <2>1 DEF Ledger!Accept, Ledger!RequestCancel, Ledger!Expire,
       Ledger!Claim, Ledger!Close, Ledger!TerminalStatus, Ledger!ActiveStatus,
       TerminalStatus, Ledger!Absent, Absent
  <2>2. CASE x # r
    BY <1>2, <1>3, <2>2 DEF Ledger!Accept, Ledger!RequestCancel, Ledger!Expire,
       Ledger!Claim, Ledger!Close
  <2> QED BY <2>1, <2>2
<1>4. ASSUME NEW p \in Procs, Ledger!StartProcess(p) \/ Ledger!StopProcess(p)
      PROVE  Recorded(status'[r])
  BY <1>2, <1>4 DEF Ledger!StartProcess, Ledger!StopProcess
<1>5. ASSUME UNCHANGED Ledger!vars PROVE Recorded(status'[r])
  BY <1>2, <1>5 DEF Ledger!vars
<1>6. Recorded(status'[r])
  <2>1. [Ledger!Next]_(Ledger!vars)
    BY LedgerStep
  <2> HIDE DEF Recorded, status
  <2> QED BY <1>3, <1>4, <1>5, <2>1 DEF Ledger!Next
<1> QED BY <1>1, <1>6 DEF CancelRecorded

\* A job that was accepted is never forgotten.
LEMMA KnownKept ==
  ASSUME TypeOK, LedgerInv, [Next]_vars, NEW r \in Runs, job[r].status # Absent
  PROVE  job'[r].status # Absent
<1> DEFINE status == [x \in Runs |-> job[x].status]
<1>1. status[r] = job[r].status /\ status'[r] = job'[r].status
  OBVIOUS
<1>2. status[r] # Absent
  BY <1>1
<1>3. ASSUME NEW x \in Runs,
             \/ Ledger!Accept(x) \/ Ledger!RequestCancel(x) \/ Ledger!Expire(x)
             \/ \E p \in Procs : Ledger!Claim(x, p)
             \/ \E s \in Ledger!TerminalStatus : Ledger!Close(x, s)
      PROVE  status'[r] # Absent
  <2>1. CASE x = r
    BY <1>3, <2>1 DEF Ledger!Accept, Ledger!RequestCancel, Ledger!Expire,
       Ledger!Claim, Ledger!Close, Ledger!TerminalStatus, Ledger!ActiveStatus,
       Ledger!Absent, Absent
  <2>2. CASE x # r
    BY <1>2, <1>3, <2>2 DEF Ledger!Accept, Ledger!RequestCancel, Ledger!Expire,
       Ledger!Claim, Ledger!Close
  <2> QED BY <2>1, <2>2
<1>4. ASSUME NEW p \in Procs, Ledger!StartProcess(p) \/ Ledger!StopProcess(p)
      PROVE  status'[r] # Absent
  BY <1>2, <1>4 DEF Ledger!StartProcess, Ledger!StopProcess
<1>5. ASSUME UNCHANGED Ledger!vars PROVE status'[r] # Absent
  BY <1>2, <1>5 DEF Ledger!vars
<1>6. status'[r] # Absent
  <2>1. [Ledger!Next]_(Ledger!vars)
    BY LedgerStep
  <2> HIDE DEF status
  <2> QED BY <1>3, <1>4, <1>5, <2>1 DEF Ledger!Next
<1> QED BY <1>1, <1>6

\* Nobody cancels a run that was never submitted.
LEMMA AskedKnownKept ==
  ASSUME TypeOK, LedgerInv, [Next]_vars
  PROVE  AskedKnown'
<1> USE DEF durable, threads, history
<1> SUFFICES ASSUME NEW r \in Runs, job'[r].status = Absent PROVE cancel'[r] = NoCancel
  BY DEF AskedKnown
<1>a. job[r].status = Absent /\ cancel[r] = NoCancel
  BY KnownKept DEF LedgerInv, AskedKnown
<1>b. NoCancel.pc = "none" /\ NoCancel.by = None
  BY DEF NoCancel
<1>0. UNCHANGED cancel => cancel'[r] = NoCancel
  BY <1>a
<1>1. ASSUME NEW p \in Procs, NEW s \in Runs, WorkerStep(p, s)
      PROVE  cancel'[r] = NoCancel
  BY <1>0, <1>1 DEF WorkerStep, Begin, SaveFence, SaveWrite, Control, Tool, ControlEvent,
     Event, Finalize, Finish, FailGet, FailEvent, FailFinish
<1>2. ASSUME NEW p \in Procs, NEW s \in Runs,
             Submit(p, s) \/ Raise(p, s) \/ Expire(p, s)
      PROVE  cancel'[r] = NoCancel
  BY <1>0, <1>2 DEF Submit, Raise, Expire
<1>3. ASSUME NEW p \in Procs,
             \/ Start(p) \/ Serve(p) \/ Close(p) \/ Exit(p) \/ Claim(p)
             \/ RecoverRaise(p) \/ ClaimRaise(p) \/ ReapStep(p) \/ ReapFail(p)
             \/ \E o \in found[p] : Recover(p, o)
      PROVE  cancel'[r] = NoCancel
  BY <1>0, <1>3 DEF Start, Serve, Close, Exit, Claim, Recover, RecoverRaise,
     ClaimRaise, ReapStep, ReapGet, ReapSave, ReapEvent, ReapFail
<1>4. ASSUME NEW p \in Procs, Crash(p) PROVE cancel'[r] = NoCancel
  <2>1. cancel[r].by # p
    BY <1>a, <1>b, NoneAssumption
  <2> QED BY <1>4, <1>a, <2>1 DEF Crash
<1>5. ASSUME NEW p \in Procs, NEW s \in Runs, CancelReserve(p, s)
      PROVE  cancel'[r] = NoCancel
  BY <1>5, <1>a DEF CancelReserve, TypeOK
<1>6. ASSUME NEW s \in Runs, CancelStep(s) PROVE cancel'[r] = NoCancel
  <2>1. s # r
    BY <1>6, <1>a, <1>b, CancelAsked DEF Asked
  <2> QED BY <1>6, <1>a, <2>1 DEF CancelStep, CancelRead, CancelRequest, CancelFence,
             CancelWrite, CancelGet, CancelKeepFence, CancelKeepWrite, TypeOK
<1> QED BY <1>0, <1>1, <1>2, <1>3, <1>4, <1>5, <1>6 DEF Next, Quiet, vars

\* A step that starts no process and touches no cancel flag, submission or
\* thread keeps the invariant, whatever it does to the tables.
LEMMA FlagKept ==
  ASSUME TypeOK, LedgerInv, [Next]_vars, UNCHANGED flag
  PROVE  FlagRecorded'
BY RecordedKept DEF LedgerInv, FlagRecorded

LEMMA LifeKept ==
  ASSUME LedgerInv, UNCHANGED <<life, sub>>
  PROVE  OneAlive' /\ SubmitterAlive'
BY DEF LedgerInv, OneAlive, SubmitterAlive, Alive

LEMMA AbsentKept ==
  ASSUME LedgerInv, UNCHANGED job
  PROVE  AbsentUnowned'
BY DEF LedgerInv, AbsentUnowned

\* No thread moves.
LEMMA WorkersKept ==
  ASSUME TypeOK, LedgerInv, [Next]_vars, UNCHANGED <<life, worker>>
  PROVE  \A p \in Procs, r \in Runs : WorkerRecorded(worker[p][r], p, r)'
BY RecordedKept DEF LedgerInv, WorkerRecorded, Alive

\* One thread stores a record that is in order; the others are as before.
LEMMA SetWorkerKept ==
  ASSUME TypeOK, LedgerInv, [Next]_vars, UNCHANGED life,
         NEW p \in Procs, NEW r \in Runs, NEW w, SetWorker(p, r, w), Alive(p),
         w.pc \in Ending =>
           w.out \in TerminalStatus /\ (w.out = "CANCELLED" => CancelRecorded(r))
  PROVE  \A q \in Procs, x \in Runs : WorkerRecorded(worker[q][x], q, x)'
<1> SUFFICES ASSUME NEW q \in Procs, NEW x \in Runs
             PROVE  WorkerRecorded(worker[q][x], q, x)'
  OBVIOUS
<1>1. CASE q = p /\ x = r
  <2>1. worker'[q][x] = w
    BY <1>1 DEF SetWorker, TypeOK
  <2> QED BY <1>1, <2>1, RecordedKept DEF WorkerRecorded, Alive
<1>2. CASE ~(q = p /\ x = r)
  <2>1. worker'[q][x] = worker[q][x]
    BY <1>2 DEF SetWorker, TypeOK
  <2> QED BY <2>1, RecordedKept DEF LedgerInv, WorkerRecorded, Alive
<1> QED BY <1>1, <1>2

\* A running thread that moves on with its outcome, or with another one.
LEMMA GotoKept ==
  ASSUME TypeOK, LedgerInv, [Next]_vars, UNCHANGED life,
         NEW p \in Procs, NEW r \in Runs, NEW pc \in WorkerPc, Goto(p, r, pc),
         worker[p][r].pc # "idle", pc \in Ending => worker[p][r].pc \in Ending
  PROVE  \A q \in Procs, x \in Runs : WorkerRecorded(worker[q][x], q, x)'
<1> DEFINE w == [worker[p][r] EXCEPT !.pc = pc, !.passed = FALSE]
<1>1. worker[p][r] \in Worker /\ WorkerRecorded(worker[p][r], p, r)
  BY DEF TypeOK, LedgerInv
<1>2. w.pc = pc /\ w.out = worker[p][r].out
  BY <1>1 DEF Worker
<1>3. SetWorker(p, r, w)
  BY DEF Goto
<1> HIDE DEF w
<1> QED BY <1>1, <1>2, <1>3, SetWorkerKept DEF WorkerRecorded

LEMMA EndWithKept ==
  ASSUME TypeOK, LedgerInv, [Next]_vars, UNCHANGED life,
         NEW p \in Procs, NEW r \in Runs, NEW pc \in WorkerPc, NEW out,
         EndWith(p, r, pc, out), worker[p][r].pc # "idle",
         pc \in Ending =>
           out \in TerminalStatus /\ (out = "CANCELLED" => CancelRecorded(r))
  PROVE  \A q \in Procs, x \in Runs : WorkerRecorded(worker[q][x], q, x)'
<1> DEFINE w == [worker[p][r] EXCEPT !.pc = pc, !.out = out]
<1>1. worker[p][r] \in Worker /\ WorkerRecorded(worker[p][r], p, r)
  BY DEF TypeOK, LedgerInv
<1>2. w.pc = pc /\ w.out = out
  BY <1>1 DEF Worker
<1>3. SetWorker(p, r, w)
  BY DEF EndWith
<1> HIDE DEF w
<1> QED BY <1>1, <1>2, <1>3, SetWorkerKept DEF WorkerRecorded

\* Every step of a worker keeps the invariant.
LEMMA WorkerStepKept ==
  ASSUME TypeOK, LedgerInv, [Next]_vars, NEW p \in Procs, NEW r \in Runs,
         WorkerStep(p, r)
  PROVE  \A q \in Procs, x \in Runs : WorkerRecorded(worker[q][x], q, x)'
<1> USE DEF WorkerPc, SavePoint, Ending
<1> PICK w : w = worker[p][r]
  OBVIOUS
<1>w. w \in Worker /\ WorkerRecorded(w, p, r)
  BY DEF TypeOK, LedgerInv
<1>l. UNCHANGED life
  BY DEF WorkerStep, Begin, SaveFence, SaveWrite, Control, Tool, ControlEvent, Event,
     Finalize, Finish, FailGet, FailEvent, FailFinish
<1>i. IdleWorker.pc = "idle"
  BY DEF IdleWorker
<1>1. CASE Begin(p, r)
  BY <1>1, <1>l, GotoKept DEF Begin
<1>2. CASE SaveFence(p, r)
  <2>1. CASE Fenced(job[r].status, Saved(w))
    <3>1. /\ AfterSave[w.pc] \in WorkerPc
          /\ AfterSave[w.pc] \in Ending => w.pc \in Ending
      BY <1>2 DEF SaveFence, AfterSave
    <3> QED BY <1>2, <1>l, <2>1, <3>1, GotoKept DEF SaveFence
  <2>2. CASE ~Fenced(job[r].status, Saved(w))
    <3> PICK v : v = [w EXCEPT !.passed = TRUE]
      OBVIOUS
    <3>1. v.pc = w.pc /\ v.out = w.out
      BY <1>w DEF Worker
    <3>2. SetWorker(p, r, v)
      BY <1>2, <2>2 DEF SaveFence
    <3>3. Alive(p)
      BY <1>2, <1>w DEF SaveFence, WorkerRecorded
    <3> QED BY <1>w, <1>l, <3>1, <3>2, <3>3, SetWorkerKept DEF WorkerRecorded
  <2> QED BY <2>1, <2>2
<1>3. CASE SaveWrite(p, r)
  <2>1. /\ AfterSave[w.pc] \in WorkerPc
        /\ AfterSave[w.pc] \in Ending => w.pc \in Ending
    BY <1>3 DEF SaveWrite, AfterSave
  <2> QED BY <1>3, <1>l, <2>1, GotoKept DEF SaveWrite
<1>4. CASE Control(p, r)
  <2>1. {"CANCELLED", "TIMED_OUT"} \subseteq TerminalStatus
    BY DEF TerminalStatus
  <2>2. flag[r] => CancelRecorded(r)
    BY DEF LedgerInv, FlagRecorded
  <2> QED BY <1>4, <1>l, <2>1, <2>2, GotoKept, EndWithKept DEF Control
<1>5. CASE Tool(p, r)
  <2>1. CASE w.step + 1 < Steps /\ SetWorker(p, r, [w EXCEPT !.pc = "control", !.step = @ + 1])
    <3> PICK v : v = [w EXCEPT !.pc = "control", !.step = @ + 1]
      OBVIOUS
    <3>1. v.pc = "control"
      BY <1>w DEF Worker
    <3>2. Alive(p)
      BY <1>5, <1>w DEF Tool, WorkerRecorded
    <3> QED BY <1>l, <2>1, <3>1, <3>2, SetWorkerKept
  <2>2. ASSUME NEW out \in Outcomes, EndWith(p, r, "result", out)
        PROVE  \A q \in Procs, x \in Runs : WorkerRecorded(worker[q][x], q, x)'
    <3>1. out \in TerminalStatus /\ out # "CANCELLED"
      BY OutcomesAssumption DEF NaturalOutcome
    <3> QED BY <1>5, <1>l, <2>2, <3>1, EndWithKept DEF Tool
  <2> QED BY <1>5, <2>1, <2>2 DEF Tool
<1>6. CASE ControlEvent(p, r)
  BY <1>6, <1>l, GotoKept DEF ControlEvent
<1>7. CASE Event(p, r)
  BY <1>7, <1>l, GotoKept DEF Event
<1>8. CASE Finalize(p, r)
  <2>1. Alive(p)
    BY <1>8, <1>w DEF Finalize, WorkerRecorded
  <2> QED BY <1>8, <1>l, <1>i, <2>1, GotoKept, SetWorkerKept DEF Finalize
<1>9. CASE Finish(p, r) \/ FailFinish(p, r)
  <2>1. Alive(p)
    BY <1>9, <1>w DEF Finish, FailFinish, WorkerRecorded
  <2> QED BY <1>9, <1>l, <1>i, <2>1, SetWorkerKept DEF Finish, FailFinish
<1>10. CASE FailGet(p, r)
  BY <1>10, <1>l, EndWithKept DEF FailGet
<1>11. CASE FailEvent(p, r)
  BY <1>11, <1>l, GotoKept DEF FailEvent
<1> QED BY <1>1, <1>2, <1>3, <1>4, <1>5, <1>6, <1>7, <1>8, <1>9, <1>10, <1>11
        DEF WorkerStep

\* A worker changes a row only by closing it.
LEMMA WorkerStepRow ==
  ASSUME TypeOK, LedgerInv, NEW p \in Procs, NEW r \in Runs, WorkerStep(p, r)
  PROVE  \A x \in Runs : job'[x] = job[x] \/ job'[x].status \in TerminalStatus
<1>1. job \in [Runs -> [status : JobStatus, owner : Procs \cup {None}]]
  BY DEF TypeOK
<1>2. ASSUME NEW s \in TerminalStatus, FinishJob(r, p, s)
      PROVE  \A x \in Runs : job'[x] = job[x] \/ job'[x].status \in TerminalStatus
  BY <1>1, <1>2 DEF FinishJob
<1>3. CASE Finish(p, r)
  <2>1. worker[p][r].out \in TerminalStatus
    BY <1>3 DEF Finish, LedgerInv, WorkerRecorded, Ending
  <2> QED BY <1>2, <1>3, <2>1 DEF Finish
<1>4. CASE FailFinish(p, r)
  BY <1>2, <1>4 DEF FailFinish, TerminalStatus
<1>5. CASE ~Finish(p, r) /\ ~FailFinish(p, r)
  BY <1>5 DEF WorkerStep, Begin, SaveFence, SaveWrite, Control, Tool, ControlEvent,
     Event, Finalize, FailGet, FailEvent, durable
<1> QED BY <1>3, <1>4, <1>5

\* With one process at a time, every step keeps the invariant.
THEOREM LedgerInvStep ==
  ASSUME ~Overlap
  PROVE  TypeOK /\ LedgerInv /\ [Next]_vars => LedgerInv'
<1> SUFFICES ASSUME TypeOK, LedgerInv, [Next]_vars PROVE LedgerInv'
  OBVIOUS
<1> DEFINE Workers == \A q \in Procs, x \in Runs : WorkerRecorded(worker[q][x], q, x)'
<1> USE DEF durable, threads, history
<1>0. ASSUME Workers, AbsentUnowned', OneAlive', FlagRecorded', SubmitterAlive'
      PROVE  LedgerInv'
  BY <1>0, AskedKnownKept DEF LedgerInv
<1> HIDE DEF Workers
<1>j. job \in [Runs -> [status : JobStatus, owner : Procs \cup {None}]]
  BY DEF TypeOK
<1>c. ASSUME NEW row, NEW p \in Procs PROVE ClaimedBy(row, p).status # Absent
  BY DEF ClaimedBy, Absent
<1>1. ASSUME NEW p \in Procs, Start(p) PROVE LedgerInv'
  <2>1. \A q \in Procs : /\ ~Alive(q)
                         /\ Alive(q)' <=> q = p
    BY <1>1 DEF Start, Alive, TypeOK
  <2>2. OneAlive' /\ SubmitterAlive'
    BY <1>1, <2>1 DEF Start, OneAlive, LedgerInv, SubmitterAlive
  <2>3. Workers
    BY <1>1, <2>1, RecordedKept DEF Start, LedgerInv, WorkerRecorded, Workers
  <2>4. UNCHANGED <<job, flag>>
    BY <1>1 DEF Start
  <2> QED BY <1>0, <2>2, <2>3, <2>4, FlagKept, AbsentKept
<1>2. ASSUME NEW p \in Procs, Serve(p) \/ Close(p) \/ RecoverRaise(p) PROVE LedgerInv'
  <2>1. \A q \in Procs : Alive(q)' <=> Alive(q)
    BY <1>2 DEF Serve, Close, RecoverRaise, Alive, TypeOK
  <2>2. UNCHANGED <<job, flag, sub, worker>>
    BY <1>2 DEF Serve, Close, RecoverRaise
  <2>3. OneAlive' /\ SubmitterAlive'
    BY <2>1, <2>2 DEF OneAlive, LedgerInv, SubmitterAlive
  <2>4. Workers
    BY <2>1, <2>2, RecordedKept DEF LedgerInv, WorkerRecorded, Workers
  <2> QED BY <1>0, <2>2, <2>3, <2>4, FlagKept, AbsentKept
<1>3. ASSUME NEW p \in Procs, Exit(p) \/ Crash(p) PROVE LedgerInv'
  <2>1. /\ ~Alive(p)'
        /\ \A q \in Procs \ {p} : Alive(q)' <=> Alive(q)
    BY <1>3 DEF Exit, Crash, Alive, TypeOK
  <2>2. UNCHANGED <<job, flag>>
    BY <1>3 DEF Exit, Crash
  <2>3. /\ sub'[p] = None
        /\ \A q \in Procs \ {p} : sub'[q] = sub[q]
    BY <1>3 DEF Exit, Crash, TypeOK
  <2>4. OneAlive' /\ SubmitterAlive'
    BY <2>1, <2>3 DEF OneAlive, LedgerInv, SubmitterAlive
  <2>5. /\ \A r \in Runs : worker'[p][r].pc = "idle"
        /\ \A q \in Procs \ {p} : worker'[q] = worker[q]
    BY <1>3 DEF Exit, Crash, TypeOK, IdleWorker
  <2>6. Workers
    <3> SUFFICES ASSUME NEW q \in Procs, NEW x \in Runs
                 PROVE  WorkerRecorded(worker[q][x], q, x)'
      BY DEF Workers
    <3>1. CASE q = p
      BY <2>5, <3>1 DEF WorkerRecorded, Ending
    <3>2. CASE q # p
      BY <2>1, <2>5, <3>2, RecordedKept DEF LedgerInv, WorkerRecorded
    <3> QED BY <3>1, <3>2
  <2> QED BY <1>0, <2>2, <2>4, <2>6, FlagKept, AbsentKept
<1>4. ASSUME NEW p \in Procs, NEW o \in found[p], Recover(p, o) PROVE LedgerInv'
  <2>1. o.run \in Runs /\ Alive(p)
    BY <1>4 DEF TypeOK, Orphan, Recover, Alive
  <2>2. UNCHANGED <<life, sub, flag>>
    BY <1>4 DEF Recover
  <2>3. QueuedWorker.pc \notin Ending
    BY DEF QueuedWorker, IdleWorker, Ending
  <2>4. Workers
    BY <1>4, <2>1, <2>2, <2>3, SetWorkerKept, WorkersKept DEF Recover, Workers
  <2>5. AbsentUnowned'
    <3>1. \A r \in Runs : job'[r] = job[r] \/ job'[r] = ClaimedBy(job[r], p)
      BY <1>4, <2>1, <1>j DEF Recover
    <3> QED BY <1>c, <3>1 DEF LedgerInv, AbsentUnowned
  <2> QED BY <1>0, <2>2, <2>4, <2>5, FlagKept, LifeKept
<1>5. ASSUME NEW p \in Procs, Claim(p) PROVE LedgerInv'
  <2>1. sub[p] \in Runs /\ Alive(p)
    BY <1>5 DEF TypeOK, Claim, LedgerInv, SubmitterAlive
  <2>2. UNCHANGED <<life, flag>>
    BY <1>5 DEF Claim
  <2>3. QueuedWorker.pc \notin Ending
    BY DEF QueuedWorker, IdleWorker, Ending
  <2>4. Workers
    BY <1>5, <2>1, <2>2, <2>3, SetWorkerKept, WorkersKept DEF Claim, Workers
  <2>5. AbsentUnowned'
    <3>1. \A r \in Runs : job'[r] = job[r] \/ job'[r] = ClaimedBy(job[r], p)
      BY <1>5, <2>1, <1>j DEF Claim
    <3> QED BY <1>c, <3>1 DEF LedgerInv, AbsentUnowned
  <2>6. OneAlive' /\ SubmitterAlive'
    BY <1>5, <2>2 DEF Claim, OneAlive, LedgerInv, SubmitterAlive, Alive, TypeOK
  <2> QED BY <1>0, <2>2, <2>4, <2>5, <2>6, FlagKept
<1>6. ASSUME NEW p \in Procs, NEW r \in Runs, Submit(p, r) PROVE LedgerInv'
  <2>1. UNCHANGED <<life, flag, worker>> /\ Alive(p)
    BY <1>6 DEF Submit, Alive
  <2>2. AbsentUnowned'
    BY <1>6, <1>j DEF Submit, LedgerInv, AbsentUnowned, Absent
  <2>3. OneAlive' /\ SubmitterAlive'
    BY <1>6, <2>1 DEF Submit, OneAlive, LedgerInv, SubmitterAlive, Alive, TypeOK
  <2> QED BY <1>0, <2>1, <2>2, <2>3, FlagKept, WorkersKept DEF Workers
<1>7. ASSUME NEW r \in Runs, CancelRequest(r) PROVE LedgerInv'
  <2>1. UNCHANGED <<life, sub, worker>>
    BY <1>7 DEF CancelRequest
  <2>2. \A x \in Runs \ {r} : job'[x] = job[x] /\ flag'[x] = flag[x]
    BY <1>7, <1>j DEF CancelRequest, TypeOK
  <2>3. /\ job'[r].owner = job[r].owner
        /\ job'[r].status = IF job[r].status \in {"QUEUED", "RUNNING"}
                              THEN "CANCEL_REQUESTED" ELSE job[r].status
    BY <1>7, <1>j DEF CancelRequest
  <2>4. CancelRecorded(r)'
    <3>1. job[r].status \in JobStatus /\ job[r].status # Absent
      BY <1>7, <1>j DEF CancelRequest, NoCancel, LedgerInv, AskedKnown
    <3> QED BY <2>3, <3>1 DEF CancelRecorded, JobStatus, ActiveStatus
  <2>5. FlagRecorded'
    BY <2>2, <2>4, RecordedKept DEF LedgerInv, FlagRecorded
  <2>6. AbsentUnowned'
    BY <2>2, <2>3 DEF LedgerInv, AbsentUnowned, Absent
  <2> QED BY <1>0, <2>1, <2>5, <2>6, LifeKept, WorkersKept DEF Workers
<1>8. ASSUME NEW p \in Procs, NEW r \in Runs, Expire(p, r) PROVE LedgerInv'
  <2>1. UNCHANGED <<life, sub, worker>>
    BY <1>8 DEF Expire
  <2>2. \A x \in Runs \ {r} : job'[x] = job[x] /\ flag'[x] = flag[x]
    BY <1>8, <1>j DEF Expire, TypeOK
  <2>3. job'[r].status = "TIMED_OUT"
    BY <1>8, <1>j DEF Expire
  <2>4. CancelRecorded(r)'
    BY <2>3 DEF CancelRecorded, TerminalStatus
  <2>5. FlagRecorded'
    BY <2>2, <2>4, RecordedKept DEF LedgerInv, FlagRecorded
  <2>6. AbsentUnowned'
    BY <2>2, <2>3 DEF LedgerInv, AbsentUnowned, Absent
  <2> QED BY <1>0, <2>1, <2>5, <2>6, LifeKept, WorkersKept DEF Workers
<1>9. ASSUME NEW p \in Procs,
             ReapStep(p) \/ ReapFail(p) \/ \E r \in Runs : CancelReserve(p, r)
      PROVE  LedgerInv'
  <2>1. UNCHANGED <<job, life, flag, sub, worker>>
    BY <1>9 DEF ReapStep, ReapGet, ReapSave, ReapEvent, ReapFail, CancelReserve
  <2> QED BY <1>0, <2>1, AbsentKept, FlagKept, LifeKept, WorkersKept DEF Workers
<1>10. ASSUME NEW p \in Procs, NEW r \in Runs, Raise(p, r) PROVE LedgerInv'
  <2>1. UNCHANGED <<job, life, flag, sub>>
    BY <1>10 DEF Raise
  <2>2. Workers
    BY <1>10, <2>1, RaiseMoves, GotoKept DEF WorkerPc, Ending, Workers
  <2> QED BY <1>0, <2>1, <2>2, AbsentKept, FlagKept, LifeKept
<1>11. ASSUME NEW p \in Procs, NEW r \in Runs, WorkerStep(p, r) PROVE LedgerInv'
  <2>1. UNCHANGED <<life, flag, sub>>
    BY <1>11 DEF WorkerStep, Begin, SaveFence, SaveWrite, Control, Tool,
       ControlEvent, Event, Finalize, Finish, FailGet, FailEvent, FailFinish
  <2>2. AbsentUnowned'
    <3>1. \A x \in Runs : job'[x] = job[x] \/ job'[x].status \in TerminalStatus
      BY <1>11, WorkerStepRow
    <3> QED BY <3>1, Disjoint DEF LedgerInv, AbsentUnowned
  <2>3. Workers
    BY <1>11, WorkerStepKept DEF Workers
  <2> QED BY <1>0, <2>1, <2>2, <2>3, FlagKept, LifeKept
<1>12. CASE Quiet \/ UNCHANGED vars
  <2>1. UNCHANGED <<job, life, flag, sub, worker>>
    BY <1>12 DEF Quiet, vars
  <2> QED BY <1>0, <2>1, AbsentKept, FlagKept, LifeKept, WorkersKept DEF Workers
<1>13. ASSUME NEW r \in Runs, CancelStep(r), ~CancelRequest(r) PROVE LedgerInv'
  BY <1>0, <1>13, CancelApart, AbsentKept, FlagKept, LifeKept, WorkersKept DEF Workers
<1>14. ASSUME NEW p \in Procs, ClaimRaise(p) PROVE LedgerInv'
  <2>1. UNCHANGED <<job, life, flag, worker>>
    BY <1>14 DEF ClaimRaise
  <2>2. OneAlive' /\ SubmitterAlive'
    BY <1>14, <2>1 DEF ClaimRaise, OneAlive, LedgerInv, SubmitterAlive, Alive, TypeOK
  <2> QED BY <1>0, <2>1, <2>2, AbsentKept, FlagKept, WorkersKept DEF Workers
<1> QED BY <1>1, <1>2, <1>3, <1>4, <1>5, <1>6, <1>7, <1>8, <1>9, <1>10, <1>11, <1>12,
           <1>13, <1>14 DEF Next

\* While one process is alive at a time, a cancel that stops a worker is on
\* record in the job row, and threads belong to live processes.
THEOREM LedgerInvariant ==
  ASSUME ~Overlap
  PROVE  Spec => []LedgerInv
<1>1. Init => LedgerInv
  BY DEF Init, LedgerInv, AbsentUnowned, AskedKnown, OneAlive, FlagRecorded, SubmitterAlive,
     WorkerRecorded, IdleWorker, Ending, Alive
<1> QED BY <1>1, LedgerInvStep, TypeInvariant, PTL DEF Spec

\* The job table of a deployment that never runs two service processes at a
\* time keeps every promise of JobLedger.
THEOREM LedgerRefined ==
  ASSUME ~Overlap
  PROVE  Spec => LedgerSpec
<1>1. Init => Ledger!Init
  BY DEF Init, Ledger!Init, Ledger!Absent, Absent, Alive
<1>2. TypeOK /\ LedgerInv /\ [Next]_vars => [Ledger!Next]_(Ledger!vars)
  BY LedgerStep
<1> QED BY <1>1, <1>2, TypeInvariant, LedgerInvariant, PTL
        DEF Spec, LedgerSpec, Ledger!Spec

=============================================================================
