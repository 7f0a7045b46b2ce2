----------------------------- MODULE JobClosure -----------------------------
(***************************************************************************)
(* Who closes a job of AsyncRuns, and what a client then finds: proofs for *)
(* any number of runs, processes, steps and disruptions.                   *)
(***************************************************************************)
EXTENDS LedgerRefinement

-----------------------------------------------------------------------------
(* A job that a serving process owns has its worker.                       *)

\* One thread moves and keeps its job, unless it is rid of it.
LEMMA SetWorkerOwned ==
  ASSUME TypeOK, OwnedInv, NEW p \in Procs, NEW r \in Runs, NEW w, SetWorker(p, r, w),
         UNCHANGED life,
         \A x \in Runs : job'[x].owner = job[x].owner,
         \A x \in Runs : job'[x].status \in ActiveStatus => job[x].status \in ActiveStatus,
         w.pc # "idle" \/ job'[r].status \notin ActiveStatus \/ job[r].owner # p
  PROVE  OwnedJobHasWorker'
<1> SUFFICES ASSUME NEW q \in Procs, NEW x \in Runs,
                    life[q] \in {"recovering", "up"}, job'[x].status \in ActiveStatus,
                    job'[x].owner = q
             PROVE  worker'[q][x].pc # "idle"
  BY DEF OwnedJobHasWorker
<1>1. worker[q][x].pc # "idle"
  BY DEF OwnedInv, OwnedJobHasWorker
<1>2. CASE q = p /\ x = r
  BY <1>2 DEF SetWorker, TypeOK
<1>3. CASE ~(q = p /\ x = r)
  <2>1. worker'[q][x] = worker[q][x]
    BY <1>3 DEF SetWorker, TypeOK
  <2> QED BY <1>1, <2>1
<1> QED BY <1>2, <1>3

\* A worker changes its own record and, if it is the owner, closes the row.
LEMMA WorkerMoves ==
  ASSUME TypeOK, NEW p \in Procs, NEW r \in Runs, WorkerStep(p, r)
  PROVE  \E w :
           /\ SetWorker(p, r, w)
           /\ w.pc # "idle" \/ job'[r].status \notin ActiveStatus \/ job[r].owner # p
<1>w. worker[p][r] \in Worker
  BY DEF TypeOK
<1>g. ASSUME NEW pc, Goto(p, r, pc), pc # "idle"
      PROVE  \E w : SetWorker(p, r, w) /\ w.pc # "idle"
  <2> PICK w : w = [worker[p][r] EXCEPT !.pc = pc, !.passed = FALSE]
    OBVIOUS
  <2>1. w.pc = pc
    BY <1>w DEF Worker
  <2> QED BY <1>g, <2>1 DEF Goto
<1>e. ASSUME NEW pc, NEW out, EndWith(p, r, pc, out), pc # "idle"
      PROVE  \E w : SetWorker(p, r, w) /\ w.pc # "idle"
  <2> PICK w : w = [worker[p][r] EXCEPT !.pc = pc, !.out = out]
    OBVIOUS
  <2>1. w.pc = pc
    BY <1>w DEF Worker
  <2> QED BY <1>e, <2>1 DEF EndWith
<1>a. \A pc \in SavePoint : AfterSave[pc] # "idle"
  BY DEF SavePoint, AfterSave
<1>1. CASE Begin(p, r) \/ ControlEvent(p, r) \/ Event(p, r) \/ FailEvent(p, r) \/ SaveWrite(p, r)
  BY <1>1, <1>g, <1>a DEF Begin, ControlEvent, Event, FailEvent, SaveWrite
<1>2. CASE SaveFence(p, r)
  <2>1. CASE SetWorker(p, r, [worker[p][r] EXCEPT !.passed = TRUE])
    <3> PICK w : w = [worker[p][r] EXCEPT !.passed = TRUE]
      OBVIOUS
    <3>1. w.pc = worker[p][r].pc /\ "idle" \notin SavePoint
      BY <1>w DEF Worker, SavePoint
    <3> QED BY <1>2, <2>1, <3>1 DEF SaveFence
  <2>2. CASE Goto(p, r, AfterSave[worker[p][r].pc])
    BY <1>2, <1>g, <1>a, <2>2 DEF SaveFence
  <2> QED BY <1>2, <2>1, <2>2 DEF SaveFence
<1>3. CASE Control(p, r) \/ FailGet(p, r)
  BY <1>3, <1>g, <1>e DEF Control, FailGet
<1>4. CASE Tool(p, r)
  <2>1. CASE SetWorker(p, r, [worker[p][r] EXCEPT !.pc = "control", !.step = @ + 1])
    <3> PICK w : w = [worker[p][r] EXCEPT !.pc = "control", !.step = @ + 1]
      OBVIOUS
    <3>1. w.pc = "control"
      BY <1>w DEF Worker
    <3> QED BY <2>1, <3>1
  <2>2. CASE \E out \in Outcomes : EndWith(p, r, "result", out)
    BY <1>e, <2>2
  <2> QED BY <1>4, <2>1, <2>2 DEF Tool
<1>5. CASE Finalize(p, r)
  BY <1>5, <1>g DEF Finalize
<1>6. CASE Finish(p, r) \/ FailFinish(p, r)
  <2>1. PICK s \in EventStatus : FinishJob(r, p, s) /\ SetWorker(p, r, IdleWorker)
    BY <1>6, <1>w DEF Finish, FailFinish, Worker, EventStatus, TerminalStatus
  <2>2. s \notin ActiveStatus
    BY Disjoint DEF EventStatus, ActiveStatus, Absent
  <2>3. job[r].owner = p => job'[r].status \notin ActiveStatus
    BY <2>1, <2>2 DEF FinishJob, TypeOK
  <2> QED BY <2>1, <2>3
<1> QED BY <1>1, <1>2, <1>3, <1>4, <1>5, <1>6 DEF WorkerStep

\* A worker takes no job from anybody and activates none.
LEMMA WorkerRow ==
  ASSUME TypeOK, NEW p \in Procs, NEW r \in Runs, WorkerStep(p, r)
  PROVE  \A x \in Runs :
           /\ job'[x].owner = job[x].owner
           /\ job'[x].status \in ActiveStatus => job[x].status \in ActiveStatus
<1>1. ASSUME NEW s, FinishJob(r, p, s)
      PROVE  \A x \in Runs :
               /\ job'[x].owner = job[x].owner
               /\ job'[x].status \in ActiveStatus => job[x].status \in ActiveStatus
  BY <1>1 DEF FinishJob, TypeOK
<1>2. CASE UNCHANGED job
  BY <1>2
<1> QED BY <1>1, <1>2 DEF WorkerStep, Begin, SaveFence, SaveWrite, Control, Tool, ControlEvent,
           Event, Finalize, Finish, FailGet, FailEvent, FailFinish, durable

\* A claim by a process that is alive and schedules what it claims, unless it
\* is closing.
Claims(p, r) ==
  /\ job'[r].owner = p
  /\ \A x \in Runs \ {r} : job'[x] = job[x]
  /\ SetWorker(p, r, QueuedWorker) \/ (UNCHANGED worker /\ life[p] = "closing")

LEMMA ClaimOwned ==
  ASSUME TypeOK, OwnedInv, NEW p \in Procs, NEW r \in Runs, Alive(p), Claims(p, r),
         UNCHANGED <<life, used>>
  PROVE  /\ OwnedJobHasWorker'
         /\ \A x \in Runs : job'[x].owner \in used' \cup {None}
<1>1. job'[r].owner = p /\ \A x \in Runs \ {r} : job'[x] = job[x]
  BY DEF Claims
<1>2. p \in used
  BY DEF OwnedInv
<1>3. QueuedWorker.pc = "queued"
  BY DEF QueuedWorker, IdleWorker
<1>4. ASSUME NEW q \in Procs, NEW x \in Runs, life[q] \in {"recovering", "up"},
             job'[x].status \in ActiveStatus, job'[x].owner = q
      PROVE  worker'[q][x].pc # "idle"
  <2>1. CASE x = r
    <3>1. q = p
      BY <1>1, <1>4, <2>1
    <3>2. SetWorker(p, r, QueuedWorker)
      BY <1>4, <3>1 DEF Claims
    <3> QED BY <1>3, <2>1, <3>1, <3>2 DEF SetWorker, TypeOK
  <2>2. CASE x # r
    <3>1. worker[q][x].pc # "idle"
      BY <1>1, <1>4, <2>2 DEF OwnedInv, OwnedJobHasWorker
    <3>2. CASE SetWorker(p, r, QueuedWorker)
      BY <2>2, <3>1, <3>2 DEF SetWorker, TypeOK
    <3>3. CASE UNCHANGED worker
      BY <3>1, <3>3
    <3> QED BY <3>2, <3>3 DEF Claims
  <2> QED BY <2>1, <2>2
<1> QED BY <1>1, <1>2, <1>4 DEF OwnedJobHasWorker, OwnedInv

\* Where pids are not reused, every step keeps the invariant.
THEOREM OwnedInvStep ==
  ASSUME ~ReusePids
  PROVE  TypeOK /\ OwnedInv /\ [Next]_vars => OwnedInv'
<1> SUFFICES ASSUME TypeOK, OwnedInv, [Next]_vars PROVE OwnedInv'
  OBVIOUS
<1> USE DEF durable, threads, history
<1> DEFINE Owners == \A r \in Runs : job'[r].owner \in used' \cup {None}
           Started == \A p \in Procs : Alive(p)' => p \in used'
<1>0. ASSUME OwnedJobHasWorker', SubmitterAlive', Started, Owners PROVE OwnedInv'
  BY <1>0 DEF OwnedInv
<1>s. UNCHANGED <<life, used>> => Started
  BY DEF OwnedInv, Alive
<1>u. UNCHANGED <<life, sub>> => SubmitterAlive'
  BY DEF OwnedInv, SubmitterAlive, Alive
<1>o. UNCHANGED <<job, used>> => Owners
  BY DEF OwnedInv
<1>k. UNCHANGED <<job, life, worker>> => OwnedJobHasWorker'
  BY DEF OwnedInv, OwnedJobHasWorker
<1> HIDE DEF Owners, Started
<1>1. ASSUME NEW p \in Procs, Start(p) PROVE OwnedInv'
  <2>1. p \notin used /\ \A r \in Runs : job[r].owner # p
    BY <1>1, NoneAssumption DEF Start, OwnedInv
  <2>2. UNCHANGED <<job, worker, sub>> /\ used' = used \cup {p}
        /\ \A q \in Procs \ {p} : life'[q] = life[q]
    BY <1>1 DEF Start, TypeOK
  <2>3. OwnedJobHasWorker'
    BY <2>1, <2>2 DEF OwnedInv, OwnedJobHasWorker
  <2>4. life'[p] = "recovering"
    BY <1>1 DEF Start, TypeOK
  <2>5. SubmitterAlive'
    BY <2>2, <2>4 DEF OwnedInv, SubmitterAlive, Alive
  <2>6. Started /\ Owners
    BY <2>2, <2>4 DEF OwnedInv, Alive, Started, Owners
  <2> QED BY <1>0, <2>3, <2>5, <2>6
<1>2. ASSUME NEW p \in Procs, Serve(p) \/ Close(p) \/ RecoverRaise(p) PROVE OwnedInv'
  <2>1. UNCHANGED <<job, worker, sub, used>> /\ \A q \in Procs \ {p} : life'[q] = life[q]
    BY <1>2 DEF Serve, Close, RecoverRaise, TypeOK
  <2>2. \/ life[p] = "recovering" /\ life'[p] = "up"
        \/ life[p] \in {"up", "recovering"} /\ life'[p] = "closing"
    BY <1>2 DEF Serve, Close, RecoverRaise, TypeOK
  <2>3. OwnedJobHasWorker'
    BY <2>1, <2>2 DEF OwnedInv, OwnedJobHasWorker
  <2>4. SubmitterAlive' /\ Started
    BY <2>1, <2>2 DEF OwnedInv, SubmitterAlive, Alive, Started
  <2> QED BY <1>0, <1>o, <2>1, <2>3, <2>4
<1>3. ASSUME NEW p \in Procs, Exit(p) \/ Crash(p) PROVE OwnedInv'
  <2>1. life'[p] = "down" /\ \A q \in Procs \ {p} : life'[q] = life[q]
    BY <1>3 DEF Exit, Crash, TypeOK
  <2>2. UNCHANGED <<job, used>> /\ sub'[p] = None
        /\ \A q \in Procs \ {p} : sub'[q] = sub[q] /\ worker'[q] = worker[q]
    BY <1>3 DEF Exit, Crash, TypeOK
  <2>3. OwnedJobHasWorker'
    BY <2>1, <2>2 DEF OwnedInv, OwnedJobHasWorker
  <2>4. SubmitterAlive' /\ Started
    BY <2>1, <2>2 DEF OwnedInv, SubmitterAlive, Alive, Started
  <2> QED BY <1>0, <1>o, <2>2, <2>3, <2>4
<1>4. ASSUME NEW p \in Procs, NEW o \in found[p], Recover(p, o) PROVE OwnedInv'
  <2>1. o.run \in Runs /\ Alive(p)
    BY <1>4 DEF TypeOK, Orphan, Recover, Alive
  <2>2. UNCHANGED <<life, sub, used>>
    BY <1>4 DEF Recover
  <2>3. UNCHANGED <<job, worker>> \/ Claims(p, o.run)
    <3>1. CASE ~UNCHANGED <<job, worker>>
      <4>1. job' = [job EXCEPT ![o.run] = ClaimedBy(@, p)] /\ SetWorker(p, o.run, QueuedWorker)
        BY <1>4, <3>1 DEF Recover
      <4>2. ClaimedBy(job[o.run], p).owner = p
        BY DEF ClaimedBy
      <4>3. job'[o.run].owner = p /\ \A x \in Runs \ {o.run} : job'[x] = job[x]
        BY <2>1, <4>1, <4>2 DEF TypeOK
      <4> QED BY <4>1, <4>3 DEF Claims
    <3> QED BY <3>1
  <2>4. OwnedJobHasWorker' /\ Owners
    <3>1. CASE UNCHANGED <<job, worker>>
      BY <1>k, <1>o, <2>2, <3>1
    <3>2. CASE ~UNCHANGED <<job, worker>>
      BY <2>1, <2>2, <2>3, <3>2, ClaimOwned DEF Owners
    <3> QED BY <3>1, <3>2
  <2> QED BY <1>0, <1>s, <1>u, <2>2, <2>4
<1>5. ASSUME NEW p \in Procs, Claim(p) PROVE OwnedInv'
  <2>1. sub[p] \in Runs /\ Alive(p)
    BY <1>5 DEF TypeOK, Claim, OwnedInv, SubmitterAlive
  <2>2. UNCHANGED <<life, used>> /\ sub' = [sub EXCEPT ![p] = None]
    BY <1>5 DEF Claim
  <2>3. UNCHANGED <<job, worker>> \/ Claims(p, sub[p])
    <3>1. CASE ClaimableNew(sub[p])
      <4>1. job' = [job EXCEPT ![sub[p]] = ClaimedBy(@, p)]
        BY <1>5, <3>1 DEF Claim
      <4>2. /\ life[p] = "closing" => worker' = worker
            /\ life[p] # "closing" => SetWorker(p, sub[p], QueuedWorker)
        BY <1>5, <3>1 DEF Claim
      <4>3. ClaimedBy(job[sub[p]], p).owner = p
        BY DEF ClaimedBy
      <4>4. job'[sub[p]].owner = p /\ \A x \in Runs \ {sub[p]} : job'[x] = job[x]
        BY <2>1, <4>1, <4>3 DEF TypeOK
      <4> QED BY <4>2, <4>4 DEF Claims
    <3>2. CASE ~ClaimableNew(sub[p])
      BY <1>5, <3>2 DEF Claim
    <3> QED BY <3>1, <3>2
  <2>4. OwnedJobHasWorker' /\ Owners
    <3>1. CASE UNCHANGED <<job, worker>>
      BY <1>k, <1>o, <2>2, <3>1
    <3>2. CASE ~UNCHANGED <<job, worker>>
      BY <2>1, <2>2, <2>3, <3>2, ClaimOwned DEF Owners
    <3> QED BY <3>1, <3>2
  <2>5. SubmitterAlive'
    BY <2>2 DEF OwnedInv, SubmitterAlive, Alive, TypeOK
  <2> QED BY <1>0, <1>s, <2>2, <2>4, <2>5
<1>6. ASSUME NEW p \in Procs, NEW r \in Runs, Submit(p, r) PROVE OwnedInv'
  <2>1. UNCHANGED <<life, used, worker>> /\ sub' = [sub EXCEPT ![p] = r] /\ Alive(p)
    BY <1>6 DEF Submit, Alive
  <2>2. job'[r].owner = None /\ \A x \in Runs \ {r} : job'[x] = job[x]
    BY <1>6 DEF Submit, TypeOK
  <2>3. OwnedJobHasWorker' /\ Owners
    BY <2>1, <2>2, NoneAssumption DEF OwnedInv, OwnedJobHasWorker, Owners
  <2>4. SubmitterAlive'
    BY <2>1 DEF OwnedInv, SubmitterAlive, Alive, TypeOK
  <2> QED BY <1>0, <1>s, <2>1, <2>3, <2>4
<1>7. ASSUME NEW r \in Runs, CancelStep(r) PROVE OwnedInv'
  <2>1. UNCHANGED <<life, used, worker, sub>>
    BY <1>7 DEF CancelStep, CancelRead, CancelRequest, CancelFence, CancelWrite,
       CancelGet, CancelKeepFence, CancelKeepWrite
  <2>2. \A x \in Runs :
          /\ job'[x].owner = job[x].owner
          /\ job'[x].status \in ActiveStatus => job[x].status \in ActiveStatus
    <3>1. CASE CancelRequest(r)
      BY <3>1 DEF CancelRequest, TypeOK, ActiveStatus
    <3>2. CASE ~CancelRequest(r)
      BY <1>7, <3>2, CancelApart
    <3> QED BY <3>1, <3>2
  <2>3. OwnedJobHasWorker' /\ Owners
    BY <2>1, <2>2 DEF OwnedInv, OwnedJobHasWorker, Owners
  <2> QED BY <1>0, <1>s, <1>u, <2>1, <2>3
<1>8. ASSUME NEW p \in Procs, NEW r \in Runs, Expire(p, r) PROVE OwnedInv'
  <2>1. UNCHANGED <<life, used, worker, sub>>
    BY <1>8 DEF Expire
  <2>2. \A x \in Runs :
          /\ job'[x].owner = job[x].owner
          /\ job'[x].status \in ActiveStatus => job[x].status \in ActiveStatus
    BY <1>8 DEF Expire, TypeOK, ActiveStatus
  <2>3. OwnedJobHasWorker' /\ Owners
    BY <2>1, <2>2 DEF OwnedInv, OwnedJobHasWorker, Owners
  <2> QED BY <1>0, <1>s, <1>u, <2>1, <2>3
<1>9. ASSUME NEW p \in Procs,
             ReapStep(p) \/ ReapFail(p) \/ \E r \in Runs : CancelReserve(p, r)
      PROVE  OwnedInv'
  <2>1. UNCHANGED <<job, life, sub, worker, used>>
    BY <1>9 DEF ReapStep, ReapGet, ReapSave, ReapEvent, ReapFail, CancelReserve
  <2> QED BY <1>0, <1>s, <1>u, <1>o, <1>k, <2>1
<1>10. ASSUME NEW p \in Procs, NEW r \in Runs, Raise(p, r) PROVE OwnedInv'
  <2>1. UNCHANGED <<job, life, sub, used>>
    BY <1>10 DEF Raise
  <2> PICK pc \in {"failGet", "failFinish", "lost"} : Goto(p, r, pc)
    BY <1>10, RaiseMoves
  <2> PICK w : w = [worker[p][r] EXCEPT !.pc = pc, !.passed = FALSE]
    OBVIOUS
  <2>2. SetWorker(p, r, w) /\ w.pc # "idle"
    BY DEF Goto, TypeOK, Worker
  <2>3. OwnedJobHasWorker'
    BY <2>1, <2>2, SetWorkerOwned
  <2> QED BY <1>0, <1>s, <1>u, <1>o, <2>1, <2>3
<1>11. ASSUME NEW p \in Procs, NEW r \in Runs, WorkerStep(p, r) PROVE OwnedInv'
  <2>1. UNCHANGED <<life, sub, used>>
    BY <1>11 DEF WorkerStep, Begin, SaveFence, SaveWrite, Control, Tool,
       ControlEvent, Event, Finalize, Finish, FailGet, FailEvent, FailFinish
  <2>2. OwnedJobHasWorker'
    BY <1>11, <2>1, WorkerMoves, WorkerRow, SetWorkerOwned
  <2>3. Owners
    BY <1>11, <2>1, WorkerRow DEF OwnedInv, Owners
  <2> QED BY <1>0, <1>s, <1>u, <2>1, <2>2, <2>3
<1>12. CASE Quiet \/ UNCHANGED vars
  <2>1. UNCHANGED <<job, life, sub, worker, used>>
    BY <1>12 DEF Quiet, vars
  <2> QED BY <1>0, <1>s, <1>u, <1>o, <1>k, <2>1
<1>13. ASSUME NEW p \in Procs, ClaimRaise(p) PROVE OwnedInv'
  <2>1. UNCHANGED <<job, life, worker, used>> /\ sub' = [sub EXCEPT ![p] = None]
    BY <1>13 DEF ClaimRaise
  <2>2. SubmitterAlive'
    BY <2>1 DEF OwnedInv, SubmitterAlive, Alive, TypeOK
  <2> QED BY <1>0, <1>s, <1>o, <1>k, <2>1, <2>2
<1> QED BY <1>1, <1>2, <1>3, <1>4, <1>5, <1>6, <1>7, <1>8, <1>9, <1>10, <1>11, <1>12, <1>13
        DEF Next

\* With any number of processes alive at once, no interleaving of claim,
\* recovery, crash and finish strands a job of a serving process: its worker is
\* there, or an exception that run_job does not catch has ended it.
THEOREM OwnedJobsHaveWorkers ==
  ASSUME ~ReusePids
  PROVE  Spec => [](OwnedInv /\ OwnedJobHasWorker)
<1>1. Init => OwnedInv
  BY DEF Init, OwnedInv, OwnedJobHasWorker, SubmitterAlive, Alive
<1>2. OwnedInv => OwnedJobHasWorker
  BY DEF OwnedInv
<1> QED BY <1>1, <1>2, OwnedInvStep, TypeInvariant, PTL DEF Spec

-----------------------------------------------------------------------------
(* What a closed job was closed with is what a client finds.               *)

ClosedPublished(r) ==
  job[r].status \in TerminalStatus \ {"TIMED_OUT"} /\ ~Asked(r) => PublishedWith(r)

\* The row of a run is left alone, moves within the active statuses or times out.
RowStays(r) ==
  \/ job'[r].status = job[r].status
  \/ job[r].status \in ActiveStatus /\ job'[r].status \in ActiveStatus \cup {"TIMED_OUT"}

LEMMA Statuses ==
  /\ "TIMED_OUT" \in TerminalStatus /\ "FAILED" \in TerminalStatus
  /\ \A s \in ActiveStatus : s \notin TerminalStatus /\ s # "TIMED_OUT"
  /\ "TIMED_OUT" \notin ActiveStatus /\ Absent \notin ActiveStatus \cup {"TIMED_OUT"}
BY DEF TerminalStatus, ActiveStatus, Absent

\* A record of a worker stays in order while the row stays, as long as a result
\* is overwritten only for a run that is cancelled or no longer active.
LEMMA RecordKept ==
  ASSUME NEW r \in Runs, NEW w, WorkerPublishes(w, r), RowStays(r), Asked(r) => Asked(r)',
         snap'[r] = snap[r] \/ Asked(r)' \/ job'[r].status \notin ActiveStatus
  PROVE  WorkerPublishes(w, r)'
BY Statuses DEF WorkerPublishes, RowStays

LEMMA ClosedKept ==
  ASSUME NEW r \in Runs, ClosedPublished(r), RowStays(r), Asked(r) => Asked(r)',
         \/ snap'[r] = snap[r] \/ Asked(r)'
         \/ job'[r].status \notin TerminalStatus \ {"TIMED_OUT"}
  PROVE  ClosedPublished(r)'
BY Statuses DEF ClosedPublished, PublishedWith, RowStays

\* No worker moves, and results are overwritten only where nothing is promised.
LEMMA RestPublished ==
  ASSUME TypeOK, PublishInv, [Next]_vars, UNCHANGED worker,
         \A r \in Runs :
           /\ RowStays(r)
           /\ snap'[r] = snap[r] \/ Asked(r)' \/ job[r].status = "TIMED_OUT"
  PROVE  /\ ClosedJobIsPublished'
         /\ \A p \in Procs, r \in Runs : WorkerPublishes(worker[p][r], r)'
<1>1. \A r \in Runs :
        /\ Asked(r) => Asked(r)'
        /\ job[r].status = "TIMED_OUT" => job'[r].status = "TIMED_OUT"
  BY Kept
<1>2. ClosedJobIsPublished'
  <2> SUFFICES ASSUME NEW r \in Runs PROVE ClosedPublished(r)'
    BY DEF ClosedJobIsPublished, ClosedPublished
  <2>1. ClosedPublished(r)
    BY DEF PublishInv, ClosedJobIsPublished, ClosedPublished
  <2> QED BY <1>1, <2>1, ClosedKept
<1>3. ASSUME NEW p \in Procs, NEW r \in Runs PROVE WorkerPublishes(worker[p][r], r)'
  <2> PICK w : w = worker[p][r]
    OBVIOUS
  <2>1. WorkerPublishes(w, r) /\ worker'[p][r] = w
    BY DEF PublishInv
  <2>2. WorkerPublishes(w, r)'
    BY <1>1, <2>1, RecordKept, Statuses
  <2> QED BY <2>1, <2>2 DEF WorkerPublishes
<1> QED BY <1>2, <1>3

\* One worker moves; the others of its run are idle, for their processes are
\* down.
LEMMA SetWorkerPublishes ==
  ASSUME TypeOK, LedgerInv, PublishInv, [Next]_vars,
         NEW p \in Procs, NEW r \in Runs, NEW v, SetWorker(p, r, v), Alive(p),
         \A x \in Runs \ {r} : job'[x] = job[x] /\ snap'[x] = snap[x],
         WorkerPublishes(v, r)'
  PROVE  \A q \in Procs, x \in Runs : WorkerPublishes(worker[q][x], x)'
<1> SUFFICES ASSUME NEW q \in Procs, NEW x \in Runs
             PROVE  WorkerPublishes(worker[q][x], x)'
  OBVIOUS
<1>1. CASE q = p /\ x = r
  <2>1. worker'[q][x] = v
    BY <1>1 DEF SetWorker, TypeOK
  <2> QED BY <1>1, <2>1 DEF WorkerPublishes
<1>2. CASE q # p /\ x = r
  <2>1. worker'[q][x] = worker[q][x]
    BY <1>2 DEF SetWorker, TypeOK
  <2>2. worker[q][x].pc = "idle"
    BY <1>2 DEF LedgerInv, OneAlive, WorkerRecorded
  <2> QED BY <2>1, <2>2 DEF WorkerPublishes
<1>3. CASE x # r
  <2> PICK w : w = worker[q][x]
    OBVIOUS
  <2>1. WorkerPublishes(w, x) /\ worker'[q][x] = w
    BY <1>3 DEF SetWorker, TypeOK, PublishInv
  <2>2. RowStays(x) /\ snap'[x] = snap[x]
    BY <1>3 DEF RowStays
  <2>3. WorkerPublishes(w, x)'
    BY <2>1, <2>2, Kept, RecordKept
  <2> QED BY <2>1, <2>3 DEF WorkerPublishes
<1> QED BY <1>1, <1>2, <1>3

\* Jobs whose row a worker leaves alone are not closed under it.
LEMMA OpenKept ==
  ASSUME TypeOK, PublishInv, [Next]_vars, NEW p \in Procs, NEW r \in Runs,
         worker[p][r].pc # "idle", job' = job,
         \A x \in Runs \ {r} : snap'[x] = snap[x]
  PROVE  ClosedJobIsPublished'
<1> SUFFICES ASSUME NEW x \in Runs PROVE ClosedPublished(x)'
  BY DEF ClosedJobIsPublished, ClosedPublished
<1>1. ClosedPublished(x) /\ RowStays(x)
  BY DEF PublishInv, ClosedJobIsPublished, ClosedPublished, RowStays
<1>2. job[r].status \in ActiveStatus \cup {"TIMED_OUT"}
  BY DEF PublishInv, WorkerPublishes
<1>3. CASE x = r
  BY <1>2, <1>3, Statuses DEF ClosedPublished
<1>4. CASE x # r
  BY <1>1, <1>4, Kept, ClosedKept
<1> QED BY <1>3, <1>4

\* The record a worker moves to is in order.
LEMMA MovePublishes ==
  ASSUME TypeOK, LedgerInv, PublishInv, [Next]_vars, NEW p \in Procs, NEW r \in Runs,
         WorkerStep(p, r) \/ Raise(p, r), ~Finish(p, r), ~FailFinish(p, r)
  PROVE  \E v : SetWorker(p, r, v) /\ WorkerPublishes(v, r)'
<1> USE DEF durable, history
<1> PICK w : w = worker[p][r]
  OBVIOUS
<1>w. w \in Worker /\ WorkerPublishes(w, r) /\ (w.pc \in Ending => w.out \in TerminalStatus)
  BY DEF TypeOK, PublishInv, LedgerInv, WorkerRecorded
<1>k. Asked(r) => Asked(r)'
  BY Kept
<1>g. ASSUME NEW pc, Goto(p, r, pc), UNCHANGED <<job, snap>>, w.pc # "idle", pc # "fail",
             \/ pc \in {"event", "again", "finalize", "finish"} =>
                  w.pc \in {"event", "again", "finalize", "finish"}
             \/ job[r].status \notin ActiveStatus,
             \/ pc \in {"failEvent", "failFinish"} => w.pc \in {"failEvent", "failFinish"}
             \/ job[r].status \notin ActiveStatus
      PROVE  \E v : SetWorker(p, r, v) /\ WorkerPublishes(v, r)'
  <2> PICK v : v = [w EXCEPT !.pc = pc, !.passed = FALSE]
    OBVIOUS
  <2>1. v.pc = pc /\ v.out = w.out
    BY <1>w DEF Worker
  <2>2. WorkerPublishes(v, r)'
    BY <1>w, <1>k, <1>g, <2>1 DEF WorkerPublishes
  <2> QED BY <1>g, <2>2 DEF Goto
<1>e. ASSUME NEW pc, NEW out, EndWith(p, r, pc, out), UNCHANGED <<job, snap>>, w.pc # "idle",
             pc \in {"controlEvent", "result", "fail"}, pc = "fail" => out \in TerminalStatus
      PROVE  \E v : SetWorker(p, r, v) /\ WorkerPublishes(v, r)'
  <2> PICK v : v = [w EXCEPT !.pc = pc, !.out = out]
    OBVIOUS
  <2>1. v.pc = pc /\ v.out = out
    BY <1>w DEF Worker
  <2>2. WorkerPublishes(v, r)'
    BY <1>w, <1>k, <1>e, <2>1 DEF WorkerPublishes
  <2> QED BY <1>e, <2>2 DEF EndWith
<1>1. CASE Begin(p, r)
  BY <1>1, <1>g DEF Begin
<1>2. CASE SaveFence(p, r)
  <2>1. CASE Fenced(job[r].status, Saved(w))
    <3>1. job[r].status \notin ActiveStatus
      BY <2>1, Statuses DEF Fenced
    <3>2. w.pc # "idle" /\ AfterSave[w.pc] # "fail"
      BY <1>2 DEF SaveFence, SavePoint, AfterSave
    <3> QED BY <1>2, <1>g, <2>1, <3>1, <3>2 DEF SaveFence
  <2>2. CASE ~Fenced(job[r].status, Saved(w))
    <3> PICK v : v = [w EXCEPT !.passed = TRUE]
      OBVIOUS
    <3>1. v.pc = w.pc /\ v.out = w.out
      BY <1>w DEF Worker
    <3>2. SetWorker(p, r, v) /\ UNCHANGED <<job, snap>>
      BY <1>2, <2>2 DEF SaveFence
    <3>3. WorkerPublishes(v, r)'
      BY <1>w, <1>k, <3>1, <3>2 DEF WorkerPublishes
    <3> QED BY <3>2, <3>3
  <2> QED BY <2>1, <2>2
<1>3. CASE SaveWrite(p, r)
  <2> PICK v : v = [w EXCEPT !.pc = AfterSave[w.pc], !.passed = FALSE]
    OBVIOUS
  <2>1. v.pc = AfterSave[w.pc] /\ v.out = w.out
    BY <1>w DEF Worker
  <2>2. SetWorker(p, r, v) /\ job' = job /\ snap'[r] = Saved(w) /\ w.pc \in SavePoint
    BY <1>3 DEF SaveWrite, Goto, TypeOK
  <2>3. WorkerPublishes(v, r)'
    BY <1>w, <1>k, <2>1, <2>2 DEF WorkerPublishes, SavePoint, AfterSave, Saved
  <2> QED BY <2>2, <2>3
<1>4. CASE Control(p, r)
  BY <1>4, <1>g, <1>e DEF Control
<1>5. CASE Tool(p, r)
  <2>1. CASE SetWorker(p, r, [w EXCEPT !.pc = "control", !.step = @ + 1])
    <3> PICK v : v = [w EXCEPT !.pc = "control", !.step = @ + 1]
      OBVIOUS
    <3>1. v.pc = "control"
      BY <1>w DEF Worker
    <3>2. WorkerPublishes(v, r)'
      BY <1>5, <1>w, <3>1 DEF WorkerPublishes, Tool
    <3> QED BY <2>1, <3>2
  <2>2. CASE \E out \in Outcomes : EndWith(p, r, "result", out)
    BY <1>5, <1>e, <2>2 DEF Tool
  <2> QED BY <1>5, <2>1, <2>2 DEF Tool
<1>6. CASE ControlEvent(p, r) \/ Event(p, r) \/ FailEvent(p, r)
  BY <1>6, <1>g DEF ControlEvent, Event, FailEvent
<1>7. CASE Finalize(p, r)
  <2>1. WorkerPublishes(IdleWorker, r)'
    BY DEF WorkerPublishes, IdleWorker
  <2> QED BY <1>7, <1>g, <2>1 DEF Finalize
<1>8. CASE FailGet(p, r)
  <2>1. snap[r] \in SnapStatus
    BY DEF TypeOK
  <2>2. (IF snap[r] \in {Absent, "PLANNING"} THEN "FAILED" ELSE snap[r]) \in TerminalStatus
    BY <2>1, Statuses DEF SnapStatus
  <2> QED BY <1>8, <1>e, <2>2 DEF FailGet
<1>9. CASE Raise(p, r)
  BY <1>9, <1>g DEF Raise, Caught, Uncaught
<1> QED BY <1>1, <1>2, <1>3, <1>4, <1>5, <1>6, <1>7, <1>8, <1>9 DEF WorkerStep

\* A worker closes a job with what it has published.
LEMMA ClosePublishes ==
  ASSUME TypeOK, LedgerInv, PublishInv, [Next]_vars, NEW p \in Procs, NEW r \in Runs,
         Finish(p, r) \/ FailFinish(p, r)
  PROVE  ClosedJobIsPublished'
<1> PICK w : w = worker[p][r]
  OBVIOUS
<1>w. WorkerPublishes(w, r) /\ WorkerRecorded(w, p, r)
  BY DEF PublishInv, LedgerInv
<1>1. snap' = snap /\ w.pc # "idle"
  BY DEF Finish, FailFinish
<1>2. PICK s : /\ FinishJob(r, p, s)
               /\ s \in TerminalStatus
               /\ job[r].status \in ActiveStatus /\ ~Asked(r) =>
                    snap[r] \in TerminalStatus /\ (s # "FAILED" => snap[r] = s)
  <2>1. CASE Finish(p, r)
    <3>1. w.out \in TerminalStatus
      BY <1>w, <2>1 DEF Finish, WorkerRecorded, Ending
    <3>2. job[r].status \in ActiveStatus /\ ~Asked(r) => snap[r] = w.out
      BY <1>w, <2>1 DEF Finish, WorkerPublishes
    <3> QED BY <2>1, <3>1, <3>2 DEF Finish
  <2>2. CASE FailFinish(p, r)
    BY <1>w, <2>2, Statuses DEF FailFinish, WorkerPublishes
  <2> QED BY <2>1, <2>2
<1> SUFFICES ASSUME NEW x \in Runs PROVE ClosedPublished(x)'
  BY DEF ClosedJobIsPublished, ClosedPublished
<1>3. ClosedPublished(x) /\ (Asked(x) => Asked(x)')
  BY Kept DEF PublishInv, ClosedJobIsPublished, ClosedPublished
<1>4. CASE job'[x] = job[x]
  BY <1>1, <1>3, <1>4, ClosedKept DEF RowStays
<1>5. CASE job'[x] # job[x]
  <2>1. x = r /\ job'[r].status = s /\ job[r].status \in ActiveStatus
    BY <1>2, <1>5 DEF FinishJob, TypeOK
  <2> QED BY <1>1, <1>2, <1>3, <2>1 DEF ClosedPublished, PublishedWith
<1> QED BY <1>4, <1>5

\* With one process at a time, every step keeps the invariant.
THEOREM PublishInvStep ==
  TypeOK /\ LedgerInv /\ PublishInv /\ [Next]_vars => PublishInv'
<1> SUFFICES ASSUME TypeOK, LedgerInv, PublishInv, [Next]_vars PROVE PublishInv'
  OBVIOUS
<1> USE DEF durable, threads, history
<1> DEFINE Workers == \A q \in Procs, x \in Runs : WorkerPublishes(worker[q][x], x)'
           Reapers == \A q \in Procs :
                        reap'[q].pc # "idle" =>
                          reap'[q].run \in Runs /\ job'[reap'[q].run].status = "TIMED_OUT"
<1>0. ASSUME ClosedJobIsPublished', Workers, Reapers PROVE PublishInv'
  BY <1>0 DEF PublishInv, WorkerPublishes
<1>r. UNCHANGED reap => Reapers
  <2> SUFFICES ASSUME UNCHANGED reap, NEW q \in Procs, reap[q].pc # "idle"
               PROVE  reap[q].run \in Runs /\ job'[reap[q].run].status = "TIMED_OUT"
    BY DEF Reapers
  <2> QED BY Kept DEF PublishInv
<1>s. ASSUME UNCHANGED worker,
             \A r \in Runs :
               /\ RowStays(r)
               /\ snap'[r] = snap[r] \/ Asked(r)' \/ job[r].status = "TIMED_OUT"
      PROVE  ClosedJobIsPublished' /\ Workers
  BY <1>s, RestPublished
<1> HIDE DEF Workers, Reapers
<1>1. ASSUME NEW p \in Procs,
             \/ Start(p) \/ Serve(p) \/ Close(p) \/ RecoverRaise(p) \/ ClaimRaise(p)
             \/ \E r \in Runs : CancelReserve(p, r)
      PROVE  PublishInv'
  <2>1. UNCHANGED <<job, snap, worker, reap>>
    BY <1>1 DEF Start, Serve, Close, RecoverRaise, ClaimRaise, CancelReserve
  <2> QED BY <1>0, <1>r, <1>s, <2>1 DEF RowStays
<1>2. ASSUME NEW p \in Procs, Exit(p) \/ Crash(p) PROVE PublishInv'
  <2>1. UNCHANGED <<job, snap>>
    BY <1>2 DEF Exit, Crash
  <2>2. Reapers
    <3>1. \A q \in Procs : reap'[q] = IdleReaper \/ reap'[q] = reap[q]
      BY <1>2 DEF Exit, Crash, TypeOK
    <3>2. IdleReaper.pc = "idle"
      BY DEF IdleReaper
    <3> QED BY <2>1, <3>1, <3>2 DEF PublishInv, Reapers
  <2>3. Workers
    <3> SUFFICES ASSUME NEW q \in Procs, NEW x \in Runs
                 PROVE  WorkerPublishes(worker[q][x], x)'
      BY DEF Workers
    <3>1. CASE q = p
      BY <1>2, <3>1 DEF Exit, Crash, TypeOK, WorkerPublishes, IdleWorker
    <3>2. CASE q # p
      <4> PICK w : w = worker[q][x]
        OBVIOUS
      <4>1. worker'[q][x] = w /\ WorkerPublishes(w, x)
        BY <1>2, <3>2 DEF Exit, Crash, TypeOK, PublishInv
      <4>2. WorkerPublishes(w, x)'
        BY <2>1, <4>1, Kept, RecordKept DEF RowStays
      <4> QED BY <4>1, <4>2 DEF WorkerPublishes
    <3> QED BY <3>1, <3>2
  <2>4. ClosedJobIsPublished'
    BY <2>1, Kept DEF PublishInv, ClosedJobIsPublished, PublishedWith
  <2> QED BY <1>0, <2>2, <2>3, <2>4
<1>c. ASSUME NEW p \in Procs, NEW r \in Runs, Alive(p), UNCHANGED <<snap, reap>>,
             job' = [job EXCEPT ![r] = ClaimedBy(@, p)], job[r].status \in ActiveStatus,
             SetWorker(p, r, QueuedWorker) \/ UNCHANGED worker
      PROVE  PublishInv'
  <2>1. ClaimedBy(job[r], p).status \in ActiveStatus
    BY DEF ClaimedBy, ActiveStatus
  <2>2. job'[r].status \in ActiveStatus /\ \A x \in Runs \ {r} : job'[x] = job[x]
    BY <1>c, <2>1 DEF TypeOK
  <2>3. \A x \in Runs : RowStays(x)
    BY <1>c, <2>2 DEF RowStays
  <2>4. WorkerPublishes(QueuedWorker, r)'
    <3>1. QueuedWorker.pc = "queued"
      BY DEF QueuedWorker, IdleWorker
    <3> QED BY <2>2, <3>1 DEF WorkerPublishes
  <2>5. ClosedJobIsPublished'
    BY <1>c, <2>3, Kept, ClosedKept
       DEF PublishInv, ClosedJobIsPublished, ClosedPublished
  <2>6. CASE SetWorker(p, r, QueuedWorker)
    <3>1. Workers
      BY <1>c, <2>2, <2>4, <2>6, SetWorkerPublishes DEF Workers
    <3> QED BY <1>0, <1>r, <1>c, <2>5, <3>1
  <2>7. CASE UNCHANGED worker
    BY <1>0, <1>r, <1>s, <1>c, <2>3, <2>7
  <2> QED BY <1>c, <2>6, <2>7
<1>3. ASSUME NEW p \in Procs, NEW o \in found[p], Recover(p, o) PROVE PublishInv'
  <2>1. o.run \in Runs /\ Alive(p) /\ UNCHANGED <<snap, reap>>
    BY <1>3 DEF TypeOK, Orphan, Recover, Alive
  <2>2. CASE UNCHANGED <<job, worker>>
    BY <1>0, <1>r, <1>s, <2>1, <2>2 DEF RowStays
  <2>3. CASE ~UNCHANGED <<job, worker>>
    <3>1. /\ job' = [job EXCEPT ![o.run] = ClaimedBy(@, p)]
          /\ SetWorker(p, o.run, QueuedWorker)
          /\ job[o.run].status \in ActiveStatus
      BY <1>3, <2>3 DEF Recover, ClaimableOrphan
    <3> QED BY <1>c, <2>1, <3>1
  <2> QED BY <2>2, <2>3
<1>4. ASSUME NEW p \in Procs, Claim(p) PROVE PublishInv'
  <2>1. sub[p] \in Runs /\ Alive(p) /\ UNCHANGED <<snap, reap>>
    BY <1>4 DEF TypeOK, Claim, LedgerInv, SubmitterAlive
  <2>2. CASE ~ClaimableNew(sub[p])
    <3>1. UNCHANGED <<job, worker>>
      BY <1>4, <2>2 DEF Claim
    <3> QED BY <1>0, <1>r, <1>s, <2>1, <3>1 DEF RowStays
  <2>3. CASE ClaimableNew(sub[p])
    <3>1. /\ job' = [job EXCEPT ![sub[p]] = ClaimedBy(@, p)]
          /\ SetWorker(p, sub[p], QueuedWorker) \/ UNCHANGED worker
      BY <1>4, <2>3 DEF Claim
    <3>2. job[sub[p]].status \in ActiveStatus
      BY <2>3 DEF ClaimableNew
    <3> QED BY <1>c, <2>1, <3>1, <3>2
  <2> QED BY <2>2, <2>3
<1>5. ASSUME NEW p \in Procs, NEW r \in Runs, Submit(p, r) PROVE PublishInv'
  <2>1. UNCHANGED <<worker, reap>> /\ job[r].status = Absent
    BY <1>5 DEF Submit
  <2>2. job'[r].status = "QUEUED"
        /\ \A x \in Runs \ {r} : job'[x] = job[x] /\ snap'[x] = snap[x]
    BY <1>5 DEF Submit, TypeOK
  <2>3. \A q \in Procs : worker[q][r].pc = "idle"
    BY <2>1, Statuses DEF PublishInv, WorkerPublishes
  <2>4. Workers
    <3> SUFFICES ASSUME NEW q \in Procs, NEW x \in Runs
                 PROVE  WorkerPublishes(worker[q][x], x)'
      BY DEF Workers
    <3>1. CASE x = r
      BY <2>1, <2>3, <3>1 DEF WorkerPublishes
    <3>2. CASE x # r
      <4> PICK w : w = worker[q][x]
        OBVIOUS
      <4>1. worker'[q][x] = w /\ WorkerPublishes(w, x)
        BY <2>1 DEF PublishInv
      <4>2. WorkerPublishes(w, x)'
        BY <2>2, <3>2, <4>1, Kept, RecordKept DEF RowStays
      <4> QED BY <4>1, <4>2 DEF WorkerPublishes
    <3> QED BY <3>1, <3>2
  <2>5. ClosedJobIsPublished'
    <3> SUFFICES ASSUME NEW x \in Runs PROVE ClosedPublished(x)'
      BY DEF ClosedJobIsPublished, ClosedPublished
    <3>1. CASE x = r
      BY <2>2, <3>1, Statuses DEF ClosedPublished, ActiveStatus
    <3>2. CASE x # r
      <4>1. ClosedPublished(x) /\ RowStays(x)
        BY <2>2, <3>2 DEF PublishInv, ClosedJobIsPublished, ClosedPublished, RowStays
      <4> QED BY <2>2, <3>2, <4>1, Kept, ClosedKept
    <3> QED BY <3>1, <3>2
  <2> QED BY <1>0, <1>r, <2>1, <2>4, <2>5
<1>6. ASSUME NEW r \in Runs, CancelStep(r) PROVE PublishInv'
  <2>1. UNCHANGED <<worker, reap>> /\ Asked(r)'
    BY <1>6, CancelAsked DEF CancelStep, CancelRead, CancelRequest, CancelFence, CancelWrite,
       CancelGet, CancelKeepFence, CancelKeepWrite
  <2>2. \A x \in Runs \ {r} : snap'[x] = snap[x]
    BY <1>6 DEF CancelStep, CancelRead, CancelRequest, CancelFence, CancelWrite,
       CancelGet, CancelKeepFence, CancelKeepWrite, TypeOK
  <2>3. \A x \in Runs : RowStays(x)
    <3>1. CASE CancelRequest(r)
      BY <3>1 DEF CancelRequest, RowStays, ActiveStatus, TypeOK
    <3>2. CASE ~CancelRequest(r)
      BY <1>6, <3>2, CancelApart DEF RowStays
    <3> QED BY <3>1, <3>2
  <2> QED BY <1>0, <1>r, <1>s, <2>1, <2>2, <2>3
<1>7. ASSUME NEW p \in Procs, NEW r \in Runs, Expire(p, r) PROVE PublishInv'
  <2>1. UNCHANGED <<worker, snap>> /\ job[r].status \in ActiveStatus
    BY <1>7 DEF Expire
  <2>2. job'[r].status = "TIMED_OUT" /\ \A x \in Runs \ {r} : job'[x] = job[x]
    BY <1>7 DEF Expire, TypeOK
  <2>3. \A x \in Runs : RowStays(x)
    BY <2>1, <2>2 DEF RowStays
  <2>4. Reapers
    <3>1. \A q \in Procs \ {p} : reap'[q] = reap[q]
      BY <1>7 DEF Expire, TypeOK
    <3>2. reap'[p].run = r
      BY <1>7 DEF Expire, TypeOK
    <3> QED BY <2>2, <3>1, <3>2, Kept DEF PublishInv, Reapers
  <2> QED BY <1>0, <1>s, <2>1, <2>3, <2>4
<1>8. ASSUME NEW p \in Procs, ReapStep(p) \/ ReapFail(p) PROVE PublishInv'
  <2>1. /\ UNCHANGED <<job, worker>> /\ reap[p].pc # "idle"
        /\ \A q \in Procs \ {p} : reap'[q] = reap[q]
    BY <1>8 DEF ReapStep, ReapGet, ReapSave, ReapEvent, ReapFail, TypeOK
  <2>2. reap'[p].pc = "idle" \/ reap'[p].run = reap[p].run
    <3>1. reap[p] \in Reaper /\ IdleReaper.pc = "idle"
      BY DEF TypeOK, IdleReaper
    <3>2. CASE ReapGet(p)
      <4>1. reap'[p] = IdleReaper \/ reap'[p] = [reap[p] EXCEPT !.pc = "save"]
        BY <3>2 DEF ReapGet, TypeOK
      <4> QED BY <3>1, <4>1 DEF Reaper
    <3>3. CASE ReapSave(p)
      <4>1. reap'[p] = [reap[p] EXCEPT !.pc = "event"]
        BY <3>3 DEF ReapSave, TypeOK
      <4> QED BY <3>1, <4>1 DEF Reaper
    <3>4. CASE ReapEvent(p) \/ ReapFail(p)
      BY <3>1, <3>4 DEF ReapEvent, ReapFail, TypeOK
    <3> QED BY <1>8, <3>2, <3>3, <3>4 DEF ReapStep
  <2>3. Reapers
    BY <2>1, <2>2 DEF PublishInv, Reapers
  <2>4. \A x \in Runs : snap'[x] = snap[x] \/ job[x].status = "TIMED_OUT"
    BY <1>8, <2>1 DEF ReapStep, ReapGet, ReapSave, ReapEvent, ReapFail, TypeOK, PublishInv
  <2> QED BY <1>0, <1>s, <2>1, <2>3, <2>4 DEF RowStays
<1>9. ASSUME NEW p \in Procs, NEW r \in Runs, WorkerStep(p, r) \/ Raise(p, r)
      PROVE  PublishInv'
  <2>1. UNCHANGED reap /\ worker[p][r].pc # "idle"
    BY <1>9 DEF WorkerStep, Begin, SaveFence, SaveWrite, Control, Tool, ControlEvent,
       Event, Finalize, Finish, FailGet, FailEvent, FailFinish, Raise, Caught, Uncaught, SavePoint
  <2>2. Alive(p)
    BY <2>1 DEF LedgerInv, WorkerRecorded
  <2>3. CASE Finish(p, r) \/ FailFinish(p, r)
    <3>1. SetWorker(p, r, IdleWorker) /\ snap' = snap
      BY <2>3 DEF Finish, FailFinish
    <3>2. \A x \in Runs \ {r} : job'[x] = job[x]
      BY <2>3 DEF Finish, FailFinish, FinishJob, TypeOK
    <3>3. WorkerPublishes(IdleWorker, r)'
      BY DEF WorkerPublishes, IdleWorker
    <3>4. Workers
      BY <2>2, <3>1, <3>2, <3>3, SetWorkerPublishes DEF Workers
    <3> QED BY <1>0, <1>r, <2>1, <2>3, <3>4, ClosePublishes
  <2>4. CASE ~Finish(p, r) /\ ~FailFinish(p, r)
    <3>1. job' = job /\ \A x \in Runs \ {r} : snap'[x] = snap[x]
      BY <1>9, <2>4 DEF WorkerStep, Begin, SaveFence, SaveWrite, Control, Tool, ControlEvent,
         Event, Finalize, FailGet, FailEvent, Raise, TypeOK
    <3>2. PICK v : SetWorker(p, r, v) /\ WorkerPublishes(v, r)'
      BY <1>9, <2>4, MovePublishes
    <3>3. Workers
      BY <2>2, <3>1, <3>2, SetWorkerPublishes DEF Workers
    <3>4. ClosedJobIsPublished'
      BY <2>1, <3>1, OpenKept
    <3> QED BY <1>0, <1>r, <2>1, <3>3, <3>4
  <2> QED BY <2>3, <2>4
<1>10. CASE Quiet \/ UNCHANGED vars
  <2>1. UNCHANGED <<job, snap, worker, reap>>
    BY <1>10 DEF Quiet, vars
  <2> QED BY <1>0, <1>r, <1>s, <2>1 DEF RowStays
<1> QED BY <1>1, <1>2, <1>3, <1>4, <1>5, <1>6, <1>7, <1>8, <1>9, <1>10 DEF Next

\* Where one process is alive at a time, the job a worker has closed and the
\* result that is polled agree, through any number of crashes, restarts,
\* exceptions and time-outs.
THEOREM ClosedJobsArePublished ==
  ASSUME ~Overlap
  PROVE  Spec => [](PublishInv /\ ClosedJobIsPublished)
<1>1. Init => PublishInv
  BY Statuses DEF Init, PublishInv, ClosedJobIsPublished, WorkerPublishes, IdleWorker,
     IdleReaper, TerminalStatus, Absent
<1>2. PublishInv => ClosedJobIsPublished
  BY DEF PublishInv
<1> QED BY <1>1, <1>2, PublishInvStep, TypeInvariant, LedgerInvariant, PTL DEF Spec


-----------------------------------------------------------------------------
(* A thread that has a job goes on to its end.  No fairness is assumed: a    *)
(* worker that takes steps and that no exception ends returns after a number *)
(* of them that Steps bounds, whatever other threads and processes do.       *)

\* Where a worker is on its way; the handler of run_job is behind everything
\* that it catches.
Leg ==
  [idle |-> 0, queued |-> 1, plan |-> 2, control |-> 3, tool |-> 4, controlEvent |-> 5,
   result |-> 6, event |-> 7, again |-> 8, finalize |-> 9, finish |-> 10,
   failGet |-> 11, fail |-> 12, failEvent |-> 13, failFinish |-> 14]

\* A worker has gone on: it has done another tool step, has come to a later place or
\* is past the fence of a save.
Onward(w, v) ==
  \/ v.step > w.step
  \/ v.step = w.step /\ Leg[v.pc] > Leg[w.pc]
  \/ v.step = w.step /\ v.pc = w.pc /\ ~w.passed /\ v.passed

\* A worker has returned, and its process has no active job of this run left.
Returned(p, r) ==
  /\ worker'[p][r] = IdleWorker
  /\ job'[r].status \in ActiveStatus => job'[r].owner # p

\* An exception has left run_job in front of its try, in its handler or behind it,
\* and has ended the worker; its job is left as it was.
Lost(p, r) ==
  /\ worker[p][r].pc \in Uncaught /\ worker'[p][r].pc = "lost"
  /\ disruptions' = disruptions + 1
  /\ job' = job

\* What a worker does in a step of the system; one that is lost stays so until its
\* process is gone.
GoesOn(p, r) ==
  /\ WorkerStep(p, r) => Onward(worker[p][r], worker'[p][r]) \/ Returned(p, r)
  /\ worker[p][r].pc # "idle" =>
       \/ worker'[p][r] = worker[p][r]
       \/ life'[p] = "down"
       \/ /\ worker[p][r].pc # "lost"
          /\ Onward(worker[p][r], worker'[p][r]) \/ Returned(p, r) \/ Lost(p, r)

WorkersGoOn == [][\A p \in Procs, r \in Runs : GoesOn(p, r)]_vars

\* A worker that goes to close its job knows how.
EndKnown(w) == w.pc \in Ending => w.out \in TerminalStatus

\* Why no thread is replaced by another: a job nobody owns has no worker, and a
\* process that starts has one for no job it is still to look at.
FreshWorkers ==
  /\ AbsentUnowned
  /\ \A p \in Procs, r \in Runs : EndKnown(worker[p][r])
  /\ \A r \in Runs : job[r].owner = None => \A p \in Procs : worker[p][r].pc = "idle"
  /\ \A p \in Procs :
       /\ life[p] = "down" => \A r \in Runs : worker[p][r].pc = "idle"
       /\ life[p] \in {"down", "recovering"} => sub[p] = None
       /\ life[p] = "recovering" =>
            /\ \A o \in found[p] : worker[p][o.run].pc = "idle"
            /\ \A o, n \in found[p] : o.run = n.run => o = n

LEMMA GotoSeen ==
  ASSUME TypeOK, NEW p \in Procs, NEW r \in Runs, NEW pc, Goto(p, r, pc)
  PROVE  /\ worker'[p][r].pc = pc /\ worker'[p][r].step = worker[p][r].step
         /\ worker'[p][r].out = worker[p][r].out
<1> DEFINE w == [worker[p][r] EXCEPT !.pc = pc, !.passed = FALSE]
<1>1. worker'[p][r] = w
  BY DEF Goto, SetWorker, TypeOK
<1>2. w.pc = pc /\ w.step = worker[p][r].step /\ w.out = worker[p][r].out
  BY DEF TypeOK, Worker
<1> QED BY <1>1, <1>2

LEMMA EndWithSeen ==
  ASSUME TypeOK, NEW p \in Procs, NEW r \in Runs, NEW pc, NEW out, EndWith(p, r, pc, out)
  PROVE  /\ worker'[p][r].pc = pc /\ worker'[p][r].step = worker[p][r].step
         /\ worker'[p][r].out = out
<1> DEFINE w == [worker[p][r] EXCEPT !.pc = pc, !.out = out]
<1>1. worker'[p][r] = w
  BY DEF EndWith, SetWorker, TypeOK
<1>2. w.pc = pc /\ w.step = worker[p][r].step /\ w.out = out
  BY DEF TypeOK, Worker
<1> QED BY <1>1, <1>2

\* A later place of the same step is progress.
LEMMA LaterOnward ==
  ASSUME NEW w, NEW v, v.step = w.step,
         \/ w.pc = "queued" /\ v.pc = "plan"
         \/ w.pc = "plan" /\ v.pc = "control"
         \/ w.pc = "control" /\ v.pc \in {"tool", "controlEvent"}
         \/ w.pc \in {"tool", "controlEvent"} /\ v.pc = "result"
         \/ w.pc = "result" /\ v.pc = "event"
         \/ w.pc = "event" /\ v.pc = "again"
         \/ w.pc = "again" /\ v.pc = "finalize"
         \/ w.pc = "finalize" /\ v.pc = "finish"
         \/ w.pc \in Caught /\ v.pc = "failGet"
         \/ w.pc = "failGet" /\ v.pc = "fail"
         \/ w.pc = "fail" /\ v.pc = "failEvent"
         \/ w.pc = "failEvent" /\ v.pc = "failFinish"
  PROVE  Onward(w, v)
BY DEF Onward, Leg, Caught

\* What a worker does by itself takes it on, or it returns.
LEMMA WorkerGoesOn ==
  ASSUME TypeOK, NEW p \in Procs, NEW r \in Runs, WorkerStep(p, r)
  PROVE  Onward(worker[p][r], worker'[p][r]) \/ Returned(p, r)
<1> DEFINE w == worker[p][r]
           v == worker'[p][r]
<1>w. w \in Worker /\ Steps \in Nat
  BY BoundsAssumption DEF TypeOK
<1>s. ASSUME NEW x, SetWorker(p, r, x) PROVE v = x
  BY <1>s DEF SetWorker, TypeOK
<1> HIDE DEF w, v
<1>1. CASE Begin(p, r)
  <2>1. w.pc = "queued" /\ v.pc = "plan" /\ v.step = w.step
    BY <1>1, GotoSeen DEF Begin, w, v
  <2> QED BY <2>1, LaterOnward DEF w, v
<1>2. ASSUME w.pc \in SavePoint, Goto(p, r, AfterSave[w.pc])
      PROVE  Onward(w, v)
  <2>1. v.pc = AfterSave[w.pc] /\ v.step = w.step
    BY <1>2, GotoSeen DEF w, v
  <2>2. \/ w.pc = "plan" /\ v.pc = "control"
        \/ w.pc = "result" /\ v.pc = "event"
        \/ w.pc = "again" /\ v.pc = "finalize"
        \/ w.pc = "fail" /\ v.pc = "failEvent"
    BY <1>2, <2>1 DEF SavePoint, AfterSave
  <2> QED BY <2>1, <2>2, LaterOnward
<1>3. CASE SaveFence(p, r)
  <2>1. CASE SetWorker(p, r, [w EXCEPT !.passed = TRUE])
    <3> DEFINE u == [w EXCEPT !.passed = TRUE]
    <3>1. u.pc = w.pc /\ u.step = w.step /\ u.passed
      BY <1>w DEF Worker
    <3>2. v = u
      BY <1>s, <2>1
    <3> HIDE DEF u
    <3>3. ~w.passed
      BY <1>3 DEF SaveFence, w
    <3> QED BY <3>1, <3>2, <3>3 DEF Onward, w, v
  <2>2. CASE Goto(p, r, AfterSave[w.pc])
    <3>1. w.pc \in SavePoint
      BY <1>3 DEF SaveFence, w
    <3> QED BY <1>2, <2>2, <3>1 DEF w, v
  <2> QED BY <1>3, <2>1, <2>2 DEF SaveFence, w
<1>4. CASE SaveWrite(p, r)
  <2>1. w.pc \in SavePoint /\ Goto(p, r, AfterSave[w.pc])
    BY <1>4 DEF SaveWrite, w
  <2> QED BY <1>2, <2>1 DEF w, v
<1>5. CASE Control(p, r)
  <2>1. w.pc = "control" /\ v.pc \in {"tool", "controlEvent"} /\ v.step = w.step
    BY <1>5, GotoSeen, EndWithSeen DEF Control, w, v
  <2> QED BY <2>1, LaterOnward DEF w, v
<1>6. CASE Tool(p, r)
  <2>1. CASE SetWorker(p, r, [w EXCEPT !.pc = "control", !.step = @ + 1])
    <3> DEFINE u == [w EXCEPT !.pc = "control", !.step = @ + 1]
    <3>1. u.step = w.step + 1 /\ w.step \in Nat
      BY <1>w DEF Worker
    <3>2. v = u
      BY <1>s, <2>1
    <3> HIDE DEF u
    <3>3. v.step > w.step
      BY <3>1, <3>2
    <3> QED BY <3>3 DEF Onward, w, v
  <2>2. CASE \E out \in Outcomes : EndWith(p, r, "result", out)
    <3>1. w.pc = "tool" /\ v.pc = "result" /\ v.step = w.step
      BY <1>6, <2>2, EndWithSeen DEF Tool, w, v
    <3> QED BY <3>1, LaterOnward DEF w, v
  <2> QED BY <1>6, <2>1, <2>2 DEF Tool, w
<1>7. CASE ControlEvent(p, r)
  <2>1. w.pc = "controlEvent" /\ v.pc = "result" /\ v.step = w.step
    BY <1>7, GotoSeen DEF ControlEvent, w, v
  <2> QED BY <2>1, LaterOnward DEF w, v
<1>8. CASE Event(p, r)
  <2>1. w.pc = "event" /\ v.pc = "again" /\ v.step = w.step
    BY <1>8, GotoSeen DEF Event, w, v
  <2> QED BY <2>1, LaterOnward DEF w, v
<1>9. CASE Finalize(p, r)
  <2>1. CASE job[r].owner = p
    <3>1. w.pc = "finalize" /\ v.pc = "finish" /\ v.step = w.step
      BY <1>9, <2>1, GotoSeen DEF Finalize, w, v
    <3> QED BY <3>1, LaterOnward DEF w, v
  <2>2. CASE job[r].owner # p
    <3>1. v = IdleWorker /\ job' = job
      BY <1>9, <1>s, <2>2 DEF Finalize, durable
    <3> QED BY <2>2, <3>1 DEF Returned, v
  <2> QED BY <2>1, <2>2
<1>10. CASE FailGet(p, r)
  <2>1. w.pc = "failGet" /\ v.pc = "fail" /\ v.step = w.step
    BY <1>10, EndWithSeen DEF FailGet, w, v
  <2> QED BY <2>1, LaterOnward DEF w, v
<1>11. CASE FailEvent(p, r)
  <2>1. w.pc = "failEvent" /\ v.pc = "failFinish" /\ v.step = w.step
    BY <1>11, GotoSeen DEF FailEvent, w, v
  <2> QED BY <2>1, LaterOnward DEF w, v
<1>12. CASE Finish(p, r) \/ FailFinish(p, r)
  <2>1. v = IdleWorker
    BY <1>12, <1>s DEF Finish, FailFinish
  <2>2. PICK st \in EventStatus : FinishJob(r, p, st)
    BY <1>12, <1>w DEF Finish, FailFinish, Worker, EventStatus, TerminalStatus, w
  <2>3. st \notin ActiveStatus
    BY Disjoint DEF EventStatus, ActiveStatus, Absent
  <2>4. job[r].owner = p => job'[r].status \notin ActiveStatus
    BY <2>2, <2>3 DEF FinishJob, TypeOK
  <2>5. job'[r].owner = job[r].owner
    BY <2>2 DEF FinishJob, TypeOK
  <2> QED BY <2>1, <2>4, <2>5 DEF Returned, v
<1> QED
  BY <1>1, <1>3, <1>4, <1>5, <1>6, <1>7, <1>8, <1>9, <1>10, <1>11, <1>12
     DEF WorkerStep, w, v

LEMMA RaiseGoesOn ==
  ASSUME TypeOK, NEW p \in Procs, NEW r \in Runs, Raise(p, r)
  PROVE  Onward(worker[p][r], worker'[p][r]) \/ Lost(p, r)
<1>1. CASE worker[p][r].pc \in Caught /\ Goto(p, r, "failGet")
  BY <1>1, GotoSeen, LaterOnward
<1>2. CASE worker[p][r].pc = "failEvent" /\ Goto(p, r, "failFinish")
  BY <1>2, GotoSeen, LaterOnward
<1>3. CASE worker[p][r].pc \in Uncaught /\ Goto(p, r, "lost")
  BY <1>3, GotoSeen DEF Lost, Raise, Disrupt, durable
<1> QED BY <1>1, <1>2, <1>3 DEF Raise

\* A worker that has work moves, and only it.
LEMMA MoveFresh ==
  ASSUME TypeOK, FreshWorkers, NEW p \in Procs, NEW r \in Runs, NEW w, SetWorker(p, r, w),
         worker[p][r].pc # "idle", EndKnown(worker'[p][r]), UNCHANGED <<life, found, sub>>,
         \A x \in Runs : job'[x].owner = job[x].owner,
         \A x \in Runs : job'[x].status = Absent => job[x].status = Absent
  PROVE  FreshWorkers'
<1>1. \A q \in Procs, x \in Runs : q # p \/ x # r => worker'[q][x] = worker[q][x]
  BY DEF SetWorker, TypeOK
<1>2. job[r].owner # None /\ life[p] # "down"
      /\ (life[p] = "recovering" => \A o \in found[p] : o.run # r)
  BY DEF FreshWorkers
<1>3. \A q \in Procs : \A o \in found[q] : o.run \in Runs
  BY DEF TypeOK, Orphan
<1>4. AbsentUnowned'
  BY DEF FreshWorkers, AbsentUnowned
<1>5. \A x \in Runs : job'[x].owner = None => \A q \in Procs : worker'[q][x].pc = "idle"
  BY <1>1, <1>2 DEF FreshWorkers
<1>6. \A q \in Procs :
        /\ life[q] = "down" => \A x \in Runs : worker'[q][x].pc = "idle"
        /\ life[q] = "recovering" => \A o \in found[q] : worker'[q][o.run].pc = "idle"
  BY <1>1, <1>2, <1>3 DEF FreshWorkers
<1>7. \A q \in Procs, x \in Runs : EndKnown(worker'[q][x])
  BY <1>1 DEF FreshWorkers
<1> QED BY <1>4, <1>5, <1>6, <1>7 DEF FreshWorkers, EndKnown

\* A worker that takes on work of its own process.
LEMMA TakeFresh ==
  ASSUME TypeOK, FreshWorkers, NEW p \in Procs, NEW r \in Runs, UNCHANGED life, Alive(p),
         \/ SetWorker(p, r, QueuedWorker)
         \/ UNCHANGED worker,
         job'[r].owner = p, job'[r].status # Absent, \A x \in Runs \ {r} : job'[x] = job[x],
         \A q \in Procs : found'[q] \subseteq found[q],
         life[p] = "recovering" => \A o \in found'[p] : o.run # r,
         \A q \in Procs : sub'[q] \in {sub[q], None}
  PROVE  FreshWorkers'
<1>1. \A q \in Procs, x \in Runs : q # p \/ x # r => worker'[q][x] = worker[q][x]
  BY DEF SetWorker, TypeOK
<1>2. p # None
  BY NoneAssumption
<1>3. \A q \in Procs : \A o \in found[q] : o.run \in Runs
  BY DEF TypeOK, Orphan
<1>4. AbsentUnowned'
  BY DEF FreshWorkers, AbsentUnowned
<1>5. \A x \in Runs : job'[x].owner = None => \A q \in Procs : worker'[q][x].pc = "idle"
  BY <1>1, <1>2 DEF FreshWorkers
<1>6. \A q \in Procs :
        /\ life[q] = "down" => \A x \in Runs : worker'[q][x].pc = "idle"
        /\ life[q] = "recovering" => \A o \in found'[q] : worker'[q][o.run].pc = "idle"
  BY <1>1, <1>3 DEF FreshWorkers, Alive
<1>7. \A q \in Procs, x \in Runs : EndKnown(worker'[q][x])
  <2>1. EndKnown(QueuedWorker)
    BY DEF EndKnown, QueuedWorker, IdleWorker, Ending
  <2>2. SetWorker(p, r, QueuedWorker) => worker'[p][r] = QueuedWorker
    BY DEF SetWorker, TypeOK
  <2> QED BY <1>1, <2>1, <2>2 DEF FreshWorkers
<1> QED BY <1>4, <1>5, <1>6, <1>7 DEF FreshWorkers, EndKnown

\* The end a worker has come to is one of those a job can be closed with.
LEMMA EndStaysKnown ==
  ASSUME TypeOK, NEW p \in Procs, NEW r \in Runs, EndKnown(worker[p][r]),
         WorkerStep(p, r) \/ Raise(p, r)
  PROVE  EndKnown(worker'[p][r])
<1> DEFINE w == worker[p][r]
           v == worker'[p][r]
<1>s. ASSUME NEW x, SetWorker(p, r, x) PROVE v = x
  BY <1>s DEF SetWorker, TypeOK
<1>1. ASSUME NEW pc, Goto(p, r, pc), w.pc \in Ending \/ pc \notin Ending
      PROVE  EndKnown(v)
  BY <1>1, GotoSeen DEF EndKnown
<1>2. ASSUME NEW pc, NEW out, EndWith(p, r, pc, out), out \in TerminalStatus \/ pc \notin Ending
      PROVE  EndKnown(v)
  BY <1>2, EndWithSeen DEF EndKnown
<1>3. CASE Begin(p, r) \/ FailEvent(p, r) \/ Raise(p, r)
  BY <1>1, <1>3, RaiseMoves DEF Begin, FailEvent, Ending
<1>4. CASE ControlEvent(p, r) \/ Event(p, r)
  BY <1>1, <1>4 DEF ControlEvent, Event, Ending
<1>5. w.pc \in SavePoint => w.pc \in Ending \/ AfterSave[w.pc] \notin Ending
  BY DEF SavePoint, AfterSave, Ending
<1>6. CASE SaveFence(p, r) \/ SaveWrite(p, r)
  <2>1. CASE SetWorker(p, r, [w EXCEPT !.passed = TRUE])
    <3>1. v.pc = w.pc /\ v.out = w.out
      BY <1>s, <2>1 DEF TypeOK, Worker
    <3> QED BY <3>1 DEF EndKnown
  <2>2. CASE Goto(p, r, AfterSave[w.pc])
    BY <1>1, <1>5, <1>6, <2>2 DEF SaveFence, SaveWrite
  <2> QED BY <1>6, <2>1, <2>2 DEF SaveFence, SaveWrite
<1>7. CASE Control(p, r)
  BY <1>1, <1>2, <1>7 DEF Control, Ending, TerminalStatus
<1>8. CASE Tool(p, r)
  <2>1. CASE SetWorker(p, r, [w EXCEPT !.pc = "control", !.step = @ + 1])
    <3> DEFINE u == [w EXCEPT !.pc = "control", !.step = @ + 1]
    <3>1. u.pc = "control"
      BY DEF TypeOK, Worker
    <3>2. v = u
      BY <1>s, <2>1
    <3> HIDE DEF u
    <3> QED BY <3>1, <3>2 DEF EndKnown, Ending
  <2>2. CASE \E out \in Outcomes : EndWith(p, r, "result", out)
    BY <1>2, <2>2, OutcomesAssumption DEF NaturalOutcome
  <2> QED BY <1>8, <2>1, <2>2 DEF Tool
<1>9. CASE Finalize(p, r) \/ Finish(p, r) \/ FailFinish(p, r)
  <2>1. CASE SetWorker(p, r, IdleWorker)
    BY <1>s, <2>1 DEF EndKnown, IdleWorker, Ending
  <2>2. CASE Goto(p, r, "finish") /\ w.pc = "finalize"
    BY <1>1, <2>2 DEF Ending
  <2> QED BY <1>9, <2>1, <2>2 DEF Finalize, Finish, FailFinish
<1>10. CASE FailGet(p, r)
  BY <1>2, <1>10 DEF FailGet, Ending
<1> QED BY <1>3, <1>4, <1>6, <1>7, <1>8, <1>9, <1>10 DEF WorkerStep

\* No step gives a worker to a job that has one already.
LEMMA FreshStep ==
  ASSUME TypeOK, FreshWorkers, [Next]_vars
  PROVE  FreshWorkers'
<1> USE DEF durable, threads, history
<1>1. ASSUME NEW p \in Procs, Start(p) PROVE FreshWorkers'
  <2>1. UNCHANGED <<job, worker, sub>>
        /\ \A q \in Procs \ {p} : life'[q] = life[q] /\ found'[q] = found[q]
    BY <1>1 DEF Start, TypeOK
  <2>2. life[p] = "down" /\ life'[p] = "recovering" /\ found'[p] = Recoverable(p)
    BY <1>1 DEF Start, TypeOK
  <2>3. \A o, n \in Recoverable(p) : o.run \in Runs /\ (o.run = n.run => o = n)
    BY DEF Recoverable
  <2>4. sub[p] = None /\ \A r \in Runs : worker[p][r].pc = "idle"
    BY <2>2 DEF FreshWorkers
  <2> QED BY <2>1, <2>2, <2>3, <2>4 DEF FreshWorkers, AbsentUnowned, EndKnown
<1>2. ASSUME NEW p \in Procs, Serve(p) \/ Close(p) \/ RecoverRaise(p) PROVE FreshWorkers'
  <2>1. /\ UNCHANGED <<job, worker, sub>>
        /\ \A q \in Procs \ {p} : life'[q] = life[q] /\ found'[q] = found[q]
    BY <1>2 DEF Serve, Close, RecoverRaise, TypeOK
  <2>2. life'[p] \in {"up", "closing"}
    BY <1>2 DEF Serve, Close, RecoverRaise, TypeOK
  <2> QED BY <2>1, <2>2 DEF FreshWorkers, AbsentUnowned, EndKnown
<1>3. ASSUME NEW p \in Procs, Exit(p) \/ Crash(p) PROVE FreshWorkers'
  <2>1. life'[p] = "down" /\ \A q \in Procs \ {p} : life'[q] = life[q]
    BY <1>3 DEF Exit, Crash, TypeOK
  <2>2. job' = job /\ sub'[p] = None
        /\ \A q \in Procs \ {p} :
             sub'[q] = sub[q] /\ worker'[q] = worker[q] /\ found'[q] = found[q]
    BY <1>3 DEF Exit, Crash, TypeOK
  <2>3. \A r \in Runs : worker'[p][r].pc = "idle"
    BY <1>3 DEF Exit, Crash, TypeOK, IdleWorker
  <2>4. \A q \in Procs, r \in Runs : EndKnown(worker'[q][r])
    BY <2>2, <2>3 DEF FreshWorkers, EndKnown, Ending
  <2>5. \A r \in Runs : job'[r].owner = None => \A q \in Procs : worker'[q][r].pc = "idle"
    BY <2>2, <2>3 DEF FreshWorkers
  <2>6. AbsentUnowned'
    BY <2>2 DEF FreshWorkers, AbsentUnowned
  <2> QED BY <2>1, <2>2, <2>3, <2>4, <2>5, <2>6 DEF FreshWorkers, EndKnown
<1>4. ASSUME NEW p \in Procs, NEW o \in found[p], Recover(p, o) PROVE FreshWorkers'
  <2>1. o.run \in Runs /\ Alive(p) /\ life[p] = "recovering"
    BY <1>4 DEF TypeOK, Orphan, Recover, Alive
  <2>2. /\ UNCHANGED <<life, sub>>
        /\ \A q \in Procs : found'[q] \subseteq found[q]
        /\ \A n \in found'[p] : n.run # o.run
    BY <1>4, <2>1 DEF Recover, FreshWorkers, TypeOK
  <2>3. CASE UNCHANGED <<job, worker>>
    BY <2>2, <2>3 DEF FreshWorkers, AbsentUnowned, EndKnown
  <2>4. CASE ~UNCHANGED <<job, worker>>
    <3>1. /\ job' = [job EXCEPT ![o.run] = ClaimedBy(@, p)]
          /\ SetWorker(p, o.run, QueuedWorker) /\ job[o.run].status \in ActiveStatus
      BY <1>4, <2>4 DEF Recover, ClaimableOrphan
    <3>2. ClaimedBy(job[o.run], p).owner = p
          /\ ClaimedBy(job[o.run], p).status # Absent
      BY DEF ClaimedBy, Absent
    <3>3. /\ job'[o.run].owner = p /\ job'[o.run].status # Absent
          /\ \A x \in Runs \ {o.run} : job'[x] = job[x]
      BY <2>1, <3>1, <3>2 DEF TypeOK
    <3> QED BY <2>1, <2>2, <3>1, <3>3, TakeFresh
  <2> QED BY <2>3, <2>4
<1>5. ASSUME NEW p \in Procs, Claim(p) PROVE FreshWorkers'
  <2>1. sub[p] \in Runs /\ life[p] \notin {"down", "recovering"}
    BY <1>5 DEF TypeOK, Claim, FreshWorkers
  <2>2. UNCHANGED <<life, found>> /\ \A q \in Procs : sub'[q] \in {sub[q], None}
    BY <1>5 DEF Claim, TypeOK
  <2>3. CASE ClaimableNew(sub[p])
    <3>1. /\ job' = [job EXCEPT ![sub[p]] = ClaimedBy(@, p)]
          /\ SetWorker(p, sub[p], QueuedWorker) \/ UNCHANGED worker
      BY <1>5, <2>3 DEF Claim
    <3>2. ClaimedBy(job[sub[p]], p).owner = p
          /\ ClaimedBy(job[sub[p]], p).status # Absent
      BY DEF ClaimedBy, Absent
    <3>3. /\ job'[sub[p]].owner = p /\ job'[sub[p]].status # Absent
          /\ \A x \in Runs \ {sub[p]} : job'[x] = job[x]
      BY <2>1, <3>1, <3>2 DEF TypeOK
    <3> QED BY <2>1, <2>2, <3>1, <3>3, TakeFresh DEF Alive
  <2>4. CASE ~ClaimableNew(sub[p])
    <3>1. UNCHANGED <<job, worker>>
      BY <1>5, <2>4 DEF Claim
    <3> QED BY <2>2, <3>1 DEF FreshWorkers, AbsentUnowned, EndKnown
  <2> QED BY <2>3, <2>4
<1>6. ASSUME NEW p \in Procs, NEW r \in Runs, Submit(p, r) PROVE FreshWorkers'
  <2>1. /\ UNCHANGED <<life, worker, found>> /\ life[p] = "up"
        /\ \A q \in Procs \ {p} : sub'[q] = sub[q]
    BY <1>6 DEF Submit, TypeOK
  <2>2. /\ job[r].owner = None /\ job'[r].owner = None
        /\ \A x \in Runs \ {r} : job'[x] = job[x]
    BY <1>6 DEF Submit, TypeOK, FreshWorkers, AbsentUnowned
  <2> QED BY <2>1, <2>2 DEF FreshWorkers, AbsentUnowned, EndKnown
<1>7. ASSUME NEW r \in Runs, CancelStep(r) \/ \E p \in Procs : Expire(p, r)
      PROVE  FreshWorkers'
  <2>1. UNCHANGED <<life, worker, sub, found>>
    BY <1>7 DEF CancelStep, CancelRead, CancelRequest, CancelFence, CancelWrite,
       CancelGet, CancelKeepFence, CancelKeepWrite, Expire
  <2>2. \A x \in Runs :
          /\ job'[x].owner = job[x].owner
          /\ job'[x].status = Absent => job[x].status = Absent
    <3>1. CASE CancelRequest(r)
      BY <3>1 DEF CancelRequest, TypeOK, Absent
    <3>2. CASE \E p \in Procs : Expire(p, r)
      BY <3>2 DEF Expire, TypeOK, Absent
    <3>3. CASE CancelStep(r) /\ ~CancelRequest(r)
      BY <3>3, CancelApart
    <3> QED BY <1>7, <3>1, <3>2, <3>3
  <2> QED BY <2>1, <2>2 DEF FreshWorkers, AbsentUnowned, EndKnown
<1>8. ASSUME NEW p \in Procs,
             ReapStep(p) \/ ReapFail(p) \/ \E r \in Runs : CancelReserve(p, r)
      PROVE  FreshWorkers'
  <2>1. UNCHANGED <<job, life, sub, worker, found>>
    BY <1>8 DEF ReapStep, ReapGet, ReapSave, ReapEvent, ReapFail, CancelReserve
  <2> QED BY <2>1 DEF FreshWorkers, AbsentUnowned, EndKnown
<1>9. ASSUME NEW p \in Procs, NEW r \in Runs, Raise(p, r) PROVE FreshWorkers'
  <2> PICK pc \in {"failGet", "failFinish", "lost"} : Goto(p, r, pc)
    BY <1>9, RaiseMoves
  <2>1. /\ UNCHANGED <<job, life, sub, found>> /\ worker[p][r].pc # "idle"
        /\ SetWorker(p, r, [worker[p][r] EXCEPT !.pc = pc, !.passed = FALSE])
    BY <1>9, RaiseMoves DEF Raise, Goto
  <2>2. EndKnown(worker'[p][r])
    BY <1>9, EndStaysKnown DEF FreshWorkers
  <2> QED BY <2>1, <2>2, MoveFresh
<1>10. ASSUME NEW p \in Procs, NEW r \in Runs, WorkerStep(p, r) PROVE FreshWorkers'
  <2>1. UNCHANGED <<life, sub, found>> /\ worker[p][r].pc # "idle"
    BY <1>10 DEF WorkerStep, Begin, SaveFence, SaveWrite, Control, Tool, SavePoint,
       ControlEvent, Event, Finalize, Finish, FailGet, FailEvent, FailFinish
  <2>2. \A x \in Runs : job'[x].status = Absent => job[x].status = Absent
    <3>1. ASSUME NEW st, FinishJob(r, p, st), st # Absent
          PROVE  \A x \in Runs : job'[x].status = Absent => job[x].status = Absent
      BY <3>1 DEF FinishJob, TypeOK
    <3>2. CASE Finish(p, r)
      <4>1. EndKnown(worker[p][r]) /\ worker[p][r].pc \in Ending
        BY <3>2 DEF FreshWorkers, Finish, Ending
      <4>2. worker[p][r].out # Absent
        BY <4>1 DEF EndKnown, TerminalStatus, Absent
      <4> QED BY <3>1, <3>2, <4>2 DEF Finish
    <3>3. CASE FailFinish(p, r)
      BY <3>1, <3>3 DEF FailFinish, Absent
    <3>4. CASE ~Finish(p, r) /\ ~FailFinish(p, r)
      BY <1>10, <3>4 DEF WorkerStep, Begin, SaveFence, SaveWrite, Control, Tool,
         ControlEvent, Event, Finalize, FailGet, FailEvent
    <3> QED BY <3>2, <3>3, <3>4
  <2>3. EndKnown(worker'[p][r])
    BY <1>10, EndStaysKnown DEF FreshWorkers
  <2> QED BY <1>10, <2>1, <2>2, <2>3, WorkerMoves, WorkerRow, MoveFresh
<1>11. CASE Quiet \/ UNCHANGED vars
  <2>1. UNCHANGED <<job, life, sub, worker, found>>
    BY <1>11 DEF Quiet, vars
  <2> QED BY <2>1 DEF FreshWorkers, AbsentUnowned, EndKnown
<1>12. ASSUME NEW p \in Procs, ClaimRaise(p) PROVE FreshWorkers'
  <2>1. UNCHANGED <<job, life, worker, found>> /\ \A q \in Procs : sub'[q] \in {sub[q], None}
    BY <1>12 DEF ClaimRaise, TypeOK
  <2> QED BY <2>1 DEF FreshWorkers, AbsentUnowned, EndKnown
<1> QED
  BY <1>1, <1>2, <1>3, <1>4, <1>5, <1>6, <1>7, <1>8, <1>9, <1>10, <1>11, <1>12 DEF Next

\* In every step of the system a worker stays, goes on, returns or dies.
LEMMA NextGoesOn ==
  ASSUME TypeOK, FreshWorkers, [Next]_vars, NEW p \in Procs, NEW r \in Runs
  PROVE  GoesOn(p, r)
<1> DEFINE Keeps == \/ worker'[p][r] = worker[p][r]
                    \/ /\ worker[p][r].pc # "lost"
                       /\ Onward(worker[p][r], worker'[p][r]) \/ Returned(p, r) \/ Lost(p, r)
                    \/ life'[p] = "down"
                    \/ worker[p][r].pc = "idle"
<1>1. WorkerStep(p, r) => Onward(worker[p][r], worker'[p][r]) \/ Returned(p, r)
  BY WorkerGoesOn
<1>2. ASSUME NEW q \in Procs, NEW x \in Runs, NEW w, SetWorker(q, x, w), q # p \/ x # r
      PROVE  worker'[p][r] = worker[p][r]
  BY <1>2 DEF SetWorker, TypeOK
<1>3. ASSUME NEW q \in Procs, NEW x \in Runs, WorkerStep(q, x) \/ Raise(q, x)
      PROVE  Keeps
  <2>1. CASE q = p /\ x = r
    <3>1. worker[p][r].pc # "lost"
      BY <1>3, <2>1, RaiseMoves DEF WorkerStep, Begin, SaveFence, SaveWrite, Control, Tool,
         SavePoint, ControlEvent, Event, Finalize, Finish, FailGet, FailEvent, FailFinish
    <3> QED BY <1>3, <2>1, <3>1, WorkerGoesOn, RaiseGoesOn
  <2>2. CASE q # p \/ x # r
    <3>1. \E w : SetWorker(q, x, w)
      BY <1>3, WorkerMoves, RaiseMoves DEF Goto
    <3> QED BY <1>2, <2>2, <3>1
  <2> QED BY <2>1, <2>2
<1>4. ASSUME NEW q \in Procs, NEW o \in found[q], Recover(q, o)
      PROVE  Keeps
  <2>1. o.run \in Runs /\ worker[q][o.run].pc = "idle"
    BY <1>4 DEF TypeOK, Orphan, Recover, FreshWorkers
  <2>2. SetWorker(q, o.run, QueuedWorker) \/ worker' = worker
    BY <1>4 DEF Recover
  <2> QED BY <1>2, <2>1, <2>2
<1>5. ASSUME NEW q \in Procs, Claim(q)
      PROVE  Keeps
  <2>1. CASE ClaimableNew(sub[q])
    <3>1. sub[q] \in Runs /\ worker[q][sub[q]].pc = "idle"
      BY <1>5, <2>1 DEF TypeOK, Claim, ClaimableNew, FreshWorkers
    <3>2. SetWorker(q, sub[q], QueuedWorker) \/ worker' = worker
      BY <1>5, <2>1 DEF Claim
    <3> QED BY <1>2, <3>1, <3>2
  <2>2. CASE ~ClaimableNew(sub[q])
    BY <1>5, <2>2 DEF Claim
  <2> QED BY <2>1, <2>2
<1>6. ASSUME NEW q \in Procs, Crash(q) \/ Exit(q)
      PROVE  Keeps
  BY <1>6 DEF Crash, Exit, TypeOK
<1>7. ASSUME NEW q \in Procs,
             \/ Start(q) \/ Serve(q) \/ Close(q) \/ RecoverRaise(q) \/ ClaimRaise(q)
             \/ ReapStep(q) \/ ReapFail(q)
             \/ \E x \in Runs : Submit(q, x) \/ CancelReserve(q, x) \/ Expire(q, x)
      PROVE  Keeps
  BY <1>7 DEF Start, Serve, Close, RecoverRaise, ClaimRaise, ReapStep, ReapGet, ReapSave,
     ReapEvent, ReapFail, Submit, CancelReserve, Expire, threads
<1>8. ASSUME (\E x \in Runs : CancelStep(x)) \/ Quiet \/ UNCHANGED vars
      PROVE  Keeps
  BY <1>8 DEF CancelStep, CancelRead, CancelRequest, CancelFence, CancelWrite, CancelGet,
     CancelKeepFence, CancelKeepWrite, Quiet, vars
<1>9. Keeps
  BY <1>3, <1>4, <1>5, <1>6, <1>7, <1>8 DEF Next
<1> QED BY <1>1, <1>9 DEF GoesOn

\* Whatever the other threads and processes do, every step of a worker brings it
\* nearer to its return, it returns without an active job of its process left
\* behind, and only the death of its process or an exception in front of the try of
\* run_job, in its handler or behind it takes it away, nothing sets it back; with
\* any number of processes alive at once and pids reused: the part of
\* ClosedOrStranded that no scheduling is needed for; AsyncApplication.run_job.
THEOREM WorkersReturn == Spec => WorkersGoOn
<1>1. Init => FreshWorkers
  BY DEF Init, FreshWorkers, AbsentUnowned, EndKnown, IdleWorker, Ending
<1>2. TypeOK /\ FreshWorkers /\ [Next]_vars => FreshWorkers'
  BY FreshStep
<1>3. TypeOK /\ FreshWorkers /\ [Next]_vars =>
        [\A p \in Procs, r \in Runs : GoesOn(p, r)]_vars
  BY NextGoesOn
<1> QED BY <1>1, <1>2, <1>3, TypeInvariant, PTL DEF Spec, WorkersGoOn

=============================================================================
