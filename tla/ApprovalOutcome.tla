-------------------------- MODULE ApprovalOutcome --------------------------
(***************************************************************************)
(* What becomes of a run whose proposal is decided.  A decision, its       *)
(* publication and its application are separate steps, and several clients *)
(* take them at a time: at every moment some thread is still to answer for *)
(* a run that waits for a decided proposal (OutcomeInv), so none is left   *)
(* when all have returned.                                                 *)
(***************************************************************************)
EXTENDS ToolApproval_proofs

\* Another approved proposal has, or had, the name.
Rival(rec, a) == \E b \in Approvals \ {a} : rec[b].status \in Granted

\* What a thread stores of a run that waits was proposed and not decided yet, or
\* decided before the run was left waiting.
SaveSafe(th, rec, ear) ==
  /\ th.pc \in LoopPc => th.result.status = "EXECUTING"
  /\ th.pc \in SavePc /\ th.result.status = "WAITING_FOR_DECISION" =>
       /\ th.result.approval \in Approvals
       /\ \/ rec[th.result.approval].status \in Undecided
          \/ th.result.approval \in ear
  /\ th.pc = "apply" => th.waiting

\* The tool of an approval that is about to be applied is bound to its name,
\* unless a rival took it.
BindSafe(th, rec, reg) ==
  /\ th.pc = "apply" /\ th.out = "approved" /\ rec[th.approval].status = "approved"
  => reg[th.proc] = th.approval \/ Rival(rec, th.approval)

\* The thread will store a snapshot of the run that does not wait, or is stored
\* before the decision.
WillSave(th, r) == th.run = r /\ th.pc \in LoopPc \cup {"resume", "waits", "final", "again"}

\* The thread will apply the decision the record has now.
WillApply(th, rec, a) ==
  /\ th.approval = a /\ th.out = rec[a].status
  /\ \/ th.pc = "find"
     \/ th.pc \in {"bind", "apply"} /\ th.waiting

\* A synchronous run waits for a proposal that was decided in time.
Owed(r, a) ==
  WaitsFor(r, a) /\ job[r] = Absent /\ record[a].status \notin Undecided /\ a \notin early

Answered(r, a) ==
  \/ Rival(record, a)
  \/ \E t \in Threads : WillSave(thread[t], r) \/ WillApply(thread[t], record, a)

OutcomeInv ==
  /\ \A t \in Threads : SaveSafe(thread[t], record, early)
  /\ crashes = 0 =>
       /\ \A t \in Threads : BindSafe(thread[t], record, registry)
       /\ \A r \in Runs, a \in Approvals : Owed(r, a) => Answered(r, a)

-----------------------------------------------------------------------------
(* Steps of one thread.                                                    *)

\* Rivals stay.
LEMMA RivalKept ==
  ASSUME NEW rec \in RecordType, NEW new \in RecordType, Advance(rec, new),
         NEW a \in Approvals, Rival(rec, a)
  PROVE  Rival(new, a)
<1>1. \A b \in Approvals : rec[b].status \in Granted => new[b].status \in Granted
  BY DEF Advance, Granted, Absent
<1> QED
  BY <1>1 DEF Rival

\* What the other threads hold survives a step that decides nothing under a thread
\* that is about to store a run.
LEMMA OthersSafe ==
  ASSUME ApprovalInv, OutcomeInv, NEW u \in Threads,
         NEW new \in RecordType, Advance(record, new), NEW ear, early \subseteq ear,
         \A a \in Approvals :
           record[a].status \in Undecided /\ Busy(record[a].run) =>
             new[a].status \in Undecided \/ a \in ear
  PROVE  SaveSafe(thread[u], new, ear)
<1> DEFINE th == thread[u]
           a == th.result.approval
<1>1. SaveSafe(th, record, early)
  BY DEF OutcomeInv
<1>2. CASE th.pc \in SavePc /\ th.result.status = "WAITING_FOR_DECISION"
             /\ record[a].status \in Undecided /\ a \in Approvals
  <2>1. record[a].run = th.run
    BY <1>2, NoneAssumption, Facts DEF Holds, Agrees
  <2>2. Busy(record[a].run)
    BY <1>2, <2>1 DEF Busy
  <2>3. th.pc \notin LoopPc /\ th.pc # "apply"
    BY <1>2 DEF SavePc, LoopPc
  <2> QED
    BY <1>2, <2>2, <2>3 DEF SaveSafe
<1>3. CASE ~(th.pc \in SavePc /\ th.result.status = "WAITING_FOR_DECISION")
  BY <1>1, <1>3 DEF SaveSafe
<1>4. CASE th.pc \in SavePc /\ th.result.status = "WAITING_FOR_DECISION"
             /\ a \in early /\ a \in Approvals
  <2>1. th.pc \notin LoopPc /\ th.pc # "apply"
    BY <1>4 DEF SavePc, LoopPc
  <2> QED
    BY <1>4, <2>1 DEF SaveSafe
<1> QED
  BY <1>1, <1>2, <1>3, <1>4 DEF SaveSafe

LEMMA OneThreadOutcome ==
  ASSUME ApprovalInv, OutcomeInv, NEW t \in Threads,
         \A u \in Threads \ {t} : thread'[u] = thread[u],
         record' \in RecordType, Advance(record, record'), early \subseteq early',
         crashes' = crashes,
         \A r \in Runs : job'[r] = Absent => job[r] = Absent,
         \A a \in Approvals :
           record[a].status \in Undecided /\ Busy(record[a].run) =>
             record'[a].status \in Undecided \/ a \in early',
         SaveSafe(thread'[t], record', early'),
         crashes = 0 => BindSafe(thread'[t], record', registry'),
         \A u \in Threads \ {t} : crashes = 0 /\ BindSafe(thread[u], record, registry) =>
           BindSafe(thread[u], record', registry'),
         \A r \in Runs, a \in Approvals : crashes = 0 /\ Owed(r, a)' =>
           \/ Rival(record', a) \/ WillSave(thread'[t], r) \/ WillApply(thread'[t], record', a)
           \/ /\ WaitsFor(r, a) /\ record'[a].status = record[a].status
              /\ ~WillSave(thread[t], r) /\ ~WillApply(thread[t], record, a)
  PROVE  OutcomeInv'
<1>1. thread \in [Threads -> Thread] /\ record \in RecordType
  BY DEF ApprovalInv, TypeOK, RecordType
<1>3. \A u \in Threads : SaveSafe(thread'[u], record', early')
  BY OthersSafe
<1>4. crashes = 0 => \A u \in Threads : BindSafe(thread'[u], record', registry')
  BY DEF OutcomeInv
<1>5. ASSUME crashes = 0, NEW r \in Runs, NEW a \in Approvals, Owed(r, a)'
      PROVE  Answered(r, a)'
  <2>1. CASE Rival(record', a) \/ WillSave(thread'[t], r) \/ WillApply(thread'[t], record', a)
    BY <2>1 DEF Answered
  <2>2. CASE /\ WaitsFor(r, a) /\ record'[a].status = record[a].status
             /\ ~WillSave(thread[t], r) /\ ~WillApply(thread[t], record, a)
    <3>1. Owed(r, a)
      BY <1>5, <2>2 DEF Owed
    <3>2. Answered(r, a)
      BY <1>5, <3>1 DEF OutcomeInv
    <3>3. CASE Rival(record, a)
      BY <1>1, <3>3, RivalKept DEF Answered
    <3>4. ASSUME NEW u \in Threads, WillSave(thread[u], r) \/ WillApply(thread[u], record, a)
          PROVE  Answered(r, a)'
      <4>1. thread'[u] = thread[u]
        BY <2>2, <3>4
      <4>2. WillSave(thread[u], r) \/ WillApply(thread[u], record', a)
        BY <2>2, <3>4 DEF WillApply
      <4> QED
        BY <4>1, <4>2 DEF Answered
    <3> QED
      BY <3>2, <3>3, <3>4 DEF Answered
  <2> QED
    BY <1>5, <2>1, <2>2
<1> QED
  BY <1>3, <1>4, <1>5 DEF OutcomeInv

\* Steps that touch no record and no registry.
LEMMA QuietOutcome ==
  ASSUME ApprovalInv, OutcomeInv, NEW t \in Threads,
         \A u \in Threads \ {t} : thread'[u] = thread[u],
         UNCHANGED <<record, registry, early, crashes>>,
         \A r \in Runs : job'[r] = Absent => job[r] = Absent,
         SaveSafe(thread'[t], record, early),
         crashes = 0 => BindSafe(thread'[t], record, registry),
         \A r \in Runs, a \in Approvals : crashes = 0 /\ Owed(r, a)' =>
           \/ Rival(record, a) \/ WillSave(thread'[t], r) \/ WillApply(thread'[t], record, a)
           \/ /\ WaitsFor(r, a)
              /\ ~WillSave(thread[t], r) /\ ~WillApply(thread[t], record, a)
  PROVE  OutcomeInv'
<1>1. record' \in RecordType /\ Advance(record, record')
  BY Idle
<1>2. /\ SaveSafe(thread'[t], record', early') /\ early \subseteq early'
      /\ crashes = 0 => BindSafe(thread'[t], record', registry')
      /\ \A u \in Threads \ {t} : BindSafe(thread[u], record, registry) =>
           BindSafe(thread[u], record', registry')
      /\ \A a \in Approvals : record[a].status \in Undecided => record'[a].status \in Undecided
  OBVIOUS
<1>3. \A r \in Runs, a \in Approvals : crashes = 0 /\ Owed(r, a)' =>
           \/ Rival(record', a) \/ WillSave(thread'[t], r) \/ WillApply(thread'[t], record', a)
           \/ /\ WaitsFor(r, a) /\ record'[a].status = record[a].status
              /\ ~WillSave(thread[t], r) /\ ~WillApply(thread[t], record, a)
  OBVIOUS
<1> QED
  BY <1>1, <1>2, <1>3, OneThreadOutcome

-----------------------------------------------------------------------------
(* The loop.                                                               *)

\* A thread that runs a loop goes on with its run.
LEMMA LoopMoves ==
  ASSUME ApprovalInv, OutcomeInv, NEW t \in Threads,
         Conclude(t) \/ Propose(t) \/ Invoke(t) \/ Call(t)
  PROVE  OutcomeInv'
<1>1. /\ \A u \in Threads \ {t} : thread'[u] = thread[u]
      /\ thread[t].pc \in LoopPc /\ thread'[t].pc \in LoopPc
      /\ thread'[t].run = thread[t].run
      /\ thread'[t].result = thread[t].result
  <2>1. thread \in [Threads -> Thread] /\ thread[t] \in Thread
    BY Facts
  <2>2. CASE Conclude(t)
    <3>1. PICK out \in Outcome : LeaveWith(t, out)
      BY <2>2 DEF Conclude
    <3> QED
      BY <2>1, <2>2, <3>1 DEF Thread, LoopPc, Conclude, LeaveWith
  <2>3. CASE Propose(t)
    <3>1. PICK a \in Approvals :
            thread' = [thread EXCEPT
              ![t].pc = "leave", ![t].acts = @ + 1, ![t].known = FALSE, ![t].approval = a,
              ![t].out = IF registry[thread[t].proc] = None
                           THEN "WAITING_FOR_DECISION" ELSE "FAILED"]
      BY <2>3 DEF Propose
    <3> QED
      BY <2>1, <2>3, <3>1 DEF Thread, LoopPc, Propose
  <2>4. CASE Invoke(t)
    BY <2>1, <2>4 DEF Thread, LoopPc, Invoke
  <2>5. CASE Call(t)
    BY <2>1, <2>5 DEF Thread, LoopPc, Call, StepEnds
  <2> QED
    BY <2>2, <2>3, <2>4, <2>5
<1>2. UNCHANGED <<record, snap, job, registry, early, crashes>>
  BY DEF Conclude, Propose, Invoke, Call
<1>3. SaveSafe(thread'[t], record, early) /\ BindSafe(thread'[t], record, registry)
  BY <1>1 DEF OutcomeInv, SaveSafe, BindSafe, LoopPc, SavePc
<1>4. \A r \in Runs : WillSave(thread'[t], r) <=> WillSave(thread[t], r)
  BY <1>1 DEF WillSave
<1>5. \A a \in Approvals : ~WillApply(thread[t], record, a)
  BY <1>1 DEF WillApply, LoopPc
<1>6. \A r \in Runs, a \in Approvals : Owed(r, a)' => WaitsFor(r, a)
  BY <1>2 DEF Owed, WaitsFor
<1> QED
  BY <1>1, <1>2, <1>3, <1>4, <1>5, <1>6, QuietOutcome

\* What a save leaves of a synchronous run.
LEMMA SavedSync ==
  ASSUME ApprovalInv, NEW r \in Runs, NEW s \in Runs, NEW result,
         snap' = [snap EXCEPT ![s] = Stored(s, result)], job[r] = Absent
  PROVE  snap'[r] = IF r = s THEN result ELSE snap[r]
<1>1. snap \in [Runs -> Result]
  BY DEF ApprovalInv, TypeOK
<1>2. r = s => Stored(s, result) = result
  BY DEF Stored, Fenced, TerminalStatus, Absent
<1> QED
  BY <1>1, <1>2

\* A thread stores the result of its run, which does not wait, or will be stored
\* again, or waits for a proposal that nobody owes an answer.
LEMMA StoreMoves ==
  ASSUME ApprovalInv, OutcomeInv, NEW t \in Threads, NEW result,
         \A u \in Threads \ {t} : thread'[u] = thread[u],
         thread[t].pc \notin {"find", "bind", "apply"}, thread[t].run \in Runs,
         snap' = [snap EXCEPT ![thread[t].run] = Stored(thread[t].run, result)],
         UNCHANGED <<record, job, registry, early, crashes>>,
         SaveSafe(thread'[t], record, early), thread'[t].pc # "apply",
         \/ WillSave(thread'[t], thread[t].run)
         \/ result.status # "WAITING_FOR_DECISION"
         \/ record[result.approval].status \in Undecided \/ result.approval \in early
  PROVE  OutcomeInv'
<1> DEFINE s == thread[t].run
<1>1. BindSafe(thread'[t], record, registry)
  BY DEF BindSafe
<1>2. ASSUME NEW r \in Runs, NEW a \in Approvals, Owed(r, a)'
      PROVE  \/ WillSave(thread'[t], r)
             \/ /\ WaitsFor(r, a)
                /\ ~WillSave(thread[t], r) /\ ~WillApply(thread[t], record, a)
  <2>1. snap'[r] = IF r = s THEN result ELSE snap[r]
    BY <1>2, SavedSync DEF Owed
  <2>2. CASE r = s
    BY <1>2, <2>1, <2>2 DEF Owed, WaitsFor
  <2>3. CASE r # s
    BY <1>2, <2>1, <2>3 DEF Owed, WaitsFor, WillSave, WillApply
  <2> QED
    BY <2>2, <2>3
<1> QED
  BY <1>1, <1>2, QuietOutcome

LEMMA SavesOutcome ==
  ASSUME ApprovalInv, OutcomeInv, NEW t \in Threads,
         SaveStep(t) \/ SaveWaiting(t) \/ SaveFinal(t) \/ SaveAgain(t)
  PROVE  OutcomeInv'
<1> DEFINE result == thread[t].result
<1>1. /\ \A u \in Threads \ {t} : thread'[u] = thread[u]
      /\ thread'[t].run = thread[t].run /\ thread'[t].result = result
      /\ thread[t].pc \in LoopPc \cup SavePc
      /\ \/ thread[t].pc \in LoopPc /\ thread'[t].pc \in LoopPc
         \/ thread[t].pc \in SavePc /\ thread'[t].pc \in {"final", "again"}
         \/ thread[t].pc \in SavePc /\ thread'[t].pc = "finish"
  BY Facts DEF Thread, LoopPc, SavePc, SaveStep, SaveWaiting, SaveFinal, SaveAgain, LeaveWith,
     Goto
<1>2. /\ snap' = [snap EXCEPT ![thread[t].run] = Stored(thread[t].run, result)]
      /\ UNCHANGED <<record, job, registry, early, crashes>>
  BY DEF SaveStep, SaveWaiting, SaveFinal, SaveAgain, Save
<1>3. thread[t].run \in Runs
  BY <1>1, Facts DEF Holds, LoopPc, SavePc
<1>4. SaveSafe(thread[t], record, early)
  BY DEF OutcomeInv
<1>5. SaveSafe(thread'[t], record, early)
  BY <1>1, <1>4 DEF SaveSafe, LoopPc, SavePc
<1>6. thread'[t].pc # "apply" /\ thread[t].pc \notin {"find", "bind", "apply"}
  BY <1>1 DEF LoopPc, SavePc
<1>7. \/ WillSave(thread'[t], thread[t].run)
      \/ result.status # "WAITING_FOR_DECISION"
      \/ record[result.approval].status \in Undecided \/ result.approval \in early
  BY <1>1, <1>4 DEF SaveSafe, WillSave
<1> QED
  BY <1>1, <1>2, <1>3, <1>5, <1>6, <1>7, StoreMoves

LEMMA LeaveOutcome ==
  ASSUME ApprovalInv, OutcomeInv, NEW t \in Threads, Leave(t)
  PROVE  OutcomeInv'
<1> DEFINE left == [thread[t].result EXCEPT !.acts = thread[t].acts]
<1>1. /\ thread[t].result \in Result /\ thread[t].pc = "leave" /\ thread[t].run \in Runs
      /\ thread[t].out \in Outcome \cup {"WAITING_FOR_DECISION"}
  BY Facts DEF Thread, Leave, Holds
<1>2. SaveSafe(thread[t], record, early)
  BY DEF OutcomeInv
<1>3. thread[t].result.status = "EXECUTING"
  BY <1>1, <1>2 DEF SaveSafe, LoopPc
<1>4. /\ \A u \in Threads \ {t} : thread'[u] = thread[u]
      /\ thread'[t].run = thread[t].run
      /\ \/ thread'[t].pc = "create" /\ thread'[t].result = left
         \/ /\ thread'[t].pc = "final"
            /\ thread'[t].result = [left EXCEPT !.status = thread[t].out]
            /\ thread[t].out \in Outcome
  BY <1>1, Facts DEF Leave, Thread
<1>5. left.status = "EXECUTING"
  BY <1>1, <1>3 DEF Result
<1>6. SaveSafe(thread'[t], record, early)
  BY <1>1, <1>4, <1>5 DEF SaveSafe, LoopPc, SavePc, Result, Outcome
<1>7. WillSave(thread'[t], thread[t].run)
  BY <1>4 DEF WillSave, LoopPc
<1>8. /\ snap' = [snap EXCEPT ![thread[t].run] = Stored(thread[t].run, left)]
      /\ UNCHANGED <<record, job, registry, early, crashes>>
      /\ thread'[t].pc # "apply"
  BY <1>4 DEF Leave
<1> QED
  BY <1>1, <1>4, <1>6, <1>7, <1>8, StoreMoves

LEMMA CreateOutcome ==
  ASSUME ApprovalInv, OutcomeInv, NEW t \in Threads, Create(t)
  PROVE  OutcomeInv'
<1> DEFINE a == thread[t].approval
           r == thread[t].run
           fresh == record[a].status = Absent
           kept == fresh \/ record[a].run = r
           waiting == [thread[t].result EXCEPT !.status = "WAITING_FOR_DECISION",
                         !.approval = a, !.state = "awaiting_approval"]
           failed == [thread[t].result EXCEPT !.status = "FAILED"]
<1>1. /\ a \in Approvals /\ r \in Runs /\ thread[t].pc = "create" /\ thread[t].result \in Result
      /\ record \in RecordType
  BY Facts DEF Create, Holds, Thread, ApprovalInv, TypeOK, RecordType
<1>2. /\ \A u \in Threads \ {t} : thread'[u] = thread[u]
      /\ thread'[t].run = r
      /\ \/ kept /\ thread'[t].pc = "waits" /\ thread'[t].result = waiting
         \/ thread'[t].pc = "final" /\ thread'[t].result = failed
  BY Facts DEF Create, Thread
<1>3. PICK status \in Undecided :
        record' = IF fresh THEN [record EXCEPT ![a] = [status |-> status, run |-> r]] ELSE record
  BY DEF Create
<1>4. record' \in RecordType /\ Advance(record, record')
  BY <1>1, <1>3 DEF RecordType, Advance, RecordStatus, Undecided
<1>5. /\ early' = IF fresh \/ record[a].status \in Undecided THEN early ELSE early \cup {a}
      /\ UNCHANGED <<snap, job, registry, crashes>>
  BY DEF Create
<1>6. \A b \in Approvals :
        \/ record'[b] = record[b]
        \/ b = a /\ record[b].status = Absent /\ record'[b].status \in Undecided
  <2>1. CASE fresh
    BY <1>1, <1>3, <2>1 DEF RecordType
  <2>2. CASE ~fresh
    BY <1>3, <2>2
  <2> QED
    BY <2>1, <2>2
<1>7. SaveSafe(thread'[t], record', early')
  <2>1. CASE thread'[t].pc = "final" /\ thread'[t].result = failed
    BY <1>1, <2>1 DEF SaveSafe, LoopPc, SavePc, Result
  <2>2. CASE thread'[t].pc = "waits" /\ thread'[t].result = waiting
    <3>1. thread'[t].result.approval = a
      BY <1>1, <2>2 DEF Result
    <3>2. record'[a].status \in Undecided \/ a \in early'
      BY <1>1, <1>3, <1>5 DEF RecordType
    <3> QED
      BY <1>1, <2>2, <3>1, <3>2 DEF SaveSafe, LoopPc
  <2> QED
    BY <1>2, <2>1, <2>2
<1>8. BindSafe(thread'[t], record', registry')
  BY <1>2 DEF BindSafe
<1>9. ASSUME NEW u \in Threads, BindSafe(thread[u], record, registry)
      PROVE  BindSafe(thread[u], record', registry')
  <2>1. thread[u].pc = "apply" => thread[u].approval \in Approvals
    BY Facts DEF Holds, HandlerPc
  <2> QED
    BY <1>1, <1>4, <1>5, <1>6, <1>9, <2>1, RivalKept DEF BindSafe, Undecided, Absent
<1>10. ASSUME NEW s \in Runs, NEW b \in Approvals, Owed(s, b)'
       PROVE  \/ WillSave(thread'[t], s)
              \/ /\ WaitsFor(s, b) /\ record'[b].status = record[b].status
                 /\ ~WillSave(thread[t], s) /\ ~WillApply(thread[t], record, b)
  <2>1. CASE s = r
    BY <1>2, <2>1 DEF WillSave
  <2>2. CASE s # r
    BY <1>1, <1>5, <1>6, <1>10, <2>2 DEF Owed, WaitsFor, WillSave, WillApply
  <2> QED
    BY <2>1, <2>2
<1>11. /\ early \subseteq early'
       /\ \A b \in Approvals : record[b].status \in Undecided => record'[b].status \in Undecided
       /\ \A s \in Runs : job'[s] = Absent => job[s] = Absent
       /\ crashes' = crashes
  BY <1>5, <1>6 DEF Absent
<1> QED
  BY <1>2, <1>4, <1>7, <1>8, <1>9, <1>10, <1>11, OneThreadOutcome

LEMMA FinishOutcome ==
  ASSUME ApprovalInv, OutcomeInv, NEW t \in Threads, Finish(t)
  PROVE  OutcomeInv'
<1>1. /\ \A u \in Threads \ {t} : thread'[u] = thread[u]
      /\ thread'[t].pc = "done" /\ thread[t].pc = "finish"
  BY Facts DEF Finish, Return, Away
<1>2. thread[t].result.status # Absent
  BY Facts DEF Finish, Holds, SavePc, Outcome, Absent
<1>3. \A r \in Runs : job'[r] = Absent => job[r] = Absent
  BY <1>2 DEF Finish, ApprovalInv, TypeOK
<1>4. SaveSafe(thread'[t], record, early) /\ BindSafe(thread'[t], record, registry)
  BY <1>1 DEF SaveSafe, BindSafe, LoopPc, SavePc
<1>5. UNCHANGED <<record, snap, registry, early, crashes>>
  BY DEF Finish
<1>6. \A r \in Runs, a \in Approvals :
        Owed(r, a)' => /\ WaitsFor(r, a)
                       /\ ~WillSave(thread[t], r) /\ ~WillApply(thread[t], record, a)
  BY <1>1, <1>5 DEF Owed, WaitsFor, WillSave, WillApply, LoopPc
<1> QED
  BY <1>1, <1>3, <1>4, <1>5, <1>6, QuietOutcome

-----------------------------------------------------------------------------
(* The decision.                                                           *)

LEMMA BeginOutcome ==
  ASSUME ApprovalInv, OutcomeInv, NEW c \in Clients, Begin(c)
  PROVE  OutcomeInv'
<1> c \in Threads
  BY DEF Threads
<1>1. /\ \A u \in Threads \ {c} : thread'[u] = thread[u]
      /\ thread'[c].pc \in {"find", "swap"} /\ thread[c].pc = "idle"
  BY Facts DEF Begin, Away
<1>2. SaveSafe(thread'[c], record, early) /\ BindSafe(thread'[c], record, registry)
  BY <1>1 DEF SaveSafe, BindSafe, LoopPc, SavePc
<1>3. UNCHANGED <<record, snap, job, registry, early, crashes>>
  BY DEF Begin
<1>4. \A r \in Runs, a \in Approvals :
        Owed(r, a)' => /\ WaitsFor(r, a)
                       /\ ~WillSave(thread[c], r) /\ ~WillApply(thread[c], record, a)
  BY <1>1, <1>3 DEF Owed, WaitsFor, WillSave, WillApply, LoopPc
<1> QED
  BY <1>1, <1>2, <1>3, <1>4, QuietOutcome

\* The thread that decides will apply its decision; under a thread that is about to
\* store the run, the decision came early.
LEMMA SwapOutcome ==
  ASSUME ApprovalInv, OutcomeInv, NEW c \in Clients, Swap(c)
  PROVE  OutcomeInv'
<1> c \in Threads
  BY DEF Threads
<1> DEFINE a == thread[c].approval
           out == thread[c].out
<1>1. /\ a \in Approvals /\ out \in Decisions /\ record[a].run = thread[c].run
      /\ thread[c].pc = "swap" /\ record \in RecordType
      /\ thread \in [Threads -> Thread]
  BY Facts DEF Swap, Holds, HandlerPc, ApprovalInv, TypeOK, RecordType
<1>2. CASE /\ Unchanged(a, out) /\ record' = [record EXCEPT ![a].status = out]
           /\ early' = IF Busy(thread[c].run) THEN early \cup {a} ELSE early
           /\ Goto(c, "find")
  <2>1. /\ \A u \in Threads \ {c} : thread'[u] = thread[u]
        /\ thread'[c].pc = "find" /\ thread'[c].approval = a /\ thread'[c].out = out
    BY <1>1, <1>2 DEF Goto, Thread
  <2>2. /\ record' \in RecordType
        /\ record'[a].run = record[a].run /\ record'[a].status = out
        /\ \A b \in Approvals \ {a} : record'[b] = record[b]
    BY <1>1, <1>2 DEF RecordType, RecordStatus, Decisions
  <2>3. Advance(record, record')
    BY <1>1, <1>2, <2>2 DEF Advance, Unchanged, Before, Decisions
  <2>4. UNCHANGED <<snap, job, registry, crashes>> /\ early \subseteq early'
    BY <1>2 DEF Swap
  <2>5. \A b \in Approvals :
          record[b].status \in Undecided /\ Busy(record[b].run) =>
            record'[b].status \in Undecided \/ b \in early'
    BY <1>1, <1>2, <2>2
  <2>6. SaveSafe(thread'[c], record', early') /\ BindSafe(thread'[c], record', registry')
    BY <2>1 DEF SaveSafe, BindSafe, LoopPc, SavePc
  <2>7. ASSUME NEW u \in Threads \ {c}, BindSafe(thread[u], record, registry)
        PROVE  BindSafe(thread[u], record', registry')
    <3>1. /\ thread[u].pc = "apply" => thread[u].approval \in Approvals
          /\ thread[u].pc = "apply" => record[thread[u].approval].status \in After(thread[u].out)
      BY Facts DEF Holds, HandlerPc
    <3>2. SUFFICES ASSUME thread[u].pc = "apply", thread[u].out = "approved",
                          record'[thread[u].approval].status = "approved"
                   PROVE  \/ registry'[thread[u].proc] = thread[u].approval
                          \/ Rival(record', thread[u].approval)
      BY DEF BindSafe
    <3>3. record[thread[u].approval].status = "approved"
      BY <2>2, <3>1, <3>2, <1>2 DEF After, Granted, Unchanged, Before
    <3> QED
      BY <1>1, <2>2, <2>3, <2>4, <2>7, <3>1, <3>2, <3>3, RivalKept DEF BindSafe
  <2>8. ASSUME NEW r \in Runs, NEW b \in Approvals, Owed(r, b)'
        PROVE  \/ WillApply(thread'[c], record', b)
               \/ /\ WaitsFor(r, b) /\ record'[b].status = record[b].status
                  /\ ~WillSave(thread[c], r) /\ ~WillApply(thread[c], record, b)
    <3>1. CASE b = a
      BY <2>1, <2>2, <3>1 DEF WillApply
    <3>2. CASE b # a
      BY <1>1, <2>2, <2>4, <2>8, <3>2 DEF Owed, WaitsFor, WillSave, WillApply, LoopPc
    <3> QED
      BY <3>1, <3>2
  <2> QED
    BY <2>1, <2>2, <2>3, <2>4, <2>5, <2>6, <2>7, <2>8, OneThreadOutcome
<1>3. CASE Return(c) /\ UNCHANGED <<record, early>>
  <2>1. /\ \A u \in Threads \ {c} : thread'[u] = thread[u]
        /\ thread'[c].pc = "done"
    BY <1>1, <1>3 DEF Return, Away
  <2>2. SaveSafe(thread'[c], record, early) /\ BindSafe(thread'[c], record, registry)
    BY <2>1 DEF SaveSafe, BindSafe, LoopPc, SavePc
  <2>3. UNCHANGED <<record, snap, job, registry, early, crashes>>
    BY <1>3 DEF Swap
  <2>4. \A r \in Runs, b \in Approvals :
          Owed(r, b)' => /\ WaitsFor(r, b)
                         /\ ~WillSave(thread[c], r) /\ ~WillApply(thread[c], record, b)
    BY <1>1, <2>3 DEF Owed, WaitsFor, WillSave, WillApply, LoopPc
  <2> QED
    BY <2>1, <2>2, <2>3, <2>4, QuietOutcome
<1> QED
  BY <1>2, <1>3 DEF Swap

\* The run of a decided proposal for which it waits.
LEMMA OwedRun ==
  ASSUME ApprovalInv, NEW r \in Runs, NEW a \in Approvals, WaitsFor(r, a)
  PROVE  record[a].run = r /\ record[a].status # Absent
BY NoneAssumption DEF ApprovalInv, StoresAgree, Agrees, WaitsFor, Supports, RecordStatus, Absent

LEMMA FindOutcome ==
  ASSUME ApprovalInv, OutcomeInv, NEW c \in Clients, Find(c)
  PROVE  OutcomeInv'
<1> c \in Threads
  BY DEF Threads
<1> DEFINE a == thread[c].approval
           waits == snap[thread[c].run].status = "WAITING_FOR_DECISION"
<1>1. /\ \A u \in Threads \ {c} : thread'[u] = thread[u]
      /\ thread[c].pc = "find" /\ thread'[c].pc = "bind"
      /\ thread'[c].approval = a /\ thread'[c].out = thread[c].out
      /\ thread'[c].waiting = waits
  BY Facts DEF Find, Thread
<1>2. UNCHANGED <<record, snap, job, registry, early, crashes>>
  BY DEF Find
<1>3. SaveSafe(thread'[c], record, early) /\ BindSafe(thread'[c], record, registry)
  BY <1>1 DEF SaveSafe, BindSafe, LoopPc, SavePc
<1>4. ASSUME NEW r \in Runs, NEW b \in Approvals, Owed(r, b)'
      PROVE  \/ WillApply(thread'[c], record, b)
             \/ /\ WaitsFor(r, b)
                /\ ~WillSave(thread[c], r) /\ ~WillApply(thread[c], record, b)
  <2>1. WaitsFor(r, b)
    BY <1>2, <1>4 DEF Owed, WaitsFor
  <2>2. ~WillSave(thread[c], r)
    BY <1>1 DEF WillSave, LoopPc
  <2>3. CASE WillApply(thread[c], record, b)
    <3>1. thread[c].run = r
      BY <1>1, <2>1, <2>3, OwedRun, Facts DEF WillApply, Holds, HandlerPc
    <3> QED
      BY <1>1, <2>1, <2>3, <3>1 DEF WillApply, WaitsFor
  <2> QED
    BY <2>1, <2>2, <2>3
<1> QED
  BY <1>1, <1>2, <1>3, <1>4, QuietOutcome

\* After the decision is published, the name is bound to the approved tool or to a
\* rival.
LEMMA BoundOrRival ==
  ASSUME ApprovalInv, NEW c \in Clients, Bind(c), thread[c].out = "approved"
  PROVE  \/ registry'[thread[c].proc] = thread[c].approval
         \/ Rival(record, thread[c].approval)
<1> DEFINE a == thread[c].approval
           p == thread[c].proc
<1> c \in Threads
  BY DEF Threads
<1>1. a \in Approvals /\ p \in Processes /\ registry \in [Processes -> Approvals \cup {None}]
  BY Facts DEF Bind, Holds, HandlerPc
<1>2. registry'[p] = Published(a, "approved", registry[p])
  BY <1>1 DEF Bind
<1>3. CASE registry[p] = None
  BY <1>2, <1>3 DEF Published
<1>4. CASE registry[p] # None
  <2>1. registry'[p] = registry[p]
    BY <1>2, <1>4 DEF Published
  <2>2. registry[p] \in Approvals /\ record[registry[p]].status \in Granted
    BY <1>1, <1>4 DEF ApprovalInv, StoresAgree
  <2> QED
    BY <2>1, <2>2 DEF Rival
<1> QED
  BY <1>3, <1>4

\* Only a revoked proposal loses its name.
LEMMA BindingKept ==
  ASSUME ApprovalInv, NEW c \in Clients, Bind(c),
         NEW p \in Processes, NEW a \in Approvals,
         registry[p] = a, record[a].status = "approved"
  PROVE  registry'[p] = a
<1> c \in Threads
  BY DEF Threads
<1>1. /\ thread[c].approval \in Approvals
      /\ record[thread[c].approval].status \in After(thread[c].out)
      /\ registry \in [Processes -> Approvals \cup {None}]
  BY Facts DEF Bind, Holds, HandlerPc
<1>2. registry'[p] = registry[p]
      \/ registry'[p] = Published(thread[c].approval, thread[c].out, registry[p])
  BY <1>1 DEF Bind
<1>3. thread[c].out = "revoked" => thread[c].approval # a
  BY <1>1 DEF After, Granted
<1> QED
  BY <1>2, <1>3, NoneAssumption DEF Published

LEMMA BindOutcome ==
  ASSUME ApprovalInv, OutcomeInv, NEW c \in Clients, Bind(c)
  PROVE  OutcomeInv'
<1> c \in Threads
  BY DEF Threads
<1> DEFINE a == thread[c].approval
<1>0. thread \in [Threads -> Thread]
  BY Facts
<1>1. /\ \A u \in Threads \ {c} : thread'[u] = thread[u]
      /\ thread[c].pc = "bind"
      /\ \/ /\ thread[c].waiting /\ thread'[c].pc = "apply" /\ thread'[c].waiting
            /\ thread'[c].approval = a /\ thread'[c].out = thread[c].out
            /\ thread'[c].proc = thread[c].proc
         \/ ~thread[c].waiting /\ thread'[c].pc = "done"
  <2>1. CASE thread[c].waiting
    BY <1>0, <2>1 DEF Bind, Goto, Thread
  <2>2. CASE ~thread[c].waiting
    BY <1>0, <2>2 DEF Bind, Return, Away
  <2> QED
    BY <2>1, <2>2
<1>2. UNCHANGED <<record, snap, job, early, crashes>>
  BY DEF Bind
<1>3. SaveSafe(thread'[c], record, early)
  BY <1>1 DEF SaveSafe, LoopPc, SavePc
<1>4. BindSafe(thread'[c], record, registry')
  BY <1>1, BoundOrRival DEF BindSafe
<1>5. ASSUME NEW u \in Threads \ {c}, BindSafe(thread[u], record, registry)
      PROVE  BindSafe(thread[u], record, registry')
  <2>1. thread[u].pc = "apply" => thread[u].approval \in Approvals /\ thread[u].proc \in Processes
    BY Facts DEF Holds, HandlerPc
  <2> QED
    BY <1>5, <2>1, BindingKept DEF BindSafe
<1>6. ASSUME NEW r \in Runs, NEW b \in Approvals, Owed(r, b)'
      PROVE  \/ WillApply(thread'[c], record, b)
             \/ /\ WaitsFor(r, b)
                /\ ~WillSave(thread[c], r) /\ ~WillApply(thread[c], record, b)
  <2>1. WaitsFor(r, b)
    BY <1>2, <1>6 DEF Owed, WaitsFor
  <2> QED
    BY <1>1, <2>1 DEF WillSave, WillApply, LoopPc
<1>7. /\ record' \in RecordType /\ Advance(record, record')
      /\ record' = record /\ early' = early /\ job' = job /\ crashes' = crashes
  BY <1>2, Idle
<1> QED
  BY <1>1, <1>3, <1>4, <1>5, <1>6, <1>7, OneThreadOutcome

\* A decision that is applied to the run is stored with it by its thread.
LEMMA ApplyOutcome ==
  ASSUME ApprovalInv, OutcomeInv, NEW c \in Clients, Resume(c) \/ Refuse(c)
  PROVE  OutcomeInv'
<1> c \in Threads
  BY DEF Threads
<1>1. /\ \A u \in Threads \ {c} : thread'[u] = thread[u]
      /\ thread[c].pc = "apply" /\ thread'[c].run = thread[c].run
      /\ \/ thread'[c].pc = "resume"
         \/ thread'[c].pc = "final" /\ thread'[c].result.status = "REJECTED"
  <2>1. /\ thread \in [Threads -> Thread] /\ thread[c] \in Thread
        /\ snap[thread[c].run] \in Result
    BY Facts, ApplicableFacts DEF Resume, Refuse
  <2>2. CASE Resume(c)
    BY <2>1, <2>2 DEF Resume, Thread
  <2>3. CASE Refuse(c)
    BY <2>1, <2>3 DEF Refuse, Thread, Result
  <2> QED
    BY <2>2, <2>3
<1>2. UNCHANGED <<record, snap, job, registry, early, crashes>>
  BY DEF Resume, Refuse
<1>3. SaveSafe(thread'[c], record, early) /\ BindSafe(thread'[c], record, registry)
  BY <1>1 DEF SaveSafe, BindSafe, LoopPc, SavePc
<1>4. ASSUME NEW r \in Runs, NEW a \in Approvals, Owed(r, a)'
      PROVE  \/ WillSave(thread'[c], r)
             \/ /\ WaitsFor(r, a)
                /\ ~WillSave(thread[c], r) /\ ~WillApply(thread[c], record, a)
  <2>1. WaitsFor(r, a)
    BY <1>2, <1>4 DEF Owed, WaitsFor
  <2>2. CASE WillApply(thread[c], record, a)
    <3>1. thread[c].run = r
      BY <1>1, <2>1, <2>2, OwedRun, Facts DEF WillApply, Holds, HandlerPc
    <3> QED
      BY <1>1, <3>1 DEF WillSave
  <2>3. ~WillSave(thread[c], r)
    BY <1>1 DEF WillSave, LoopPc
  <2> QED
    BY <2>1, <2>2, <2>3
<1> QED
  BY <1>1, <1>2, <1>3, <1>4, QuietOutcome

\* The handler of the current decision raises only over a rival.
LEMMA RaiseOutcome ==
  ASSUME ApprovalInv, OutcomeInv, NEW c \in Clients, Raise(c)
  PROVE  OutcomeInv'
<1> c \in Threads
  BY DEF Threads
<1>1. /\ \A u \in Threads \ {c} : thread'[u] = thread[u]
      /\ thread[c].pc = "apply" /\ thread'[c].pc = "done"
  BY Facts DEF Raise, Return, Away
<1>2. UNCHANGED <<record, snap, job, registry, early, crashes>>
  BY DEF Raise
<1>3. SaveSafe(thread'[c], record, early) /\ BindSafe(thread'[c], record, registry)
  BY <1>1 DEF SaveSafe, BindSafe, LoopPc, SavePc
<1>4. ASSUME crashes = 0, NEW r \in Runs, NEW a \in Approvals, Owed(r, a)'
      PROVE  \/ Rival(record, a)
             \/ /\ WaitsFor(r, a)
                /\ ~WillSave(thread[c], r) /\ ~WillApply(thread[c], record, a)
  <2>1. WaitsFor(r, a)
    BY <1>2, <1>4 DEF Owed, WaitsFor
  <2>2. CASE WillApply(thread[c], record, a)
    <3>1. thread[c].run = r /\ thread[c].approval = a
      BY <1>1, <2>1, <2>2, OwedRun, Facts DEF WillApply, Holds, HandlerPc
    <3>2. thread[c].out = "approved" /\ registry[thread[c].proc] # a
      BY <2>1, <3>1 DEF Raise, Applicable
    <3>3. BindSafe(thread[c], record, registry)
      BY <1>4 DEF OutcomeInv
    <3> QED
      BY <1>1, <2>2, <3>1, <3>2, <3>3 DEF BindSafe, WillApply
  <2>3. ~WillSave(thread[c], r)
    BY <1>1 DEF WillSave, LoopPc
  <2> QED
    BY <2>1, <2>2, <2>3
<1> QED
  BY <1>1, <1>2, <1>3, <1>4, QuietOutcome

LEMMA EnterOutcome ==
  ASSUME ApprovalInv, OutcomeInv, NEW c \in Clients, Enter(c)
  PROVE  OutcomeInv'
<1> c \in Threads
  BY DEF Threads
<1>1. /\ \A u \in Threads \ {c} : thread'[u] = thread[u]
      /\ thread[c].pc = "resume" /\ thread'[c].pc = "react"
      /\ thread'[c].run = thread[c].run
      /\ thread'[c].result = [thread[c].result EXCEPT !.status = "EXECUTING"]
  BY Facts DEF Enter, Loop, Away
<1>2. thread[c].run \in Runs /\ thread[c].result \in Result
  BY <1>1, Facts DEF Holds, Thread
<1>3. /\ snap' = [snap EXCEPT ![thread[c].run] = Stored(thread[c].run, thread[c].result)]
      /\ UNCHANGED <<record, job, registry, early, crashes>>
  BY DEF Enter, Save
<1>4. SaveSafe(thread'[c], record, early)
  BY <1>1, <1>2 DEF SaveSafe, SavePc, Result
<1>5. WillSave(thread'[c], thread[c].run)
  BY <1>1 DEF WillSave, LoopPc
<1> QED
  BY <1>1, <1>2, <1>3, <1>4, <1>5, StoreMoves

-----------------------------------------------------------------------------
(* Faults.                                                                 *)

LEMMA CrashOutcome ==
  ASSUME ApprovalInv, OutcomeInv, NEW p \in Processes, Crash(p)
  PROVE  OutcomeInv'
<1>1. crashes' # 0
  BY DEF Crash, ApprovalInv, TypeOK
<1>2. ASSUME NEW t \in Threads
      PROVE  SaveSafe(thread'[t], record, early)
  <2>1. thread'[t] = thread[t] \/ thread'[t].pc = "dead"
    BY DEF Crash, Away
  <2>2. SaveSafe(thread[t], record, early)
    BY DEF OutcomeInv
  <2> QED
    BY <2>1, <2>2 DEF SaveSafe, LoopPc, SavePc
<1>3. UNCHANGED <<record, early>>
  BY DEF Crash
<1> QED
  BY <1>1, <1>2, <1>3 DEF OutcomeInv

LEMMA RecoverOutcome ==
  ASSUME ApprovalInv, OutcomeInv, NEW r \in Runs, Recover(r)
  PROVE  OutcomeInv'
<1> r \in Threads
  BY DEF Threads
<1>1. /\ \A u \in Threads \ {r} : thread'[u] = thread[u]
      /\ thread[r].pc = "dead" /\ thread'[r].pc = "react"
      /\ thread'[r].result = FreshResult
  BY Facts DEF Recover, Loop, Away
<1>2. SaveSafe(thread'[r], record, early) /\ BindSafe(thread'[r], record, registry)
  BY <1>1 DEF SaveSafe, BindSafe, LoopPc, SavePc, FreshResult
<1>3. UNCHANGED <<record, job, registry, early, crashes>>
  BY DEF Recover
<1>4. \A s \in Runs, a \in Approvals :
        Owed(s, a)' => /\ WaitsFor(s, a)
                       /\ ~WillSave(thread[r], s) /\ ~WillApply(thread[r], record, a)
  <2>1. \A s \in Runs : snap'[s] = IF s = r THEN FreshResult ELSE snap[s]
    BY Facts DEF Recover
  <2> QED
    BY <1>1, <2>1 DEF Owed, WaitsFor, WillSave, WillApply, LoopPc, FreshResult
<1> QED
  BY <1>1, <1>2, <1>3, <1>4, QuietOutcome

-----------------------------------------------------------------------------
(* The theorem.                                                            *)

LEMMA OutcomeInit ==
  ASSUME Init
  PROVE  OutcomeInv
<1>1. ASSUME NEW t \in Threads
      PROVE  thread[t].pc \in {"react", "idle"} /\ thread[t].result = FreshResult
  <2>1. PICK home \in [Runs -> Processes] :
          thread = [u \in Threads |->
                     IF u \in Runs
                       THEN [Away("react") EXCEPT !.proc = home[u], !.run = u]
                       ELSE Away("idle")]
    BY DEF Init
  <2> QED
    BY <2>1 DEF Away
<1>2. \A r \in Runs, a \in Approvals : ~Owed(r, a)
  BY DEF Init, Owed, WaitsFor, FreshResult
<1>3. ASSUME NEW t \in Threads
      PROVE  SaveSafe(thread[t], record, early) /\ BindSafe(thread[t], record, registry)
  BY <1>1 DEF SaveSafe, BindSafe, SavePc, FreshResult
<1> QED
  BY <1>2, <1>3 DEF OutcomeInv

LEMMA OutcomeStep ==
  ASSUME ApprovalInv, OutcomeInv, [Next]_vars
  PROVE  OutcomeInv'
<1>1. CASE UNCHANGED vars
  <2>1. /\ UNCHANGED <<record, snap, job, registry, thread, early, crashes>>
    BY <1>1 DEF vars
  <2> QED
    BY <2>1 DEF OutcomeInv, Owed, Answered, WaitsFor
<1>2. CASE Next
  <2>1. ASSUME NEW t \in Threads, LoopStep(t)
        PROVE  OutcomeInv'
    BY <2>1, LoopMoves, SavesOutcome, LeaveOutcome, CreateOutcome, FinishOutcome DEF LoopStep
  <2>2. ASSUME NEW c \in Clients, Begin(c) \/ Decide(c)
        PROVE  OutcomeInv'
    BY <2>2, BeginOutcome, SwapOutcome, FindOutcome, BindOutcome, ApplyOutcome, EnterOutcome,
       RaiseOutcome
       DEF Decide
  <2> QED
    BY <1>2, <2>1, <2>2, CrashOutcome, RecoverOutcome DEF Next
<1> QED
  BY <1>1, <1>2

\* A thread that is through answers for nothing.
LEMMA SettledIsAnswered ==
  ASSUME OutcomeInv, Settled, crashes = 0,
         NEW r \in Runs, NEW a \in Approvals, Owed(r, a)
  PROVE  Rival(record, a)
<1>1. Answered(r, a)
  BY DEF OutcomeInv
<1>2. \A t \in Threads : ~WillSave(thread[t], r) /\ ~WillApply(thread[t], record, a)
  BY DEF Settled, WillSave, WillApply, LoopPc
<1> QED
  BY <1>1, <1>2 DEF Answered

\* When all have returned and no process has died, no synchronous run waits for a
\* proposal that was decided while it waited, but over a rival
\* (DecidedRunHasEnded): resolve_tool_approval, RuntimeToolApprovalResume.
THEOREM DecidedRunsEnd == Spec => []DecidedRunHasEnded
<1>1. Init => ApprovalInv /\ OutcomeInv
  BY InitHolds, OutcomeInit
<1>2. ApprovalInv /\ OutcomeInv /\ [Next]_vars => (ApprovalInv /\ OutcomeInv)'
  BY StepKeeps, OutcomeStep
<1>3. OutcomeInv => DecidedRunHasEnded
  BY SettledIsAnswered DEF DecidedRunHasEnded, Owed, Rival, Granted
<1> QED
  BY <1>1, <1>2, <1>3, PTL DEF Spec

-----------------------------------------------------------------------------
(* How the threads come to that.  No fairness is assumed here: a thread that *)
(* takes steps comes to its end after a number of them that MaxActions       *)
(* bounds, whatever the other threads do.                                    *)

\* Where a thread is on its way: in a handler, in the loop or in what follows it.
Leg(pc) ==
  CASE pc = "idle" -> 0 [] pc = "swap" -> 1 [] pc = "find" -> 2 [] pc = "bind" -> 3
    [] pc = "apply" -> 4 [] pc = "resume" -> 5 [] pc \in {"react", "call", "step"} -> 6
    [] pc = "leave" -> 7 [] pc = "create" -> 8 [] pc = "waits" -> 9 [] pc = "final" -> 10
    [] pc = "again" -> 11 [] pc = "finish" -> 12 [] pc = "done" -> 13 [] OTHER -> 14

\* Where it is within one action of the loop.
Beat(pc) == CASE pc = "call" -> 1 [] pc = "step" -> 2 [] OTHER -> 3

\* A thread has gone on: it has come to a later leg or, within the loop, to another
\* action or a later place of the same action.
Onward(th, new) ==
  \/ Leg(new.pc) > Leg(th.pc)
  \/ /\ Leg(th.pc) = 6 /\ Leg(new.pc) = 6
     /\ \/ new.acts > th.acts
        \/ new.acts = th.acts /\ Beat(new.pc) > Beat(th.pc)

\* What a thread does in a step of the system.
GoesOn(t) ==
  /\ LoopStep(t) \/ (t \in Clients /\ Decide(t)) => Onward(thread[t], thread'[t])
  /\ thread[t].pc # "dead" =>
       \/ thread'[t] = thread[t]
       \/ Onward(thread[t], thread'[t])
       \/ crashes' > crashes

ThreadsGoOn == [][\A t \in Threads : GoesOn(t)]_vars

\* What a thread does by itself takes it on.
LEMMA StepGoesOn ==
  ASSUME TypeOK, NEW t \in Threads, LoopStep(t) \/ (t \in Clients /\ Decide(t))
  PROVE  Onward(thread[t], thread'[t])
<1>0. thread \in [Threads -> Thread] /\ thread[t] \in Thread /\ MaxActions \in Nat
  BY BoundsAssumption DEF TypeOK
<1> USE <1>0 DEF Onward, Leg, Beat, Thread, Result, Away
<1>1. CASE Conclude(t)
  BY <1>1 DEF Conclude, LeaveWith
<1>2. CASE Propose(t)
  <2>1. thread[t].pc = "react" /\ thread'[t].pc = "leave"
    BY <1>2 DEF Propose
  <2> QED BY <2>1
<1>3. CASE Invoke(t)
  <2>1. thread[t].acts + 1 > thread[t].acts
    OBVIOUS
  <2> QED BY <1>3, <2>1 DEF Invoke
<1>4. CASE Call(t)
  BY <1>4 DEF Call, StepEnds
<1>5. CASE SaveStep(t)
  BY <1>5 DEF SaveStep, LeaveWith, Goto
<1>6. CASE Leave(t)
  BY <1>6 DEF Leave
<1>7. CASE Create(t)
  <2>1. thread[t].pc = "create" /\ thread'[t].pc \in {"waits", "final"}
    BY <1>7 DEF Create
  <2> QED BY <2>1
<1>8. CASE SaveWaiting(t) \/ SaveFinal(t) \/ SaveAgain(t)
  BY <1>8 DEF SaveWaiting, SaveFinal, SaveAgain, Goto
<1>9. CASE Finish(t)
  BY <1>9 DEF Finish, Return
<1>10. CASE Swap(t)
  BY <1>10 DEF Swap, Goto, Return
<1>11. CASE Find(t)
  BY <1>11 DEF Find
<1>12. CASE Bind(t)
  BY <1>12 DEF Bind, Goto, Return
<1>13. CASE Resume(t) \/ Refuse(t)
  BY <1>13 DEF Resume, Refuse
<1>14. CASE Enter(t)
  BY <1>14 DEF Enter, Loop
<1>15. CASE Raise(t)
  BY <1>15 DEF Raise, Return
<1> QED
  BY <1>1, <1>2, <1>3, <1>4, <1>5, <1>6, <1>7, <1>8, <1>9, <1>10, <1>11, <1>12, <1>13, <1>14,
     <1>15
     DEF LoopStep, Decide

\* A step of one thread leaves the others alone.
LEMMA OneThreadMoves ==
  ASSUME TypeOK, NEW u \in Threads, LoopStep(u) \/ (u \in Clients /\ (Begin(u) \/ Decide(u)))
  PROVE  \A t \in Threads \ {u} : thread'[t] = thread[t]
<1>0. thread \in [Threads -> Thread]
  BY DEF TypeOK
<1>1. \E new : thread' = [thread EXCEPT ![u] = new]
  BY DEF LoopStep, Decide, Begin, Conclude, Propose, Invoke, Call, SaveStep, Leave, Create,
     SaveWaiting, SaveFinal, SaveAgain, Finish, Swap, Find, Bind, Resume, Enter, Refuse, Raise,
     LeaveWith, StepEnds, Goto, Return
<1> QED
  BY <1>0, <1>1

LEMMA NextGoesOn ==
  ASSUME TypeOK, [Next]_vars, NEW t \in Threads
  PROVE  GoesOn(t)
<1>0. /\ thread \in [Threads -> Thread] /\ crashes \in Nat
      /\ Clients \subseteq Threads /\ Runs \subseteq Threads
  BY BoundsAssumption DEF TypeOK, Threads
<1> DEFINE Keeps == \/ thread'[t] = thread[t] \/ Onward(thread[t], thread'[t])
                    \/ crashes' > crashes \/ thread[t].pc = "dead"
<1>1. LoopStep(t) \/ (t \in Clients /\ Decide(t)) => Onward(thread[t], thread'[t])
  BY StepGoesOn
<1>2. ASSUME NEW u \in Threads, LoopStep(u) \/ (u \in Clients /\ Decide(u))
      PROVE  Keeps
  BY <1>2, StepGoesOn, OneThreadMoves
<1>3. ASSUME NEW c \in Clients, Begin(c)
      PROVE  Keeps
  <2>1. CASE c = t
    <3>1. thread[t].pc = "idle" /\ thread'[t].pc \in {"find", "swap"}
      BY <1>0, <1>3, <2>1 DEF Begin, Away
    <3> QED BY <3>1 DEF Onward, Leg
  <2>2. CASE c # t
    BY <1>0, <1>3, <2>2, OneThreadMoves
  <2> QED BY <2>1, <2>2
<1>4. ASSUME NEW p \in Processes, Crash(p)
      PROVE  Keeps
  BY <1>0, <1>4 DEF Crash
<1>5. ASSUME NEW r \in Runs, Recover(r)
      PROVE  Keeps
  BY <1>0, <1>5 DEF Recover
<1>6. ASSUME UNCHANGED vars
      PROVE  Keeps
  BY <1>6 DEF vars
<1>7. Keeps
  BY <1>0, <1>2, <1>3, <1>4, <1>5, <1>6 DEF Next
<1> QED
  BY <1>1, <1>7 DEF GoesOn

\* Every step of a worker or a handler takes it on, and nothing but the death of its
\* process takes it back, for any number of threads: so the threads that were
\* started are through in the end if each of them goes on, and what DecidedRunsEnd
\* says of that state is said of the end of every history;
\* RuntimeReactExecution, AgentService.resolve_tool_approval.
THEOREM ThreadsReturn == Spec => ThreadsGoOn
<1>1. TypeOK /\ [Next]_vars => [\A t \in Threads : GoesOn(t)]_vars
  BY NextGoesOn
<1> QED
  BY <1>1, ApprovalTypes, PTL DEF Spec, ThreadsGoOn

=============================================================================
