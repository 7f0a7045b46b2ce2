------------------------ MODULE ToolApproval_proofs ------------------------
(***************************************************************************)
(* Proofs about ToolApproval: types, no tool without an approval, receipts *)
(* that agree with the approval records.                                   *)
(***************************************************************************)
EXTENDS ToolApproval, TLAPS

RecordType == [Approvals -> [status : RecordStatus, run : Runs \cup {None}]]

Granted == {"approved", "revoked"}

Decisions == {"approved", "rejected", "revoked"}

\* What a record may have become after it was decided so.
After(status) == IF status = "approved" THEN Granted ELSE {status}

Agrees(rec, result, r) ==
  result.approval # None =>
    /\ rec[result.approval].run = r
    /\ rec[result.approval].status \in Supports(result.state)

\* What a thread holds.  One that goes on from a decision holds a record that was
\* decided so, and what it will store about its run agrees with the record already.
Holds(rec, th) ==
  /\ Agrees(rec, th.result, th.run)
  /\ th.pc \notin {"idle", "dead", "done"} => th.run \in Runs /\ th.proc \in Processes
  /\ th.pc \in {"call", "create"} \cup HandlerPc => th.approval \in Approvals
  /\ th.pc = "call" => rec[th.approval].status \in Granted
  /\ th.pc \in HandlerPc =>
       /\ th.out \in Decisions
       /\ rec[th.approval].run = th.run
       /\ rec[th.approval].status # Absent
  /\ th.pc \in HandlerPc \ {"swap"} => rec[th.approval].status \in After(th.out)
  /\ th.pc = "leave" =>
       /\ th.out \in Outcome \cup {"WAITING_FOR_DECISION"}
       /\ th.out = "WAITING_FOR_DECISION" => th.approval \in Approvals
  /\ th.pc \in SavePc => th.result.status \in Outcome \cup {"WAITING_FOR_DECISION"}

\* The tables of records and runs, the registries and the executed tools agree.
StoresAgree ==
  /\ \A a \in Approvals : record[a].status # Absent => record[a].run \in Runs
  /\ \A p \in Processes : registry[p] # None => record[registry[p]].status \in Granted
  /\ \A a \in called : record[a].status \in Granted
  /\ \A r \in Runs : Agrees(record, snap[r], r)

ApprovalInv ==
  /\ TypeOK
  /\ StoresAgree
  /\ \A t \in Threads : Holds(record, thread[t])

\* A step creates a record or takes one of the decisions it allows.
Advance(rec, new) ==
  \A a \in Approvals :
    \/ new[a] = rec[a]
    \/ rec[a].status = Absent /\ new[a].status \in Undecided /\ new[a].run \in Runs
    \/ /\ new[a].run = rec[a].run
       /\ <<rec[a].status, new[a].status>> \in
            {<<"pending", "approved">>, <<"pending", "rejected">>, <<"approved", "revoked">>}

-----------------------------------------------------------------------------
(* What a decided record supports it supports for ever.                    *)

LEMMA Budget ==
  /\ 0 \in 0..MaxActions
  /\ \A n \in 0..MaxActions : n < MaxActions => n + 1 \in 0..MaxActions
BY BoundsAssumption

LEMMA AwayHolds ==
  ASSUME NEW rec, NEW pc \in {"idle", "dead", "done"}
  PROVE  Away(pc) \in Thread /\ Holds(rec, Away(pc))
BY Budget DEF Away, Thread, Result, FreshResult, Holds, Agrees, HandlerPc, SavePc,
   LoopPc, RecordStatus, Outcome, Absent

LEMMA LoopHolds ==
  ASSUME NEW rec, NEW p \in Processes, NEW r \in Runs, NEW result \in Result,
         Agrees(rec, result, r)
  PROVE  Loop(p, r, result) \in Thread /\ Holds(rec, Loop(p, r, result))
<1> DEFINE th == Loop(p, r, result)
<1>1. \A k \in BOOLEAN, n \in 0..MaxActions :
        [Away("react") EXCEPT !.proc = p, !.run = r, !.result = result, !.known = k,
                              !.acts = n] \in Thread
  BY Budget DEF Away, Thread, LoopPc, RecordStatus, Absent
<1>2. result.acts \in 0..MaxActions
  BY DEF Result
<1>3. th.result = result /\ th.run = r /\ th.proc = p /\ th.pc = "react"
  BY DEF Loop, Away
<1> QED
  BY <1>1, <1>2, <1>3 DEF Loop, Holds, HandlerPc, SavePc

LEMMA AgreesKept ==
  ASSUME NEW rec \in RecordType, NEW new \in RecordType, Advance(rec, new),
         NEW result \in Result, NEW r, Agrees(rec, result, r)
  PROVE  Agrees(new, result, r)
<1> SUFFICES ASSUME result.approval # None
             PROVE  new[result.approval].run = r
                    /\ new[result.approval].status \in Supports(result.state)
  BY DEF Agrees
<1> DEFINE a == result.approval
<1>1. a \in Approvals
  BY DEF Result
<1>2. rec[a].run = r /\ rec[a].status \in Supports(result.state)
  BY DEF Agrees
<1>3. rec[a].status # Absent
  BY <1>2 DEF Supports, RecordStatus, Absent
<1>4. new[a].status \in RecordStatus
  BY <1>1 DEF RecordType
<1>5. \/ new[a] = rec[a]
      \/ /\ new[a].run = rec[a].run
         /\ <<rec[a].status, new[a].status>> \in
            {<<"pending", "approved">>, <<"pending", "rejected">>, <<"approved", "revoked">>}
  BY <1>1, <1>3 DEF Advance
<1>6. new[a].status \in Supports(result.state)
  BY <1>2, <1>4, <1>5 DEF Supports, RecordStatus, Absent
<1> QED
  BY <1>2, <1>5, <1>6

LEMMA HoldsKept ==
  ASSUME NEW rec \in RecordType, NEW new \in RecordType, Advance(rec, new),
         NEW th \in Thread, Holds(rec, th)
  PROVE  Holds(new, th)
<1>1. Agrees(new, th.result, th.run)
  <2>1. th.result \in Result
    BY DEF Thread
  <2> QED
    BY <2>1, AgreesKept DEF Holds
<1>2. ASSUME NEW a \in Approvals, rec[a].status # Absent
      PROVE  /\ new[a].run = rec[a].run
             /\ new[a].status # Absent
             /\ rec[a].status \in Granted => new[a].status \in Granted
             /\ \A out \in Decisions : rec[a].status \in After(out) => new[a].status \in After(out)
  BY <1>2 DEF Advance, Granted, Decisions, After, Absent
<1>3. th.pc = "call" => new[th.approval].status \in Granted
  BY <1>2 DEF Holds, Granted, Absent
<1>4. th.pc \in HandlerPc =>
        /\ th.out \in Decisions
        /\ new[th.approval].run = th.run
        /\ new[th.approval].status # Absent
  BY <1>2 DEF Holds
<1>5. th.pc \in HandlerPc \ {"swap"} => new[th.approval].status \in After(th.out)
  BY <1>2 DEF Holds
<1> QED
  BY <1>1, <1>3, <1>4, <1>5 DEF Holds

\* The part of a step that leaves the stores alone.
LEMMA StoresKept ==
  ASSUME ApprovalInv, record' \in RecordType, Advance(record, record')
  PROVE  /\ \A a \in Approvals : record'[a].status # Absent => record'[a].run \in Runs
         /\ \A a \in Approvals : record[a].status \in Granted => record'[a].status \in Granted
         /\ \A r \in Runs : Agrees(record', snap[r], r)
<1>1. record \in RecordType /\ snap \in [Runs -> Result]
  BY DEF ApprovalInv, TypeOK, RecordType
<1>2. \A r \in Runs : Agrees(record', snap[r], r)
  BY <1>1, AgreesKept DEF ApprovalInv, StoresAgree
<1>3. \A a \in Approvals : record[a].status \in Granted => record'[a].status \in Granted
  BY DEF Advance, Granted, Absent
<1>4. ASSUME NEW a \in Approvals, record'[a].status # Absent
      PROVE  record'[a].run \in Runs
  BY <1>4 DEF Advance, ApprovalInv, StoresAgree, Absent
<1> QED
  BY <1>2, <1>3, <1>4

\* A step of one thread.
LEMMA OneThread ==
  ASSUME ApprovalInv, NEW t \in Threads, NEW th \in Thread,
         thread' = [thread EXCEPT ![t] = th],
         record' \in RecordType, Advance(record, record'),
         Holds(record', th)
  PROVE  /\ thread' \in [Threads -> Thread]
         /\ \A u \in Threads : Holds(record', thread'[u])
<1>1. thread \in [Threads -> Thread] /\ record \in RecordType
  BY DEF ApprovalInv, TypeOK, RecordType
<1>2. \A u \in Threads : Holds(record', thread[u])
  BY <1>1, HoldsKept DEF ApprovalInv
<1> QED
  BY <1>1, <1>2

LEMMA Idle ==
  ASSUME ApprovalInv, UNCHANGED record
  PROVE  record' \in RecordType /\ Advance(record, record')
BY DEF ApprovalInv, TypeOK, RecordType, Advance

\* A step of one thread that changes nothing else, or one snapshot.
LEMMA QuietStep ==
  ASSUME ApprovalInv, NEW t \in Threads, NEW th \in Thread,
         thread' = [thread EXCEPT ![t] = th], Holds(record, th),
         snap' \in [Runs -> Result], \A r \in Runs : Agrees(record, snap'[r], r),
         UNCHANGED <<record, job, registry, called, early, crashes>>
  PROVE  ApprovalInv'
<1>1. record' \in RecordType /\ Advance(record, record')
  BY Idle
<1>2. thread' \in [Threads -> Thread] /\ \A u \in Threads : Holds(record', thread'[u])
  <2>1. Holds(record', th)
    OBVIOUS
  <2> QED
    BY <1>1, <2>1, OneThread
<1>3. TypeOK'
  BY <1>2 DEF ApprovalInv, TypeOK
<1>4. StoresAgree'
  BY DEF ApprovalInv, StoresAgree, Agrees
<1> QED
  BY <1>2, <1>3, <1>4 DEF ApprovalInv

\* Saves keep the snapshots in agreement.
LEMMA StoredAgrees ==
  ASSUME ApprovalInv, NEW r, NEW result \in Result, Agrees(record, result, r),
         snap' = [snap EXCEPT ![r] = Stored(r, result)]
  PROVE  snap' \in [Runs -> Result] /\ \A s \in Runs : Agrees(record, snap'[s], s)
<1>1. snap \in [Runs -> Result] /\ \A s \in Runs : Agrees(record, snap[s], s)
  BY DEF ApprovalInv, StoresAgree, TypeOK
<1> QED
  BY <1>1 DEF Stored

LEMMA SaveAgrees ==
  ASSUME ApprovalInv, NEW t \in Threads, Save(t)
  PROVE  snap' \in [Runs -> Result] /\ \A r \in Runs : Agrees(record, snap'[r], r)
<1>1. thread[t].result \in Result /\ Agrees(record, thread[t].result, thread[t].run)
  BY DEF ApprovalInv, TypeOK, Holds, Thread
<1> QED
  BY <1>1, StoredAgrees DEF Save

-----------------------------------------------------------------------------
(* Every action keeps the invariant.                                       *)

LEMMA InitHolds ==
  ASSUME Init
  PROVE  ApprovalInv
<1>1. FreshResult \in Result /\ \A rec, r : Agrees(rec, FreshResult, r)
  BY Budget DEF FreshResult, Result, Agrees
<1>2. PICK home \in [Runs -> Processes] :
        thread = [t \in Threads |->
                   IF t \in Runs
                     THEN [Away("react") EXCEPT !.proc = home[t], !.run = t]
                     ELSE Away("idle")]
  BY DEF Init
<1>3. ASSUME NEW t \in Threads
      PROVE  thread[t] \in Thread /\ Holds(record, thread[t])
  <2>1. CASE t \in Runs
    <3> DEFINE th == [Away("react") EXCEPT !.proc = home[t], !.run = t]
    <3>1. thread[t] = th
      BY <1>2, <2>1
    <3>2. th \in Thread
      BY <1>1, <2>1, Budget DEF Away, Thread, LoopPc, RecordStatus, Absent
    <3>3. Holds(record, th)
      BY <1>1, <2>1 DEF Away, Holds, HandlerPc, SavePc
    <3> QED
      BY <3>1, <3>2, <3>3
  <2>2. CASE t \notin Runs
    BY <1>2, <2>2, AwayHolds
  <2> QED
    BY <2>1, <2>2
<1>4. TypeOK
  <2>1. thread \in [Threads -> Thread]
    BY <1>2, <1>3
  <2>2. record \in [Approvals -> [status : RecordStatus, run : Runs \cup {None}]]
    BY DEF Init, RecordStatus
  <2>3. snap \in [Runs -> Result] /\ registry \in [Processes -> Approvals \cup {None}]
    BY <1>1 DEF Init
  <2>4. job \in [Runs -> {Absent, "RUNNING", "WAITING_FOR_DECISION"} \cup Outcome]
    BY DEF Init
  <2>5. crashes \in 0..MaxCrashes
    <3>1. 0 \in 0..MaxCrashes
      BY BoundsAssumption
    <3>2. crashes = 0
      BY DEF Init
    <3> QED
      BY <3>1, <3>2
  <2> QED
    BY <2>1, <2>2, <2>3, <2>4, <2>5 DEF Init, TypeOK
<1>5. StoresAgree
  BY <1>1 DEF Init, StoresAgree
<1> QED
  BY <1>3, <1>4, <1>5 DEF ApprovalInv

\* What is known of a thread of the loop.
LEMMA Facts ==
  ASSUME ApprovalInv, NEW t \in Threads
  PROVE  /\ thread \in [Threads -> Thread] /\ thread[t] \in Thread
         /\ Holds(record, thread[t])
         /\ snap \in [Runs -> Result] /\ \A r \in Runs : Agrees(record, snap[r], r)
         /\ registry \in [Processes -> Approvals \cup {None}]
BY DEF ApprovalInv, StoresAgree, TypeOK

\* The loop is left with an outcome and without a proposal.
LEMMA LeaveKeeps ==
  ASSUME ApprovalInv, NEW t \in Threads, NEW out \in Outcome, LeaveWith(t, out),
         thread[t].pc \in {"react", "step"},
         snap' \in [Runs -> Result], \A r \in Runs : Agrees(record, snap'[r], r),
         UNCHANGED <<record, job, registry, called, early, crashes>>
  PROVE  ApprovalInv'
<1> DEFINE th == [thread[t] EXCEPT !.pc = "leave", !.out = out, !.approval = None,
                                   !.known = FALSE]
<1>1. thread' = [thread EXCEPT ![t] = th]
  BY Facts DEF LeaveWith
<1>2. th \in Thread
  BY Facts, Budget DEF Thread, LoopPc
<1>3. Holds(record, th)
  BY Facts DEF Holds, HandlerPc, SavePc, Thread, Outcome
<1> QED
  BY <1>1, <1>2, <1>3, QuietStep

LEMMA ConcludeKeeps ==
  ASSUME ApprovalInv, NEW t \in Threads, Conclude(t)
  PROVE  ApprovalInv'
BY Facts, LeaveKeeps DEF Conclude

LEMMA ProposeKeeps ==
  ASSUME ApprovalInv, NEW t \in Threads, Propose(t)
  PROVE  ApprovalInv'
<1>1. PICK a \in Approvals :
       thread' = [thread EXCEPT
         ![t].pc = "leave", ![t].acts = @ + 1, ![t].known = FALSE, ![t].approval = a,
         ![t].out = IF registry[thread[t].proc] = None
                      THEN "WAITING_FOR_DECISION" ELSE "FAILED"]
  BY DEF Propose
<1> DEFINE out == IF registry[thread[t].proc] = None THEN "WAITING_FOR_DECISION" ELSE "FAILED"
           th == [thread[t] EXCEPT !.pc = "leave", !.acts = @ + 1, !.known = FALSE,
                                   !.approval = a, !.out = out]
<1>2. thread' = [thread EXCEPT ![t] = th]
  BY <1>1, Facts
<1>3. th \in Thread
  <2>1. thread[t].acts + 1 \in 0..MaxActions
    BY Facts, Budget DEF Thread, Propose, MayAct
  <2>2. \A n \in 0..MaxActions, o \in Outcome \cup {"WAITING_FOR_DECISION"} :
          [thread[t] EXCEPT !.pc = "leave", !.acts = n, !.known = FALSE,
                            !.approval = a, !.out = o] \in Thread
    BY Facts DEF Thread, LoopPc
  <2> QED
    BY <2>1, <2>2 DEF Outcome
<1>4. Holds(record, th)
  BY Facts DEF Holds, HandlerPc, SavePc, Thread, Outcome, Propose
<1> QED
  BY <1>2, <1>3, <1>4, Facts, QuietStep DEF Propose

LEMMA InvokeKeeps ==
  ASSUME ApprovalInv, NEW t \in Threads, Invoke(t)
  PROVE  ApprovalInv'
<1> DEFINE a == registry[thread[t].proc]
           open == a # None /\ Gate(a)
           th == [thread[t] EXCEPT !.pc = "call", !.approval = a, !.acts = @ + 1]
           failed == [thread[t] EXCEPT !.pc = "step", !.out = "FAILED", !.acts = @ + 1]
<1>0. thread[t].acts + 1 \in 0..MaxActions
  BY Facts, Budget DEF Thread, Invoke, MayAct
<1>1. CASE ~open /\ thread' = [thread EXCEPT ![t] = failed]
  <2>1. failed \in Thread
    BY <1>0, Facts DEF Thread, LoopPc, Outcome
  <2>2. Holds(record, failed)
    BY Facts DEF Holds, HandlerPc, SavePc, Thread, Invoke
  <2> QED
    BY <1>1, <2>1, <2>2, Facts, QuietStep DEF Invoke
<1>2. CASE open /\ thread' = [thread EXCEPT ![t] = th]
  <2>1. thread[t].proc \in Processes
    BY Facts DEF Holds, Invoke
  <2>2. a \in Approvals /\ record[a].status \in Granted
    BY <1>2, <2>1, Facts DEF Gate, Granted
  <2>3. th \in Thread
    BY <1>0, <2>2, Facts DEF Thread, LoopPc
  <2>4. Holds(record, th)
    BY <2>2, Facts DEF Holds, HandlerPc, SavePc, Thread, Invoke
  <2> QED
    BY <1>2, <2>3, <2>4, Facts, QuietStep DEF Invoke
<1>3. ASSUME NEW out \in {"COMPLETED", "FAILED"},
             thread' = [thread EXCEPT ![t].pc = "leave", ![t].out = out,
                                      ![t].known = FALSE, ![t].acts = @ + 1]
      PROVE  ApprovalInv'
  <2> DEFINE left == [thread[t] EXCEPT !.pc = "leave", !.out = out, !.known = FALSE, !.acts = @ + 1]
  <2>1. thread' = [thread EXCEPT ![t] = left]
    BY <1>3, Facts
  <2>2. left \in Thread
    BY <1>0, Facts DEF Thread, LoopPc, Outcome
  <2>3. Holds(record, left)
    BY Facts DEF Holds, HandlerPc, SavePc, Thread, Outcome, Invoke
  <2> QED
    BY <2>1, <2>2, <2>3, Facts, QuietStep DEF Invoke
<1>4. \/ open /\ thread' = [thread EXCEPT ![t] = th]
      \/ ~open /\ thread' = [thread EXCEPT ![t] = failed]
      \/ \E out \in {"COMPLETED", "FAILED"} :
           thread' = [thread EXCEPT ![t].pc = "leave", ![t].out = out,
                                    ![t].known = FALSE, ![t].acts = @ + 1]
  BY Facts DEF Invoke
<1> QED
  BY <1>1, <1>2, <1>3, <1>4

LEMMA CallKeeps ==
  ASSUME ApprovalInv, NEW t \in Threads, Call(t)
  PROVE  ApprovalInv'
<1>1. PICK out \in {Absent, "FAILED"} : StepEnds(t, out)
  BY DEF Call
<1> DEFINE a == thread[t].approval
           th == [thread[t] EXCEPT !.pc = "step", !.out = out, !.approval = None]
<1>2. a \in Approvals /\ record[a].status \in Granted
  BY Facts DEF Call, Holds
<1>3. thread' \in [Threads -> Thread] /\ \A u \in Threads : Holds(record', thread'[u])
  <2>1. th \in Thread
    BY Facts DEF Thread, LoopPc, Outcome, RecordStatus
  <2>2. Holds(record', th)
    BY Facts DEF Call, Holds, HandlerPc, SavePc, Thread
  <2>3. thread' = [thread EXCEPT ![t] = th]
    BY <1>1, Facts DEF StepEnds
  <2>4. record' \in RecordType /\ Advance(record, record')
    BY Idle DEF Call
  <2> QED
    BY <2>1, <2>2, <2>3, <2>4, OneThread
<1>4. TypeOK'
  BY <1>2, <1>3 DEF ApprovalInv, TypeOK, Call
<1>5. StoresAgree'
  BY <1>2 DEF ApprovalInv, StoresAgree, Agrees, Call
<1> QED
  BY <1>3, <1>4, <1>5 DEF ApprovalInv

LEMMA SavesKeep ==
  ASSUME ApprovalInv, NEW t \in Threads,
         SaveStep(t) \/ SaveWaiting(t) \/ SaveFinal(t) \/ SaveAgain(t)
  PROVE  ApprovalInv'
<1>0. /\ snap' \in [Runs -> Result] /\ \A r \in Runs : Agrees(record, snap'[r], r)
      /\ UNCHANGED <<record, job, registry, called, early, crashes>>
  BY SaveAgrees DEF SaveStep, SaveWaiting, SaveFinal, SaveAgain
<1>1. CASE thread[t].pc = "step" /\ LeaveWith(t, "FAILED")
  BY <1>0, <1>1, LeaveKeeps DEF Outcome
<1>2. ASSUME NEW pc \in {"react", "final", "again", "finish"},
             Goto(t, pc),
             pc # "react" => thread[t].pc \in SavePc,
             thread[t].pc \in LoopPc \cup SavePc
      PROVE  ApprovalInv'
  <2> DEFINE th == [thread[t] EXCEPT !.pc = pc]
  <2>1. thread' = [thread EXCEPT ![t] = th]
    BY <1>2, Facts DEF Goto
  <2>2. th \in Thread
    BY Facts DEF Thread, LoopPc, SavePc
  <2>3. Holds(record, th)
    BY <1>2, Facts DEF Holds, HandlerPc, SavePc, LoopPc, Thread
  <2> QED
    BY <1>0, <2>1, <2>2, <2>3, QuietStep
<1> QED
  BY <1>1, <1>2 DEF SaveStep, SaveWaiting, SaveFinal, SaveAgain, SavePc, LoopPc

LEMMA LeaveStepKeeps ==
  ASSUME ApprovalInv, NEW t \in Threads, Leave(t)
  PROVE  ApprovalInv'
<1> DEFINE r == thread[t].run
           left == [thread[t].result EXCEPT !.acts = thread[t].acts]
           waits == thread[t].out = "WAITING_FOR_DECISION"
           pc == IF waits THEN "create" ELSE "final"
           result == IF waits THEN left ELSE [left EXCEPT !.status = thread[t].out]
           th == [thread[t] EXCEPT !.pc = pc, !.acts = 0, !.result = result]
<1>1. thread' = [thread EXCEPT ![t] = th]
  BY Facts DEF Leave
<1>2. /\ thread[t].result \in Result /\ thread[t].acts \in 0..MaxActions
      /\ thread[t].out \in Outcome \cup {"WAITING_FOR_DECISION"}
      /\ Agrees(record, thread[t].result, r)
  BY Facts DEF Thread, Leave, Holds
<1>3. left \in Result /\ Agrees(record, left, r)
  BY <1>2 DEF Result, Agrees
<1>4. result \in Result /\ Agrees(record, result, r) /\ (~waits => result.status \in Outcome)
  BY <1>2, <1>3 DEF Result, Agrees
<1>5. th \in Thread
  <2>1. \A x \in Result, next \in {"create", "final"} :
          [thread[t] EXCEPT !.pc = next, !.acts = 0, !.result = x] \in Thread
    BY Facts, Budget DEF Thread, LoopPc, SavePc
  <2> QED
    BY <1>4, <2>1
<1>6. Holds(record, th)
  <2>1. th.pc = pc /\ th.run = r /\ th.proc = thread[t].proc /\ th.result = result
        /\ th.approval = thread[t].approval
    BY Facts DEF Thread
  <2>2. th.run \in Runs /\ th.proc \in Processes /\ (waits => th.approval \in Approvals)
    BY <2>1, Facts DEF Holds, Leave
  <2> QED
    BY <1>4, <2>1, <2>2 DEF Holds, HandlerPc, SavePc
<1>7. /\ snap' \in [Runs -> Result] /\ \A s \in Runs : Agrees(record, snap'[s], s)
      /\ UNCHANGED <<record, job, registry, called, early, crashes>>
  BY <1>3, StoredAgrees DEF Leave
<1> QED
  BY <1>1, <1>5, <1>6, <1>7, QuietStep

LEMMA CreateKeeps ==
  ASSUME ApprovalInv, NEW t \in Threads, Create(t)
  PROVE  ApprovalInv'
<1> DEFINE a == thread[t].approval
           r == thread[t].run
           fresh == record[a].status = Absent
           kept == fresh \/ record[a].run = r
           waiting == [thread[t].result EXCEPT !.status = "WAITING_FOR_DECISION",
                         !.approval = a, !.state = "awaiting_approval"]
           result == IF kept
                       THEN waiting ELSE [thread[t].result EXCEPT !.status = "FAILED"]
           pc == IF kept THEN "waits" ELSE "final"
           th == [thread[t] EXCEPT !.pc = pc, !.approval = None, !.result = result]
<1>1. a \in Approvals /\ r \in Runs
  BY Facts DEF Create, Holds
<1>2. thread' = [thread EXCEPT ![t] = th]
  BY Facts DEF Create
<1>3. PICK status \in Undecided :
        record' = IF fresh THEN [record EXCEPT ![a] = [status |-> status, run |-> r]] ELSE record
  BY DEF Create
<1>4. record \in RecordType
  BY DEF ApprovalInv, TypeOK, RecordType
<1>5. record' \in RecordType /\ Advance(record, record')
  BY <1>1, <1>3, <1>4 DEF RecordType, Advance, RecordStatus, Undecided
<1>6. thread[t].result \in Result
  BY Facts DEF Thread
<1>7. result \in Result
  <2>1. waiting \in Result
    BY <1>1, <1>6 DEF Result
  <2>2. [thread[t].result EXCEPT !.status = "FAILED"] \in Result
    BY <1>6 DEF Result, Outcome
  <2> QED
    BY <2>1, <2>2
<1>8. th \in Thread
  <2>1. \A x \in Result, next \in SavePc :
          [thread[t] EXCEPT !.pc = next, !.approval = None, !.result = x] \in Thread
    BY Facts DEF Thread, SavePc
  <2> QED
    BY <1>7, <2>1 DEF SavePc
<1>9. Agrees(record', result, r)
  <2>1. CASE fresh \/ record[a].run = r
    <3>1. record'[a].run = r /\ record'[a].status # Absent
      BY <1>1, <1>3, <1>4, <2>1 DEF RecordType, Absent, Undecided
    <3>2. record'[a].status \in RecordStatus
      BY <1>1, <1>5 DEF RecordType
    <3>3. result.approval = a /\ result.state = "awaiting_approval"
      BY <1>6, <2>1 DEF Result
    <3> QED
      BY <3>1, <3>2, <3>3 DEF Agrees, Supports
  <2>2. CASE ~(fresh \/ record[a].run = r)
    <3>1. result.approval = thread[t].result.approval /\ result.state = thread[t].result.state
      BY <1>6, <2>2 DEF Result
    <3>2. record' = record
      BY <1>3, <2>2
    <3> QED
      BY <3>1, <3>2, Facts DEF Holds, Agrees
  <2> QED
    BY <2>1, <2>2
<1>10. Holds(record', th)
  <2>1. result.status \in Outcome \cup {"WAITING_FOR_DECISION"}
    BY <1>6 DEF Result, Outcome
  <2>2. th.run = r /\ th.result = result /\ th.pc \in {"waits", "final"}
        /\ th.proc \in Processes
    BY Facts DEF Thread, Holds, Create
  <2> QED
    BY <1>1, <1>9, <2>1, <2>2 DEF Holds, HandlerPc, SavePc
<1>11. thread' \in [Threads -> Thread] /\ \A u \in Threads : Holds(record', thread'[u])
  BY <1>2, <1>5, <1>8, <1>10, OneThread
<1>12. TypeOK'
  <2>1. early' \subseteq Approvals
    BY <1>1 DEF ApprovalInv, TypeOK, Create
  <2> QED
    BY <1>5, <1>11, <2>1 DEF ApprovalInv, TypeOK, RecordType, Create
<1>13. StoresAgree'
  <2>1. /\ \A b \in Approvals : record'[b].status # Absent => record'[b].run \in Runs
        /\ \A b \in Approvals : record[b].status \in Granted => record'[b].status \in Granted
        /\ \A s \in Runs : Agrees(record', snap[s], s)
    BY <1>5, StoresKept
  <2> QED
    BY <2>1, Facts DEF ApprovalInv, TypeOK, StoresAgree, Create
<1> QED
  BY <1>11, <1>12, <1>13 DEF ApprovalInv

LEMMA FinishKeeps ==
  ASSUME ApprovalInv, NEW t \in Threads, Finish(t)
  PROVE  ApprovalInv'
<1>1. thread' \in [Threads -> Thread] /\ \A u \in Threads : Holds(record', thread'[u])
  <2>1. record' \in RecordType /\ Advance(record, record')
    BY Idle DEF Finish
  <2> QED
    BY <2>1, AwayHolds, OneThread DEF Finish, Return
<1>2. thread[t].result.status \in Outcome \cup {"WAITING_FOR_DECISION"}
  BY Facts DEF Finish, Holds, SavePc
<1>3. TypeOK'
  BY <1>1, <1>2 DEF ApprovalInv, TypeOK, Finish
<1>4. StoresAgree'
  BY DEF ApprovalInv, StoresAgree, Agrees, Finish
<1> QED
  BY <1>1, <1>3, <1>4 DEF ApprovalInv

LEMMA BeginKeeps ==
  ASSUME ApprovalInv, NEW c \in Clients, Begin(c)
  PROVE  ApprovalInv'
<1> c \in Threads
  BY DEF Threads
<1>1. PICK p \in Processes, a \in Approvals, status \in Decisions :
       /\ record[a].status \in {status, Before(status)}
       /\ thread' = [thread EXCEPT ![c] =
            [Away(IF record[a].status = status THEN "find" ELSE "swap")
               EXCEPT !.proc = p, !.approval = a, !.out = status, !.run = record[a].run]]
  BY DEF Begin, Decisions
<1> DEFINE pc == IF record[a].status = status THEN "find" ELSE "swap"
           th == [Away(pc) EXCEPT !.proc = p, !.approval = a, !.out = status,
                                  !.run = record[a].run]
<1>2. record[a].status # Absent
  BY <1>1 DEF Before, Decisions, Absent
<1>3. record[a].run \in Runs
  BY <1>2 DEF ApprovalInv, StoresAgree
<1>4. th \in Thread
  BY <1>3, Budget DEF Away, Thread, Result, FreshResult, HandlerPc, RecordStatus, Decisions
<1>5. Holds(record, th)
  BY <1>1, <1>2, <1>3 DEF Away, FreshResult, Agrees, Holds, HandlerPc, SavePc, After, Granted
<1> QED
  BY <1>1, <1>4, <1>5, Facts, QuietStep DEF Begin

LEMMA SwapKeeps ==
  ASSUME ApprovalInv, NEW c \in Clients, Swap(c)
  PROVE  ApprovalInv'
<1> c \in Threads
  BY DEF Threads
<1> DEFINE a == thread[c].approval
           out == thread[c].out
           th == [thread[c] EXCEPT !.pc = "find"]
<1>1. CASE Unchanged(a, out) /\ record' = [record EXCEPT ![a].status = out] /\ Goto(c, "find")
  <2>1. a \in Approvals /\ out \in Decisions /\ record[a].run = thread[c].run
    BY Facts DEF Swap, Holds, HandlerPc
  <2>2. record \in RecordType
    BY DEF ApprovalInv, TypeOK, RecordType
  <2>3. record' \in RecordType
    BY <1>1, <2>1, <2>2 DEF RecordType, RecordStatus, Decisions
  <2>4. record'[a].run = record[a].run /\ record'[a].status = out
    BY <1>1, <2>1, <2>2 DEF RecordType
  <2>5. Advance(record, record')
    BY <1>1, <2>1, <2>2, <2>4 DEF RecordType, Advance, Unchanged, Before, Decisions
  <2>6. th \in Thread
    BY Facts DEF Thread, HandlerPc
  <2>7. Holds(record', th)
    <3>1. Holds(record', thread[c])
      BY <2>2, <2>3, <2>5, Facts, HoldsKept
    <3>2. out \in After(out)
      BY DEF After, Granted
    <3> QED
      BY <2>4, <3>1, <3>2, Facts DEF Holds, HandlerPc, SavePc, Thread, Swap
  <2>8. thread' \in [Threads -> Thread] /\ \A u \in Threads : Holds(record', thread'[u])
    <3>1. thread' = [thread EXCEPT ![c] = th]
      BY <1>1, Facts DEF Goto
    <3> QED
      BY <2>3, <2>5, <2>6, <2>7, <3>1, OneThread
  <2>9. TypeOK'
    <3>1. early' \subseteq Approvals
      BY <2>1 DEF ApprovalInv, TypeOK, Swap
    <3> QED
      BY <2>3, <2>8, <3>1 DEF ApprovalInv, TypeOK, RecordType, Swap
  <2>10. StoresAgree'
    <3>1. /\ \A b \in Approvals : record'[b].status # Absent => record'[b].run \in Runs
          /\ \A b \in Approvals : record[b].status \in Granted => record'[b].status \in Granted
          /\ \A s \in Runs : Agrees(record', snap[s], s)
      BY <2>3, <2>5, StoresKept
    <3> QED
      BY <3>1, Facts DEF ApprovalInv, TypeOK, StoresAgree, Swap
  <2> QED
    BY <2>8, <2>9, <2>10 DEF ApprovalInv
<1>2. CASE Return(c) /\ UNCHANGED record /\ UNCHANGED early
  BY <1>2, AwayHolds, Facts, QuietStep DEF Swap, Return
<1> QED
  BY <1>1, <1>2 DEF Swap

LEMMA FindKeeps ==
  ASSUME ApprovalInv, NEW c \in Clients, Find(c)
  PROVE  ApprovalInv'
<1> c \in Threads
  BY DEF Threads
<1> DEFINE waits == snap[thread[c].run].status = "WAITING_FOR_DECISION"
           th == [thread[c] EXCEPT !.pc = "bind", !.waiting = waits]
<1>1. thread' = [thread EXCEPT ![c] = th]
  BY Facts DEF Find
<1>2. th \in Thread
  <2>1. \A w \in BOOLEAN : [thread[c] EXCEPT !.pc = "bind", !.waiting = w] \in Thread
    BY Facts DEF Thread, HandlerPc
  <2> QED
    BY <2>1
<1>3. Holds(record, th)
  BY Facts DEF Holds, HandlerPc, SavePc, Thread, Find
<1> QED
  BY <1>1, <1>2, <1>3, Facts, QuietStep DEF Find

LEMMA BindKeeps ==
  ASSUME ApprovalInv, NEW c \in Clients, Bind(c)
  PROVE  ApprovalInv'
<1> c \in Threads
  BY DEF Threads
<1> DEFINE a == thread[c].approval
           p == thread[c].proc
           th == [thread[c] EXCEPT !.pc = "apply"]
<1>1. /\ a \in Approvals /\ p \in Processes /\ thread[c].out \in Decisions
      /\ record[a].status \in After(thread[c].out)
  BY Facts DEF Bind, Holds, HandlerPc
<1>2. \A bound \in Approvals \cup {None} :
        /\ Published(a, thread[c].out, bound) \in {a, bound, None}
        /\ Published(a, thread[c].out, bound) = a => thread[c].out = "approved" \/ bound = a
  BY <1>1, NoneAssumption DEF Published
<1>3. registry' \in [Processes -> Approvals \cup {None}]
  BY <1>1, <1>2, Facts DEF Bind
<1>4. \A q \in Processes : registry'[q] # None => record[registry'[q]].status \in Granted
  <2>1. ASSUME NEW q \in Processes, registry'[q] # None
        PROVE  \/ registry'[q] = registry[q]
               \/ registry'[q] = a /\ thread[c].out = "approved"
    <3>1. CASE q = p
      <4> DEFINE new == Published(a, thread[c].out, registry[p])
      <4>1. registry'[q] = new
        BY <1>1, <3>1, Facts DEF Bind
      <4>2. /\ new \in {a, registry[p], None}
            /\ new = a => thread[c].out = "approved" \/ registry[p] = a
        BY <1>1, <1>2, Facts
      <4> HIDE DEF new
      <4> QED
        BY <2>1, <3>1, <4>1, <4>2
    <3>2. CASE q # p
      BY <3>2, Facts DEF Bind
    <3> QED
      BY <3>1, <3>2
  <2>2. thread[c].out = "approved" => record[a].status \in Granted
    BY <1>1 DEF After
  <2> QED
    BY <2>1, <2>2 DEF ApprovalInv, StoresAgree
<1>5. /\ thread' \in [Threads -> Thread]
      /\ \A u \in Threads : Holds(record', thread'[u])
  <2>1. record' \in RecordType /\ Advance(record, record')
    BY Idle DEF Bind
  <2>2. CASE Return(c)
    BY <2>1, <2>2, AwayHolds, OneThread DEF Return
  <2>3. CASE Goto(c, "apply")
    <3>1. thread' = [thread EXCEPT ![c] = th]
      BY <2>3, Facts DEF Goto
    <3>2. th \in Thread
      BY Facts DEF Thread, HandlerPc
    <3>3. Holds(record', th)
      BY Facts DEF Holds, HandlerPc, SavePc, Thread, Bind
    <3> QED
      BY <2>1, <3>1, <3>2, <3>3, OneThread
  <2> QED
    BY <2>2, <2>3 DEF Bind
<1>6. TypeOK'
  BY <1>3, <1>5 DEF ApprovalInv, TypeOK, Bind
<1>7. StoresAgree'
  BY <1>4 DEF ApprovalInv, StoresAgree, Agrees, Bind
<1> QED
  BY <1>5, <1>6, <1>7 DEF ApprovalInv

\* What an applicable decision reads.
LEMMA ApplicableFacts ==
  ASSUME ApprovalInv, NEW c \in Clients, thread[c].pc = "apply", Applicable(c)
  PROVE  /\ c \in Threads
         /\ thread[c].run \in Runs /\ thread[c].proc \in Processes
         /\ thread[c].approval \in Approvals
         /\ snap[thread[c].run] \in Result
         /\ snap[thread[c].run].approval = thread[c].approval
         /\ record[thread[c].approval].run = thread[c].run
         /\ record[thread[c].approval].status \in After(thread[c].out)
<1> c \in Threads
  BY DEF Threads
<1> QED
  BY Facts DEF Holds, HandlerPc, Applicable, WaitsFor

LEMMA ResumeKeeps ==
  ASSUME ApprovalInv, NEW c \in Clients, Resume(c)
  PROVE  ApprovalInv'
<1> DEFINE r == thread[c].run
           result == [snap[r] EXCEPT !.state = "approved_resume"]
           th == [thread[c] EXCEPT !.pc = "resume", !.result = result]
<1>0. c \in Threads
  BY DEF Threads
<1>1. /\ r \in Runs /\ snap[r] \in Result /\ snap[r].approval = thread[c].approval
      /\ record[thread[c].approval].run = r /\ record[thread[c].approval].status \in Granted
  BY ApplicableFacts DEF Resume, After
<1>2. result \in Result
  BY <1>1 DEF Result
<1>3. Agrees(record, result, r)
  <2>1. result.approval = thread[c].approval /\ result.state = "approved_resume"
    BY <1>1 DEF Result
  <2> QED
    BY <1>1, <2>1 DEF Agrees, Supports, Granted
<1>4. thread' = [thread EXCEPT ![c] = th]
  BY <1>0, Facts DEF Resume
<1>5. th \in Thread
  <2>1. \A x \in Result : [thread[c] EXCEPT !.pc = "resume", !.result = x] \in Thread
    BY <1>0, Facts DEF Thread, HandlerPc
  <2> QED
    BY <1>2, <2>1
<1>6. Holds(record, th)
  <2>1. /\ th.pc = "resume" /\ th.run = r /\ th.proc = thread[c].proc /\ th.result = result
        /\ th.approval = thread[c].approval /\ th.out = thread[c].out
    BY <1>0, Facts DEF Thread
  <2> QED
    BY <1>0, <1>3, <2>1, Facts DEF Resume, Holds, HandlerPc, SavePc
<1> QED
  BY <1>0, <1>4, <1>5, <1>6, Facts, QuietStep DEF Resume

LEMMA EnterKeeps ==
  ASSUME ApprovalInv, NEW c \in Clients, Enter(c)
  PROVE  ApprovalInv'
<1> DEFINE r == thread[c].run
           p == thread[c].proc
           entered == [thread[c].result EXCEPT !.status = "EXECUTING"]
           th == Loop(p, r, entered)
<1>0. c \in Threads
  BY DEF Threads
<1>1. r \in Runs /\ p \in Processes
  BY <1>0, Facts DEF Enter, Holds
<1>2. thread[c].result \in Result /\ Agrees(record, thread[c].result, r)
  BY <1>0, Facts DEF Holds, Thread
<1>3. entered \in Result /\ Agrees(record, entered, r)
  BY <1>2 DEF Result, Agrees
<1>4. th \in Thread /\ Holds(record, th)
  BY <1>1, <1>3, LoopHolds
<1> QED
  BY <1>0, <1>4, SaveAgrees, QuietStep DEF Enter

LEMMA RefuseKeeps ==
  ASSUME ApprovalInv, NEW c \in Clients, Refuse(c)
  PROVE  ApprovalInv'
<1> DEFINE r == thread[c].run
           result == [snap[r] EXCEPT !.status = "REJECTED", !.state = "closed_without_execution"]
           th == [thread[c] EXCEPT !.pc = "final", !.approval = None, !.result = result]
<1>0. c \in Threads
  BY DEF Threads
<1>1. /\ r \in Runs /\ thread[c].proc \in Processes /\ snap[r] \in Result
      /\ snap[r].approval = thread[c].approval /\ record[thread[c].approval].run = r
      /\ record[thread[c].approval].status \in {"rejected", "revoked"}
  BY ApplicableFacts DEF Refuse, Refusals, After
<1>2. result \in Result
  BY <1>1 DEF Result, Outcome
<1>3. Agrees(record, result, r)
  <2>1. result.approval = thread[c].approval /\ result.state = "closed_without_execution"
    BY <1>1 DEF Result
  <2> QED
    BY <1>1, <2>1 DEF Agrees, Supports
<1>4. thread' = [thread EXCEPT ![c] = th]
  BY <1>0, Facts DEF Refuse
<1>5. th \in Thread
  <2>1. \A x \in Result :
          [thread[c] EXCEPT !.pc = "final", !.approval = None, !.result = x] \in Thread
    BY <1>0, Facts DEF Thread, SavePc
  <2> QED
    BY <1>2, <2>1
<1>6. Holds(record, th)
  <2>1. /\ th.pc = "final" /\ th.run = r /\ th.proc = thread[c].proc /\ th.result = result
        /\ th.result.status = "REJECTED"
    BY <1>0, <1>1, Facts DEF Thread, Result
  <2> QED
    BY <1>1, <1>3, <2>1 DEF Holds, HandlerPc, SavePc, Outcome
<1> QED
  BY <1>0, <1>4, <1>5, <1>6, Facts, QuietStep DEF Refuse

LEMMA RaiseKeeps ==
  ASSUME ApprovalInv, NEW c \in Clients, Raise(c)
  PROVE  ApprovalInv'
<1> c \in Threads
  BY DEF Threads
<1> QED
  BY AwayHolds, Facts, QuietStep DEF Raise, Return

LEMMA CrashKeeps ==
  ASSUME ApprovalInv, NEW p \in Processes, Crash(p)
  PROVE  ApprovalInv'
<1>1. PICK bound \in Rehydrated : registry' = [registry EXCEPT ![p] = bound]
  BY DEF Crash
<1>2. bound \in Approvals \cup {None} /\ (bound # None => record[bound].status \in Granted)
  BY DEF Rehydrated, Granted
<1>3. thread' = [t \in Threads |-> IF thread[t].proc = p THEN Away("dead") ELSE thread[t]]
  BY DEF Crash
<1>4. \A t \in Threads : thread'[t] \in Thread /\ Holds(record, thread'[t])
  BY <1>3, AwayHolds, Facts
<1>5. crashes' \in 0..MaxCrashes
  BY BoundsAssumption DEF ApprovalInv, TypeOK, Crash
<1>6. TypeOK'
  <2>1. thread' \in [Threads -> Thread]
    BY <1>3, <1>4
  <2>2. registry' \in [Processes -> Approvals \cup {None}]
    BY <1>1, <1>2, Facts DEF ApprovalInv, TypeOK
  <2> QED
    BY <1>5, <2>1, <2>2 DEF ApprovalInv, TypeOK, Crash
<1>7. StoresAgree'
  <2>1. \A q \in Processes : registry'[q] # None => record[registry'[q]].status \in Granted
    BY <1>1, <1>2 DEF ApprovalInv, TypeOK, StoresAgree
  <2> QED
    BY <2>1 DEF ApprovalInv, StoresAgree, Agrees, Crash
<1>8. \A t \in Threads : Holds(record', thread'[t])
  BY <1>4 DEF Crash
<1> QED
  BY <1>6, <1>7, <1>8 DEF ApprovalInv

LEMMA RecoverKeeps ==
  ASSUME ApprovalInv, NEW r \in Runs, Recover(r)
  PROVE  ApprovalInv'
<1> r \in Threads
  BY DEF Threads
<1>1. PICK p \in Processes : thread' = [thread EXCEPT ![r] = Loop(p, r, FreshResult)]
  BY DEF Recover
<1>2. FreshResult \in Result /\ \A s : Agrees(record, FreshResult, s)
  BY Budget DEF FreshResult, Result, Agrees
<1> DEFINE th == Loop(p, r, FreshResult)
<1>3. th \in Thread /\ Holds(record, th)
  BY <1>2, LoopHolds
<1>4. snap' \in [Runs -> Result] /\ \A s \in Runs : Agrees(record, snap'[s], s)
  BY <1>2, Facts DEF Recover
<1> QED
  BY <1>1, <1>3, <1>4, QuietStep DEF Recover

-----------------------------------------------------------------------------
(* The theorems.                                                           *)

LEMMA StepKeeps ==
  ASSUME ApprovalInv, [Next]_vars
  PROVE  ApprovalInv'
<1>1. CASE UNCHANGED vars
  BY <1>1 DEF vars, ApprovalInv, TypeOK, StoresAgree, Agrees, Holds
<1>2. CASE Next
  <2>1. ASSUME NEW t \in Threads, LoopStep(t)
        PROVE  ApprovalInv'
    BY <2>1, ConcludeKeeps, ProposeKeeps, InvokeKeeps, CallKeeps, SavesKeep, LeaveStepKeeps,
       CreateKeeps, FinishKeeps DEF LoopStep
  <2>2. ASSUME NEW c \in Clients, Begin(c) \/ Decide(c)
        PROVE  ApprovalInv'
    BY <2>2, BeginKeeps, SwapKeeps, FindKeeps, BindKeeps, ResumeKeeps, EnterKeeps, RefuseKeeps,
       RaiseKeeps
       DEF Decide
  <2> QED
    BY <1>2, <2>1, <2>2, CrashKeeps, RecoverKeeps DEF Next
<1> QED
  BY <1>1, <1>2

\* The invariant holds in every reachable state, for any number of runs, clients,
\* processes, proposals, actions and crashes.
THEOREM ApprovalInvariant == Spec => []ApprovalInv
<1>1. Init => ApprovalInv
  BY InitHolds
<1>2. ApprovalInv /\ [Next]_vars => ApprovalInv'
  BY StepKeeps
<1> QED
  BY <1>1, <1>2, PTL DEF Spec

\* Every variable keeps its type (TypeOK).
THEOREM ApprovalTypes == Spec => []TypeOK
<1>1. ApprovalInv => TypeOK
  BY DEF ApprovalInv
<1> QED
  BY <1>1, ApprovalInvariant, PTL

\* No tool is bound in any registry or executed without an approval
\* (OnlyApprovedTools): resolve, register_approved_tool and rehydration.
THEOREM OnlyApproved == Spec => []OnlyApprovedTools
<1>1. ApprovalInv => OnlyApprovedTools
  <2> SUFFICES ASSUME ApprovalInv, NEW a \in Approvals,
                      a \in called \/ (\E p \in Processes : registry[p] = a)
               PROVE  record[a].status \in {"approved", "revoked"}
    BY DEF OnlyApprovedTools
  <2>1. a # None
    BY NoneAssumption
  <2> QED
    BY <2>1 DEF ApprovalInv, StoresAgree, Granted
<1> QED
  BY <1>1, ApprovalInvariant, PTL

\* The receipt stored with a run says of its approval what the approval record
\* says (ReceiptAgrees): resume_tool_approval and _close_without_execution.
THEOREM ReceiptsAgree == Spec => []ReceiptAgrees
<1>1. ApprovalInv => ReceiptAgrees
  BY DEF ApprovalInv, StoresAgree, Agrees, ReceiptAgrees
<1> QED
  BY <1>1, ApprovalInvariant, PTL

=============================================================================
