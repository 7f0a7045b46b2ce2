------------------------- MODULE RunActions_proofs -------------------------
(***************************************************************************)
(* Proofs about RunActions that hold for any number of clients and deaths. *)
(***************************************************************************)
EXTENDS RunActions, TLAPS

USE NoneAssumption, BoundsAssumption

-----------------------------------------------------------------------------
(* Types.                                                                  *)

\* A thread that moves on, ends with a status or returns keeps a typed record.
LEMMA GotoType ==
  ASSUME TypeOK, NEW c \in Clients, NEW pc \in ClientPc, Goto(c, pc)
  PROVE  client' \in [Clients -> Client]
<1>1. client[c] \in Client
  BY DEF TypeOK
<1>2. [client[c] EXCEPT !.pc = pc] \in Client
  BY <1>1 DEF Client
<1>3. client' = [client EXCEPT ![c] = [client[c] EXCEPT !.pc = pc]]
  BY DEF Goto
<1> QED BY <1>2, <1>3 DEF TypeOK

LEMMA EndWithType ==
  ASSUME TypeOK, NEW c \in Clients, NEW pc \in ClientPc, NEW out \in SnapStatus,
         EndWith(c, pc, out)
  PROVE  client' \in [Clients -> Client]
<1>1. client[c] \in Client
  BY DEF TypeOK
<1>2. [client[c] EXCEPT !.pc = pc, !.out = out] \in Client
  BY <1>1 DEF Client
<1>3. client' = [client EXCEPT ![c] = [client[c] EXCEPT !.pc = pc, !.out = out]]
  BY DEF EndWith
<1> QED BY <1>2, <1>3 DEF TypeOK

LEMMA IdleType == IdleClient \in Client
BY DEF IdleClient, Client, ClientPc, SnapStatus

LEMMA ReturnType ==
  ASSUME TypeOK, NEW c \in Clients, Return(c)
  PROVE  client' \in [Clients -> Client]
BY IdleType DEF TypeOK, Return

LEMMA SaveType ==
  ASSUME TypeOK, NEW out \in SnapStatus, Save(out)
  PROVE  snap' \in SnapStatus
BY DEF TypeOK, Save

\* The versions a decision goes through, and a swap of it.
LEMMA SwapType ==
  ASSUME TypeOK, HandlerInv, NEW new \in DecisionStatus,
         NEW status \in {"PENDING", "ACCEPTED"}, NEW version \in 0..3,
         Swap(status, version, new)
  PROVE  decision' \in [status : DecisionStatus, version : 0..3]
<1>1. decision.version = VersionOf(decision.status)
  BY DEF HandlerInv
<1>2. CASE decision = [status |-> status, version |-> version]
  <2>1. decision.version \in {1, 2}
    BY <1>1, <1>2 DEF VersionOf, Absent
  <2> QED BY <1>2, <2>1 DEF Swap
<1>3. CASE decision # [status |-> status, version |-> version]
  BY <1>3 DEF Swap, TypeOK
<1> QED BY <1>2, <1>3

\* A step of a handler keeps every type.
LEMMA StepType ==
  ASSUME TypeOK, HandlerInv, NEW c \in Clients, Step(c)
  PROVE  TypeOK'
<1> USE DEF ClientPc, Reserved
<1>c. client[c] \in Client /\ (client[c].pc # "idle" => client[c].action \in Actions)
  BY DEF TypeOK, HandlerInv, ClientInv
<1>d. client[c].pc \in ClientPc /\ client[c].version \in 0..3 /\ client[c].out \in SnapStatus
  BY <1>c DEF Client
<1>1. CASE Reopen(c)
  BY <1>1, GotoType, ReturnType DEF TypeOK, Reopen, ReceiptStatus, Actions
<1>2. CASE Complete(c)
  BY <1>2, GotoType DEF TypeOK, Complete, CloseReceipt, ReceiptStatus
<1>3. CASE Fail(c)
  BY <1>3, ReturnType DEF TypeOK, Fail, CloseReceipt, ReceiptStatus
<1>4. CASE KeepGet(c)
  <2>1. snap \in SnapStatus
    BY DEF TypeOK
  <2> QED BY <1>4, <2>1, EndWithType DEF TypeOK, KeepGet
<1>5. CASE KeepWrite(c)
  BY <1>5, <1>d, ReturnType, SaveType DEF TypeOK, KeepWrite
<1>6. CASE Read(c)
  <2> DEFINE d == [client[c] EXCEPT !.version = decision.version,
                     !.pc = IF decision.status = "PENDING" THEN "cas" ELSE "fail"]
  <2>1. d \in Client
    BY <1>c DEF Client, TypeOK
  <2>2. client' = [client EXCEPT ![c] = d]
    BY <1>6 DEF Read
  <2> QED BY <1>6, <2>1, <2>2 DEF TypeOK, Read
<1>7. CASE Decide(c)
  <2> DEFINE v == client[c].version
             pc == IF ~Holds("PENDING", v) THEN "fail"
                   ELSE IF client[c].action = "approve" THEN "admit" ELSE "save"
             out == IF client[c].action = "reject" THEN "REJECTED" ELSE "CANCELLED"
             d == [client[c] EXCEPT !.pc = pc, !.version = v + 1, !.out = out]
  <2>1. v = 1
    BY <1>7 DEF Decide, HandlerInv, ClientInv
  <2>p. pc \in ClientPc /\ out \in SnapStatus /\ v + 1 \in 0..3
    BY <2>1 DEF SnapStatus, TerminalStatus
  <2> HIDE DEF pc, out
  <2>2. d \in Client
    BY <1>c, <2>p DEF Client
  <2>3. client' = [client EXCEPT ![c] = d]
    BY <1>7 DEF Decide, pc, out
  <2>4. decision' \in [status : DecisionStatus, version : 0..3]
    <3>1. decision' = IF Holds("PENDING", v)
                        THEN [status |-> IF client[c].action = "approve"
                                           THEN "ACCEPTED" ELSE "REJECTED",
                              version |-> 2] ELSE decision
      BY <1>7, <2>1 DEF Decide, Swap, Holds
    <3> QED BY <3>1 DEF DecisionStatus, TypeOK
  <2>5. UNCHANGED <<job, snap, receipt, flag, runner, runs, deaths, refused>>
    BY <1>7 DEF Decide
  <2> HIDE DEF d
  <2> QED BY <2>2, <2>3, <2>4, <2>5 DEF TypeOK
<1>8. CASE Admit(c)
  BY <1>8, GotoType DEF TypeOK, Admit
<1>9. CASE Load(c)
  BY <1>9, GotoType DEF TypeOK, Load
<1>10. CASE Consume(c)
  <2>1. decision' \in [status : DecisionStatus, version : 0..3]
    BY <1>10, <1>d, SwapType DEF Consume, DecisionStatus
  <2> QED BY <1>10, <2>1, GotoType DEF TypeOK, Consume
<1>11. CASE Clear(c)
  BY <1>11, GotoType DEF TypeOK, Clear
<1>12. CASE Check(c)
  BY <1>12, GotoType, EndWithType DEF TypeOK, Check, SnapStatus, TerminalStatus
<1>13. CASE Tool(c)
  BY <1>13, EndWithType DEF TypeOK, Tool, SnapStatus, TerminalStatus
<1>14. CASE SaveResult(c)
  BY <1>14, <1>d, GotoType, SaveType DEF TypeOK, SaveResult
<1>15. CASE SaveAgain(c)
  BY <1>15, <1>d, GotoType, SaveType DEF TypeOK, SaveAgain
<1>16. CASE Snapshot(c)
  BY <1>16, GotoType DEF TypeOK, Snapshot
<1>17. CASE Request(c)
  BY <1>17, GotoType DEF TypeOK, Request
<1> QED BY <1>1, <1>2, <1>3, <1>4, <1>5, <1>6, <1>7, <1>8, <1>9, <1>10, <1>11,
           <1>12, <1>13, <1>14, <1>15, <1>16, <1>17 DEF Step

\* Every step keeps every type.
LEMMA TypeStep ==
  ASSUME TypeOK, HandlerInv, [Next]_vars
  PROVE  TypeOK'
<1> USE DEF Runner, SnapStatus, TerminalStatus
<1>r. runner.out \in SnapStatus
  BY DEF TypeOK
<1>1. CASE Plan
  BY <1>1 DEF TypeOK, Plan, DecisionStatus
<1>2. CASE RunnerSave
  BY <1>2, <1>r, SaveType DEF TypeOK, RunnerSave
<1>3. CASE RunnerSaveAgain
  BY <1>3, <1>r, SaveType DEF TypeOK, RunnerSaveAgain
<1>4. CASE Expire
  <2>1. decision.version \in 0..3
    BY DEF TypeOK
  <2>2. decision' \in [status : DecisionStatus, version : 0..3]
    BY <1>4, <2>1, SwapType DEF Expire, DecisionStatus
  <2> QED BY <1>4, <2>2 DEF TypeOK, Expire
<1>5. CASE Die
  BY <1>5, ReturnType DEF TypeOK, Die, NoRunner, Absent
<1>6. ASSUME NEW c \in Clients, FindFailed(c) PROVE TypeOK'
  <2> DEFINE d == [client[c] EXCEPT !.pc = "reopen", !.action = "retry"]
  <2>1. client[c] \in Client
    BY DEF TypeOK
  <2>2. d \in Client
    BY <2>1 DEF Client, ClientPc, Actions
  <2>3. client' = [client EXCEPT ![c] = d]
    BY <1>6 DEF FindFailed
  <2> QED BY <1>6, <2>2, <2>3 DEF TypeOK, FindFailed
<1>7. ASSUME NEW c \in Clients, NEW a \in Actions, Reserve(c, a) PROVE TypeOK'
  <2> DEFINE d == [client[c] EXCEPT !.pc = FirstPc(a), !.action = a]
  <2>1. client[c] \in Client
    BY DEF TypeOK
  <2>2. d \in Client
    BY <2>1 DEF Client, ClientPc, Reserved, FirstPc
  <2>3. client' = [client EXCEPT ![c] = d]
    BY <1>7 DEF Reserve
  <2> QED BY <1>7, <2>2, <2>3 DEF TypeOK, Reserve, ReceiptStatus
<1>8. CASE UNCHANGED vars
  BY <1>8 DEF TypeOK, vars
<1> QED BY <1>1, <1>2, <1>3, <1>4, <1>5, <1>6, <1>7, <1>8, StepType
        DEF Next, RunnerStep

-----------------------------------------------------------------------------
(* The inductive invariant.                                                *)

\* A swap that finds the row replaces it, any other leaves it alone.
LEMMA SwapResult ==
  ASSUME NEW status, NEW version, NEW new, Swap(status, version, new)
  PROVE  IF Holds(status, version)
           THEN decision.status = status /\ decision'.status = new
                /\ decision'.version = version + 1
           ELSE decision' = decision
BY DEF Swap, Holds

\* What a client's part of the invariant needs of a step of somebody else.
LEMMA OtherClient ==
  ASSUME NEW d \in Clients, ClientInv(d), UNCHANGED client[d],
         client[d].pc \in Reserved =>
           receipt'[client[d].action] = receipt[client[d].action],
         decision.status \in {"CONSUMED", "REJECTED"} =>
           decision'.status = decision.status,
         runs' = runs \/ ~(client[d].action = "approve" /\ client[d].pc \in Executing)
  PROVE  ClientInv(d)'
BY DEF ClientInv

\* A handler that only moves on among its places is still the only one.
LEMMA HandlerKept ==
  ASSUME TypeOK, OneHandler, NEW c \in Clients, NEW w,
         client' = [client EXCEPT ![c] = w],
         w.pc \in Reserved => client[c].pc \in Reserved /\ w.action = client[c].action
  PROVE  OneHandler'
BY DEF TypeOK, OneHandler, Handles

\* A handler that takes a receipt nobody holds is the only one.
LEMMA HandlerTaken ==
  ASSUME TypeOK, HandlerInv, NEW c \in Clients, NEW w, NEW a \in Actions,
         client' = [client EXCEPT ![c] = w], w.action = a,
         receipt[a] # "IN_PROGRESS"
  PROVE  OneHandler'
<1>1. \A d \in Clients : ~Handles(d, a)
  BY DEF HandlerInv, ClientInv, Handles
<1> QED BY <1>1 DEF TypeOK, HandlerInv, OneHandler, Handles

\* A step of a handler that touches neither decision nor receipts nor runs.
LEMMA LocalStep ==
  ASSUME TypeOK, HandlerInv, NEW c \in Clients, NEW w,
         client' = [client EXCEPT ![c] = w],
         w.pc \in Reserved => client[c].pc \in Reserved /\ w.action = client[c].action,
         UNCHANGED <<decision, receipt, runs>>,
         ClientInv(c)'
  PROVE  HandlerInv'
<1>1. OneHandler'
  BY HandlerKept DEF HandlerInv
<1>2. ReceiptIsTrue'
  BY DEF HandlerInv, ReceiptIsTrue
<1>3. ASSUME NEW d \in Clients, d # c PROVE ClientInv(d)'
  <2>1. client'[d] = client[d] /\ ClientInv(d)
    BY <1>3 DEF TypeOK, HandlerInv
  <2> QED BY <2>1, OtherClient
<1>4. \A d \in Clients : ClientInv(d)'
  BY <1>3
<1> QED BY <1>1, <1>2, <1>4 DEF HandlerInv, VersionOf

\* The steps between the transactions that matter.
LEMMA QuietStep ==
  ASSUME TypeOK, HandlerInv, NEW c \in Clients,
         \/ KeepGet(c) \/ KeepWrite(c) \/ Read(c) \/ Admit(c) \/ Load(c) \/ Clear(c)
         \/ Check(c) \/ SaveResult(c) \/ SaveAgain(c) \/ Snapshot(c) \/ Request(c)
  PROVE  HandlerInv'
<1> DEFINE w == client'[c]
<1>c. client[c] \in Client /\ ClientInv(c) /\ client \in [Clients -> Client]
  BY DEF TypeOK, HandlerInv
<1>v. decision.version = VersionOf(decision.status)
  BY DEF HandlerInv
<1>r. /\ runs \in {0, 1} /\ (decision.status # "CONSUMED" => runs = 0)
      /\ ReceiptIsTrue
  BY DEF HandlerInv
<1>1. /\ client' = [client EXCEPT ![c] = w]
      /\ UNCHANGED <<decision, receipt, runs>>
  BY <1>c DEF KeepGet, KeepWrite, Read, Admit, Load, Clear, Check, SaveResult,
              SaveAgain, Snapshot, Request, Goto, EndWith, Return
<1>2. /\ w.pc \in Reserved => client[c].pc \in Reserved /\ w.action = client[c].action
      /\ ClientInv(c)'
  <2> USE DEF Client
  <2>1. CASE KeepGet(c)
    <3>1. client[c].pc = "keepGet" /\ w.pc = "keepWrite" /\ w.action = client[c].action
      BY <1>c, <2>1 DEF KeepGet, EndWith
    <3> QED BY <1>c, <1>1, <3>1 DEF ClientInv, Reserved, Executing
  <2>2. CASE KeepWrite(c)
    <3>1. w.pc = "idle"
      BY <1>c, <2>2 DEF KeepWrite, Return, IdleClient
    <3> QED BY <1>c, <1>1, <3>1 DEF ClientInv, Reserved, Executing
  <2>3. CASE Read(c)
    <3>1. /\ client[c].pc = "read" /\ w.action = client[c].action
          /\ w.pc \in {"cas", "fail"} /\ (w.pc = "cas" => w.version = 1)
      BY <1>c, <1>v, <2>3 DEF Read, VersionOf, Absent
    <3> QED BY <1>c, <1>1, <3>1 DEF ClientInv, Reserved, Executing
  <2>4. CASE Admit(c)
    <3>1. /\ client[c].pc = "admit" /\ w.action = client[c].action
          /\ w.pc \in {"load", "fail"}
      BY <1>c, <2>4 DEF Admit, Goto
    <3> QED BY <1>c, <1>1, <3>1 DEF ClientInv, Reserved, Executing
  <2>5. CASE Load(c)
    <3>1. /\ client[c].pc = "load" /\ w.action = client[c].action
          /\ w.pc \in {"consume", "clear", "fail"}
          /\ w.pc = "clear" => w.action = "retry"
      BY <1>c, <2>5 DEF Load, Goto
    <3> QED BY <1>c, <1>1, <3>1 DEF ClientInv, Reserved, Executing
  <2>6. CASE Clear(c)
    <3>1. client[c].pc = "clear" /\ w.action = client[c].action /\ w.pc = "check"
      BY <1>c, <2>6 DEF Clear, Goto
    <3> QED BY <1>c, <1>1, <3>1 DEF ClientInv, Reserved, Executing
  <2>7. CASE Check(c)
    <3>1. /\ client[c].pc = "check" /\ w.action = client[c].action
          /\ w.pc \in {"save", "tool"}
      BY <1>c, <2>7 DEF Check, Goto, EndWith
    <3> QED BY <1>c, <1>1, <3>1 DEF ClientInv, Reserved, Executing
  <2>8. CASE SaveResult(c)
    <3>1. /\ client[c].pc = "save" /\ w.action = client[c].action
          /\ w.pc = IF w.action \in {"approve", "retry"} THEN "again" ELSE "complete"
      BY <1>c, <2>8 DEF SaveResult, Goto
    <3> QED BY <1>c, <1>1, <3>1 DEF ClientInv, Reserved, Executing
  <2>9. CASE SaveAgain(c)
    <3>1. client[c].pc = "again" /\ w.action = client[c].action /\ w.pc = "complete"
      BY <1>c, <2>9 DEF SaveAgain, Goto
    <3> QED BY <1>c, <1>1, <3>1 DEF ClientInv, Reserved, Executing
  <2>10. CASE Snapshot(c)
    <3>1. /\ client[c].pc = "snapshot" /\ w.action = client[c].action
          /\ w.pc \in {"request", "read", "fail"}
      BY <1>c, <2>10 DEF Snapshot, Goto
    <3> QED BY <1>c, <1>1, <3>1 DEF ClientInv, Reserved, Executing
  <2>11. CASE Request(c)
    <3>1. client[c].pc = "request" /\ w.action = client[c].action /\ w.pc = "complete"
      BY <1>c, <2>11 DEF Request, Goto
    <3> QED BY <1>c, <1>1, <3>1 DEF ClientInv, Reserved, Executing
  <2> QED BY <2>1, <2>2, <2>3, <2>4, <2>5, <2>6, <2>7, <2>8, <2>9, <2>10, <2>11
<1> HIDE DEF w
<1> QED BY <1>1, <1>2, LocalStep

\* The verdict: one of the handlers that have read a pending decision wins.
LEMMA DecideStep ==
  ASSUME TypeOK, HandlerInv, NEW c \in Clients, Decide(c)
  PROVE  HandlerInv'
<1> DEFINE w == client'[c]
           a == client[c].action
<1>c. client[c] \in Client /\ ClientInv(c) /\ client \in [Clients -> Client]
  BY DEF TypeOK, HandlerInv
<1>1. /\ client' = [client EXCEPT ![c] = w]
      /\ client[c].pc = "cas" /\ client[c].version = 1 /\ w.action = a
      /\ UNCHANGED <<receipt, runs>>
      /\ w.pc = IF ~Holds("PENDING", 1) THEN "fail"
                ELSE IF a = "approve" THEN "admit" ELSE "save"
      /\ Swap("PENDING", 1, IF a = "approve" THEN "ACCEPTED" ELSE "REJECTED")
  BY <1>c DEF Decide, ClientInv, Client
<1>2. IF Holds("PENDING", 1)
        THEN /\ decision.status = "PENDING" /\ decision'.version = 2
             /\ decision'.status = IF a = "approve" THEN "ACCEPTED" ELSE "REJECTED"
        ELSE decision' = decision
  BY <1>1, SwapResult
<1>3. OneHandler'
  BY <1>1, HandlerKept DEF HandlerInv, Reserved
<1>4. ReceiptIsTrue' /\ decision'.version = VersionOf(decision'.status)
  BY <1>1, <1>2 DEF HandlerInv, ReceiptIsTrue, VersionOf, Absent
<1>5. ASSUME NEW d \in Clients, d # c PROVE ClientInv(d)'
  <2>1. client'[d] = client[d] /\ ClientInv(d)
    BY <1>1, <1>5 DEF TypeOK, HandlerInv
  <2> QED BY <1>1, <1>2, <2>1, OtherClient
<1>6. ClientInv(c)'
  BY <1>1, <1>2, <1>c DEF ClientInv, Reserved, Executing, Holds
<1>7. \A d \in Clients : ClientInv(d)'
  BY <1>5, <1>6
<1>8. runs' \in {0, 1} /\ (decision'.status # "CONSUMED" => runs' = 0)
  BY <1>1, <1>2 DEF HandlerInv
<1> QED BY <1>3, <1>4, <1>7, <1>8 DEF HandlerInv, VersionOf

\* The approval is used up, by the one handler of it.
LEMMA ConsumeStep ==
  ASSUME TypeOK, HandlerInv, NEW c \in Clients, Consume(c)
  PROVE  HandlerInv'
<1> DEFINE w == client'[c]
           v == client[c].version
<1>c. client[c] \in Client /\ ClientInv(c) /\ client \in [Clients -> Client]
  BY DEF TypeOK, HandlerInv
<1>1. /\ client' = [client EXCEPT ![c] = w]
      /\ client[c].pc = "consume" /\ w.action = client[c].action
      /\ UNCHANGED <<receipt, runs>>
      /\ w.pc = IF Holds("ACCEPTED", v) THEN "clear" ELSE "fail"
      /\ Swap("ACCEPTED", v, "CONSUMED")
  BY <1>c DEF Consume, Goto, Client
<1>2. IF Holds("ACCEPTED", v)
        THEN /\ decision.status = "ACCEPTED" /\ decision'.status = "CONSUMED"
             /\ decision'.version = v + 1 /\ decision.version = v
        ELSE decision' = decision
  BY <1>1, SwapResult DEF Holds
<1>3. OneHandler'
  BY <1>1, HandlerKept DEF HandlerInv, Reserved
<1>4. ReceiptIsTrue' /\ decision'.version = VersionOf(decision'.status)
  BY <1>1, <1>2 DEF HandlerInv, ReceiptIsTrue, VersionOf, Absent
<1>5. ASSUME NEW d \in Clients, d # c PROVE ClientInv(d)'
  <2>1. client'[d] = client[d] /\ ClientInv(d)
    BY <1>1, <1>5 DEF TypeOK, HandlerInv
  <2> QED BY <1>1, <1>2, <2>1, OtherClient
<1>6. ClientInv(c)'
  <2>1. Holds("ACCEPTED", v) => runs = 0
    BY <1>2 DEF HandlerInv
  <2> QED BY <1>1, <1>2, <1>c, <2>1 DEF ClientInv, Reserved, Executing
<1>7. \A d \in Clients : ClientInv(d)'
  BY <1>5, <1>6
<1>8. runs' \in {0, 1} /\ (decision'.status # "CONSUMED" => runs' = 0)
  BY <1>1, <1>2 DEF HandlerInv
<1> QED BY <1>3, <1>4, <1>7, <1>8 DEF HandlerInv, VersionOf

\* The plan runs: nobody else is about to run it.
LEMMA ToolStep ==
  ASSUME TypeOK, HandlerInv, NEW c \in Clients, Tool(c)
  PROVE  HandlerInv'
<1> DEFINE w == client'[c]
           a == client[c].action
<1>c. client[c] \in Client /\ ClientInv(c) /\ client \in [Clients -> Client]
  BY DEF TypeOK, HandlerInv
<1>1. /\ client' = [client EXCEPT ![c] = w]
      /\ client[c].pc = "tool" /\ w.action = a /\ w.pc = "save"
      /\ UNCHANGED <<receipt, decision>>
      /\ runs' = IF a = "approve" THEN runs + 1 ELSE runs
  BY <1>c DEF Tool, EndWith, Client
<1>2. a = "approve" => runs = 0 /\ decision.status = "CONSUMED"
  BY <1>c, <1>1 DEF ClientInv, Executing
<1>3. OneHandler'
  BY <1>1, HandlerKept DEF HandlerInv, Reserved
<1>4. ReceiptIsTrue' /\ decision'.version = VersionOf(decision'.status)
  BY <1>1 DEF HandlerInv, ReceiptIsTrue, VersionOf
<1>5. ASSUME NEW d \in Clients, d # c PROVE ClientInv(d)'
  <2>1. client'[d] = client[d] /\ ClientInv(d)
    BY <1>1, <1>5 DEF TypeOK, HandlerInv
  <2>2. a = "approve" => ~(client[d].action = "approve" /\ client[d].pc \in Executing)
    BY <1>1, <1>5 DEF HandlerInv, OneHandler, Handles, Reserved, Executing, Actions
  <2> QED BY <1>1, <2>1, <2>2, OtherClient
<1>6. ClientInv(c)'
  BY <1>1, <1>2, <1>c DEF ClientInv, Reserved, Executing
<1>7. \A d \in Clients : ClientInv(d)'
  BY <1>5, <1>6
<1>8. runs' \in {0, 1} /\ (decision'.status # "CONSUMED" => runs' = 0)
  BY <1>1, <1>2 DEF HandlerInv
<1> QED BY <1>3, <1>4, <1>7, <1>8 DEF HandlerInv, VersionOf

\* A receipt is taken by a handler that comes, or comes back.
LEMMA TakeStep ==
  ASSUME TypeOK, HandlerInv, NEW c \in Clients, NEW w, NEW a \in Actions,
         client' = [client EXCEPT ![c] = w],
         w.action = a, w.pc = FirstPc(a), receipt[a] # "IN_PROGRESS",
         receipt' = [receipt EXCEPT ![a] = "IN_PROGRESS"],
         UNCHANGED <<decision, runs>>
  PROVE  HandlerInv'
<1>1. OneHandler'
  BY HandlerTaken
<1>2. ReceiptIsTrue'
  BY DEF HandlerInv, ReceiptIsTrue, TypeOK, Actions
<1>3. ASSUME NEW d \in Clients, d # c PROVE ClientInv(d)'
  <2>1. client'[d] = client[d] /\ ClientInv(d)
    BY <1>3 DEF TypeOK, HandlerInv
  <2>2. client[d].pc \in Reserved => receipt'[client[d].action] = receipt[client[d].action]
    BY <2>1 DEF ClientInv, TypeOK
  <2> QED BY <2>1, <2>2, OtherClient
<1>4. ClientInv(c)'
  BY DEF TypeOK, ClientInv, Reserved, Executing, FirstPc, Actions
<1>5. \A d \in Clients : ClientInv(d)'
  BY <1>3, <1>4
<1> QED BY <1>1, <1>2, <1>5 DEF HandlerInv, VersionOf

\* A receipt is closed by the one that holds it.
LEMMA CloseStep ==
  ASSUME TypeOK, HandlerInv, NEW c \in Clients, Complete(c) \/ Fail(c)
  PROVE  HandlerInv'
<1> DEFINE w == client'[c]
           a == client[c].action
<1>c. client[c] \in Client /\ ClientInv(c) /\ client \in [Clients -> Client]
  BY DEF TypeOK, HandlerInv
<1>1. /\ client' = [client EXCEPT ![c] = w]
      /\ client[c].pc \in {"complete", "fail"} /\ w.pc \notin Reserved
      /\ w.pc # "idle" => w.action = a
      /\ UNCHANGED <<decision, runs>>
  BY <1>c DEF Complete, Fail, Goto, Return, IdleClient, Client, Reserved
<1>2. a \in Actions /\ \A b \in Actions \ {a} : receipt'[b] = receipt[b]
  BY <1>c, <1>1 DEF Complete, Fail, CloseReceipt, TypeOK, ClientInv
<1>3. OneHandler'
  BY <1>1, HandlerKept DEF HandlerInv
<1>4. ReceiptIsTrue'
  <2>1. receipt'[a] = "COMPLETED" => client[c].pc = "complete"
    BY <1>c, <1>1, <1>2 DEF Complete, Fail, CloseReceipt, TypeOK, ClientInv, Reserved
  <2> QED BY <1>c, <1>1, <1>2, <2>1 DEF ReceiptIsTrue, HandlerInv, ClientInv, Actions, Executing
<1>5. ASSUME NEW d \in Clients, d # c PROVE ClientInv(d)'
  <2>1. client'[d] = client[d] /\ ClientInv(d)
    BY <1>1, <1>5 DEF TypeOK, HandlerInv
  <2>2. client[d].pc \in Reserved => client[d].action \in Actions \ {a}
    BY <1>1, <1>2, <1>5, <2>1
       DEF HandlerInv, OneHandler, Handles, ClientInv, Reserved
  <2> QED BY <1>1, <1>2, <2>1, <2>2, OtherClient
<1>6. ClientInv(c)'
  <2>1. w.pc \in {"idle", "keepGet"}
    BY <1>c DEF Complete, Fail, Goto, Return, IdleClient, Client
  <2> QED BY <1>1, <1>2, <2>1 DEF ClientInv, Reserved, Executing
<1>7. \A d \in Clients : ClientInv(d)'
  BY <1>5, <1>6
<1> QED BY <1>1, <1>3, <1>4, <1>7 DEF HandlerInv, VersionOf

\* Steps that leave clients, receipts and executions alone.
LEMMA OutsideStep ==
  ASSUME TypeOK, HandlerInv, UNCHANGED <<client, receipt, runs>>,
         decision'.version = VersionOf(decision'.status),
         decision' = decision \/
           (decision.status \notin {"CONSUMED", "REJECTED"} /\ decision'.status # "CONSUMED")
  PROVE  HandlerInv'
<1>1. \A d \in Clients : ClientInv(d)'
  BY OtherClient DEF HandlerInv
<1>2. OneHandler' /\ ReceiptIsTrue'
  BY DEF HandlerInv, OneHandler, Handles, ReceiptIsTrue
<1>3. runs' \in {0, 1} /\ (decision'.status # "CONSUMED" => runs' = 0)
  BY DEF HandlerInv
<1> QED BY <1>1, <1>2, <1>3 DEF HandlerInv, VersionOf

\* Every step keeps the inductive invariant.
LEMMA ActionInvStep ==
  ASSUME TypeOK, ActionInv, [Next]_vars
  PROVE  ActionInv'
<1>h. HandlerInv
  BY DEF ActionInv
<1>1. HandlerInv'
  <2>1. CASE Plan
    <3>1. decision.status = Absent /\ decision.version = VersionOf(decision.status)
      BY <2>1 DEF Plan, ActionInv, HandlerInv
    <3>2. decision'.version = VersionOf(decision'.status) /\ decision'.status # "CONSUMED"
      BY <2>1, <3>1 DEF Plan, VersionOf, Absent
    <3> QED BY <1>h, <2>1, <3>1, <3>2, OutsideStep DEF Plan, Absent
  <2>2. CASE RunnerSave \/ RunnerSaveAgain \/ UNCHANGED vars
    BY <1>h, <2>2, OutsideStep DEF RunnerSave, RunnerSaveAgain, vars, HandlerInv, VersionOf
  <2>3. CASE Expire
    <3>1. decision.status = "PENDING" /\ decision.version = 1
      BY <1>h, <2>3 DEF Expire, HandlerInv, VersionOf, Absent
    <3>2. \/ decision' = decision
          \/ decision'.status = "EXPIRED" /\ decision'.version = 2
      BY <2>3, <3>1 DEF Expire, Swap
    <3>3. decision'.version = VersionOf(decision'.status) /\ decision'.status # "CONSUMED"
      BY <3>1, <3>2 DEF VersionOf, Absent
    <3> QED BY <1>h, <2>3, <3>1, <3>3, OutsideStep DEF Expire
  <2>4. CASE Die
    <3>1. CASE UNCHANGED client
      BY <1>h, <2>4, <3>1, OutsideStep DEF Die, HandlerInv, VersionOf
    <3>2. ASSUME NEW c \in Clients, Return(c) PROVE HandlerInv'
      <4>1. client' = [client EXCEPT ![c] = IdleClient] /\ ClientInv(c)'
        BY <3>2 DEF Return, IdleClient, TypeOK, ClientInv, Reserved, Executing
      <4> QED BY <1>h, <2>4, <4>1, LocalStep DEF Die, IdleClient, Reserved
    <3> QED BY <2>4, <3>1, <3>2 DEF Die
  <2>5. ASSUME NEW c \in Clients, FindFailed(c) PROVE HandlerInv'
    <3> DEFINE w == [client[c] EXCEPT !.pc = "reopen", !.action = "retry"]
    <3>1. client' = [client EXCEPT ![c] = w] /\ w.pc = "reopen" /\ w.action = "retry"
      BY <2>5 DEF FindFailed, TypeOK, Client
    <3> HIDE DEF w
    <3>2. ClientInv(c)'
      BY <3>1 DEF TypeOK, ClientInv, Reserved, Executing, Actions
    <3> QED BY <1>h, <2>5, <3>1, <3>2, LocalStep DEF FindFailed, Reserved
  <2>6. ASSUME NEW c \in Clients, NEW a \in Actions, Reserve(c, a) PROVE HandlerInv'
    <3> DEFINE w == [client[c] EXCEPT !.pc = FirstPc(a), !.action = a]
    <3>1. client' = [client EXCEPT ![c] = w] /\ w.pc = FirstPc(a) /\ w.action = a
      BY <2>6 DEF Reserve, TypeOK, Client
    <3> HIDE DEF w
    <3> QED BY <1>h, <2>6, <3>1, TakeStep DEF Reserve, Absent
  <2>7. ASSUME NEW c \in Clients, Reopen(c) PROVE HandlerInv'
    <3>1. CASE receipt["retry"] = "FAILED"
      <4> DEFINE w == [client[c] EXCEPT !.pc = "load"]
      <4>1. client[c].action = "retry"
        BY <1>h, <2>7 DEF Reopen, HandlerInv, ClientInv
      <4>2. client' = [client EXCEPT ![c] = w] /\ w.pc = FirstPc("retry") /\ w.action = "retry"
        BY <2>7, <3>1, <4>1 DEF Reopen, Goto, TypeOK, Client, FirstPc
      <4> HIDE DEF w
      <4> QED BY <1>h, <2>7, <3>1, <4>2, TakeStep DEF Reopen, Actions
    <3>2. CASE receipt["retry"] # "FAILED"
      <4>1. client' = [client EXCEPT ![c] = IdleClient] /\ ClientInv(c)'
        BY <2>7, <3>2 DEF Reopen, Return, IdleClient, TypeOK, ClientInv, Reserved, Executing
      <4> QED BY <1>h, <2>7, <3>2, <4>1, LocalStep DEF Reopen, IdleClient, Reserved
    <3> QED BY <3>1, <3>2
  <2> QED BY <1>h, <2>1, <2>2, <2>3, <2>4, <2>5, <2>6, <2>7, QuietStep, DecideStep,
             ConsumeStep, ToolStep, CloseStep DEF Next, RunnerStep, Step
<1>2. (runner.pc = "plan" => decision.status = Absent)'
  <2>1. CASE runner' = runner
    <3>1. CASE UNCHANGED decision
      BY <2>1, <3>1 DEF ActionInv
    <3>2. CASE decision.status \in {"PENDING", "ACCEPTED"}
      BY <2>1, <3>2 DEF ActionInv, Absent
    <3>3. UNCHANGED decision \/ decision.status \in {"PENDING", "ACCEPTED"} \/ runner' # runner
      <4>1. CASE Plan
        BY <4>1 DEF Plan
      <4>2. CASE Expire
        BY <4>2 DEF Expire
      <4>3. ASSUME NEW c \in Clients, Decide(c) \/ Consume(c)
            PROVE  UNCHANGED decision \/ decision.status \in {"PENDING", "ACCEPTED"}
        BY <4>3 DEF Decide, Consume, Swap
      <4>4. CASE UNCHANGED decision
        BY <4>4
      <4> QED BY <4>1, <4>2, <4>3, <4>4
              DEF Next, RunnerStep, Step, RunnerSave, RunnerSaveAgain, Die, FindFailed,
                  Reserve, Reopen, Complete, Fail, KeepGet, KeepWrite, Read, Admit, Load,
                  Clear, Check, Tool, SaveResult, SaveAgain, Snapshot, Request, vars
    <3> QED BY <2>1, <3>1, <3>2, <3>3
  <2>2. CASE runner' # runner
    <3>1. RunnerStep \/ Die
      BY <2>2 DEF Next, RunnerStep, Step, Expire, FindFailed, Reserve, Reopen, Complete,
         Fail, KeepGet, KeepWrite, Read, Decide, Admit, Load, Consume, Clear, Check,
         Tool, SaveResult, SaveAgain, Snapshot, Request, vars
    <3> QED BY <2>2, <3>1 DEF RunnerStep, Plan, RunnerSave, RunnerSaveAgain, Die,
               NoRunner, TypeOK, Runner
  <2> QED BY <2>1, <2>2
<1> QED BY <1>1, <1>2 DEF ActionInv

-----------------------------------------------------------------------------
(* Theorems.                                                               *)

\* Every variable keeps its type, and the inductive invariant holds.
THEOREM TypeCorrect == Spec => [](TypeOK /\ ActionInv)
<1>1. Init => TypeOK
  <2> SUFFICES ASSUME Init PROVE TypeOK
    OBVIOUS
  <2>1. job \in {Absent, "WAITING_FOR_DECISION", "FAILED"} /\ snap \in SnapStatus
    BY DEF Init, SnapStatus, TerminalStatus
  <2>2. decision \in [status : DecisionStatus, version : 0..3]
    BY DEF Init, DecisionStatus
  <2>3. runner \in Runner
    <3>1. Absent \in SnapStatus
      BY DEF SnapStatus
    <3> QED BY <3>1 DEF Init, Runner, NoRunner
  <2>4. client \in [Clients -> Client] /\ receipt \in [Actions -> ReceiptStatus]
    BY IdleType DEF Init, ReceiptStatus
  <2> QED BY <2>1, <2>2, <2>3, <2>4 DEF Init, TypeOK
<1>2. Init => ActionInv
  BY DEF Init, ActionInv, HandlerInv, OneHandler, Handles, ReceiptIsTrue, ClientInv,
     IdleClient, Reserved, Executing, VersionOf, NoRunner, Absent, Actions
<1>3. TypeOK /\ ActionInv /\ [Next]_vars => (TypeOK /\ ActionInv)'
  BY TypeStep, ActionInvStep DEF ActionInv
<1> QED BY <1>1, <1>2, <1>3, PTL DEF Spec

\* Every variable keeps its type (TypeOK).
THEOREM ActionTypes == Spec => []TypeOK
<1> QED BY TypeCorrect, PTL

\* No action on a run is ever handled by two threads at a time, whichever
\* clients call, reopen a failed retry or die.
THEOREM ActionHasOneHandler == Spec => []OneHandler
<1>1. ActionInv => OneHandler
  BY DEF ActionInv, HandlerInv
<1> QED BY <1>1, TypeCorrect, PTL

\* A completed receipt of an approval or a rejection is true of the decision.
THEOREM CompletedReceiptIsTrue == Spec => []ReceiptIsTrue
<1>1. ActionInv => ReceiptIsTrue
  BY DEF ActionInv, HandlerInv
<1> QED BY <1>1, TypeCorrect, PTL

-----------------------------------------------------------------------------
(* The snapshot and the decision.                                          *)

\* What SnapshotAgrees speaks of: a synchronous run whose own thread had ended,
\* none of whose threads has died or been refused so far.
Followed ==
  /\ runner = NoRunner /\ job = Absent
  /\ deaths = 0 /\ ~refused
  /\ decision.status # Absent

\* What the handlers may store once the decision has fallen.
Final == SnapAfter(decision.status) \ {"WAITING_FOR_DECISION"}

\* Whoever stores a snapshot stores one of these, reads none that still waits for
\* persist_receipt, and executes only what was consumed; a handler of an approval
\* between its two transactions on the decision is the only one to move it.
ClientAgrees(c) ==
  LET pc == client[c].pc
      a == client[c].action
  IN /\ pc # "request"
     /\ pc \in {"save", "again", "keepWrite"} => client[c].out \in Final
     /\ pc \in {"again", "complete", "keepGet", "keepWrite"} => snap # "WAITING_FOR_DECISION"
     /\ pc \in Executing => decision.status = "CONSUMED"
     /\ pc = "consume" => a = "approve"
     /\ pc \in {"admit", "load", "consume"} /\ a = "approve" =>
          decision.status = "ACCEPTED" /\ client[c].version = 2

\* The handler is on its way to the save that ends the waiting of the run.
Owes(c) ==
  \/ client[c].pc \in {"admit", "consume", "save"} \cup Executing
  \/ client[c].pc = "load" /\ client[c].action = "approve"

SnapshotFollows ==
  /\ snap \in {"WAITING_FOR_DECISION"} \cup Final
  /\ \A c \in Clients : ClientAgrees(c)
  /\ snap = "WAITING_FOR_DECISION" =>
       decision.status \in {"PENDING", "EXPIRED"} \/ \E c \in Clients : Owes(c)

RunnerHasEnd == runner.pc \in {"save", "again"} => runner.out # Absent

SnapshotInv == RunnerHasEnd /\ (Followed => SnapshotFollows)

\* Without a job row nothing fences a save.
LEMMA SaveUnfenced ==
  ASSUME job = Absent, NEW out, Save(out)
  PROVE  snap' = out
BY DEF Save, Fenced, TerminalStatus, Absent

\* Final as the handlers need it.
LEMMA FinalByStatus ==
  /\ decision.status = "REJECTED" => Final = {"REJECTED", "CANCELLED"}
  /\ decision.status = "CONSUMED" => Final = {"COMPLETED", "FAILED", "CANCELLED"}
  /\ decision.status \notin {"REJECTED", "CONSUMED"} => Final = {}
  /\ "WAITING_FOR_DECISION" \notin Final
BY DEF Final, SnapAfter

\* A run can only be followed that was followed before.
LEMMA FollowedBefore ==
  ASSUME TypeOK, RunnerHasEnd, [Next]_vars, Followed'
  PROVE  Followed /\ runner.pc = "done"
<1> USE DEF Followed, NoRunner
<1>1. CASE Plan
  BY <1>1 DEF Plan
<1>2. CASE RunnerSave
  BY <1>2 DEF RunnerSave, TypeOK, Runner
<1>3. CASE RunnerSaveAgain
  BY <1>3 DEF RunnerSaveAgain, RunnerHasEnd, TypeOK, Runner
<1>4. CASE Die
  BY <1>4 DEF Die, TypeOK
<1>5. CASE Expire
  BY <1>5 DEF Expire, Absent
<1>6. ASSUME NEW c \in Clients, Decide(c) \/ Consume(c) PROVE Followed /\ runner.pc = "done"
  BY <1>6 DEF Decide, Consume, Swap, Absent
<1>7. ASSUME NEW c \in Clients, Admit(c) PROVE Followed /\ runner.pc = "done"
  BY <1>7 DEF Admit, TypeOK
<1>8. CASE UNCHANGED <<job, runner, decision, deaths, refused>>
  BY <1>8
<1> QED BY <1>1, <1>2, <1>3, <1>4, <1>5, <1>6, <1>7, <1>8
        DEF Next, RunnerStep, Step, FindFailed, Reserve, Reopen, Complete, Fail,
            KeepGet, KeepWrite, Read, Load, Clear, Check, Tool, SaveResult,
            SaveAgain, Snapshot, Request, vars

\* A step of one handler that leaves the decision alone.
LEMMA HandlerFollows ==
  ASSUME TypeOK, SnapshotFollows, NEW c \in Clients, NEW w,
         client' = [client EXCEPT ![c] = w],
         UNCHANGED decision,
         snap' = snap \/ snap' \in Final,
         ClientAgrees(c)',
         Owes(c) /\ snap' = "WAITING_FOR_DECISION" => Owes(c)'
  PROVE  SnapshotFollows'
<1>1. Final' = Final /\ "WAITING_FOR_DECISION" \notin Final
  BY FinalByStatus DEF Final, SnapAfter
<1>2. ASSUME NEW d \in Clients, d # c PROVE ClientAgrees(d)' /\ (Owes(d) => Owes(d)')
  <2>1. client'[d] = client[d] /\ ClientAgrees(d)
    BY <1>2 DEF TypeOK, SnapshotFollows
  <2> QED BY <1>1, <2>1 DEF ClientAgrees, Owes
<1>3. \A d \in Clients : ClientAgrees(d)'
  BY <1>2
<1>4. snap' \in {"WAITING_FOR_DECISION"} \cup Final'
  BY <1>1 DEF SnapshotFollows
<1>5. ASSUME snap' = "WAITING_FOR_DECISION", decision'.status \notin {"PENDING", "EXPIRED"}
      PROVE  \E d \in Clients : Owes(d)'
  <2>1. PICK d \in Clients : Owes(d)
    BY <1>1, <1>5 DEF SnapshotFollows
  <2> QED BY <1>2, <1>5, <2>1
<1> QED BY <1>3, <1>4, <1>5 DEF SnapshotFollows

\* The steps that leave the decision alone.
LEMMA StepFollows ==
  ASSUME TypeOK, HandlerInv, Followed, SnapshotFollows, NEW c \in Clients,
         \/ Reopen(c) \/ Complete(c) \/ Fail(c) \/ KeepGet(c) \/ KeepWrite(c)
         \/ Read(c) \/ (Admit(c) /\ ~refused') \/ Load(c) \/ Clear(c) \/ Check(c)
         \/ Tool(c) \/ SaveResult(c) \/ SaveAgain(c) \/ Snapshot(c) \/ Request(c)
  PROVE  SnapshotFollows'
<1> DEFINE w == client'[c]
<1>c. /\ client[c] \in Client /\ ClientInv(c) /\ ClientAgrees(c)
      /\ client \in [Clients -> Client]
  BY DEF TypeOK, HandlerInv, SnapshotFollows
<1>s. snap \in {"WAITING_FOR_DECISION"} \cup Final
  BY DEF SnapshotFollows
<1>1. client' = [client EXCEPT ![c] = w] /\ UNCHANGED decision
  BY <1>c DEF Reopen, Complete, Fail, KeepGet, KeepWrite, Read, Admit, Load, Clear, Check,
              Tool, SaveResult, SaveAgain, Snapshot, Request, Goto, EndWith, Return
<1>2. /\ snap' = snap \/ snap' \in Final
      /\ ClientAgrees(c)'
      /\ Owes(c) /\ snap' = "WAITING_FOR_DECISION" => Owes(c)'
  <2> USE DEF Client
  <2>f. Final' = Final
    BY <1>1 DEF Final, SnapAfter
  <2>1. CASE Reopen(c)
    <3>1. /\ client[c].pc = "reopen" /\ snap' = snap
          /\ \/ w.pc = "load" /\ w.action = client[c].action
             \/ w.pc = "idle"
      BY <1>c, <2>1 DEF Reopen, Goto, Return, IdleClient
    <3> QED BY <1>c, <1>1, <3>1 DEF ClientAgrees, ClientInv, Owes, Executing
  <2>2. CASE Complete(c)
    <3>1. client[c].pc = "complete" /\ snap' = snap /\ w.pc = "keepGet"
      BY <1>c, <2>2 DEF Complete, Goto
    <3> QED BY <1>c, <1>1, <3>1 DEF ClientAgrees, Owes, Executing
  <2>3. CASE Fail(c)
    <3>1. client[c].pc = "fail" /\ snap' = snap /\ w.pc = "idle"
      BY <1>c, <2>3 DEF Fail, Return, IdleClient
    <3> QED BY <1>c, <1>1, <3>1 DEF ClientAgrees, Owes, Executing
  <2>4. CASE KeepGet(c)
    <3>1. client[c].pc = "keepGet" /\ snap' = snap /\ w.pc = "keepWrite" /\ w.out = snap
      BY <1>c, <2>4 DEF KeepGet, EndWith
    <3> QED BY <1>c, <1>s, <1>1, <2>f, <3>1 DEF ClientAgrees, Owes, Executing
  <2>5. CASE KeepWrite(c)
    <3>1. client[c].pc = "keepWrite" /\ snap' = client[c].out /\ w.pc = "idle"
      BY <1>c, <2>5, SaveUnfenced DEF KeepWrite, Return, IdleClient, Followed
    <3> QED BY <1>c, <1>1, <3>1 DEF ClientAgrees, Owes, Executing
  <2>6. CASE Read(c)
    <3>1. client[c].pc = "read" /\ snap' = snap /\ w.pc \in {"cas", "fail"}
      BY <1>c, <2>6 DEF Read
    <3> QED BY <1>c, <1>1, <3>1 DEF ClientAgrees, Owes, Executing
  <2>7. CASE Admit(c) /\ ~refused'
    <3>1. /\ client[c].pc = "admit" /\ snap' = snap /\ w.pc = "load"
          /\ w.action = client[c].action /\ w.version = client[c].version
      BY <1>c, <2>7 DEF Admit, Goto
    <3> QED BY <1>c, <1>1, <3>1 DEF ClientAgrees, ClientInv, Owes, Executing
  <2>8. CASE Load(c)
    <3>1. /\ client[c].pc = "load" /\ snap' = snap
          /\ w.action = client[c].action /\ w.version = client[c].version
          /\ \/ client[c].action = "approve" /\ snap = "WAITING_FOR_DECISION" /\ w.pc = "consume"
             \/ client[c].action = "retry" /\ snap = "FAILED" /\ w.pc = "clear"
             \/ w.pc = "fail" /\ ~(client[c].action = "approve" /\ snap = "WAITING_FOR_DECISION")
      BY <1>c, <2>8 DEF Load, Goto
    <3>2. snap = "FAILED" => decision.status = "CONSUMED"
      BY <1>s, FinalByStatus
    <3>3. client[c].action = "approve" => snap = "WAITING_FOR_DECISION"
      BY <1>c, <1>s, <3>1, FinalByStatus DEF ClientAgrees
    <3> QED BY <1>c, <1>1, <3>1, <3>2, <3>3 DEF ClientAgrees, Owes, Executing
  <2>9. CASE Clear(c)
    <3>1. client[c].pc = "clear" /\ snap' = snap /\ w.pc = "check"
      BY <1>c, <2>9 DEF Clear, Goto
    <3> QED BY <1>c, <1>1, <3>1 DEF ClientAgrees, Owes, Executing
  <2>10. CASE Check(c)
    <3>1. /\ client[c].pc = "check" /\ snap' = snap
          /\ w.pc = "tool" \/ (w.pc = "save" /\ w.out \in {"FAILED", "CANCELLED"})
      BY <1>c, <2>10 DEF Check, Goto, EndWith
    <3>2. decision.status = "CONSUMED"
      BY <1>c, <3>1 DEF ClientAgrees, Executing
    <3> QED BY <1>c, <1>1, <2>f, <3>1, <3>2, FinalByStatus DEF ClientAgrees, Owes, Executing
  <2>11. CASE Tool(c)
    <3>1. /\ client[c].pc = "tool" /\ snap' = snap
          /\ w.pc = "save" /\ w.out \in {"COMPLETED", "FAILED"}
      BY <1>c, <2>11 DEF Tool, EndWith
    <3>2. decision.status = "CONSUMED"
      BY <1>c, <3>1 DEF ClientAgrees, Executing
    <3> QED BY <1>c, <1>1, <2>f, <3>1, <3>2, FinalByStatus DEF ClientAgrees, Owes, Executing
  <2>12. CASE SaveResult(c)
    <3>1. /\ client[c].pc = "save" /\ snap' = client[c].out
          /\ w.pc \in {"again", "complete"} /\ w.out = client[c].out
      BY <1>c, <2>12, SaveUnfenced DEF SaveResult, Goto, Followed
    <3> QED BY <1>c, <1>1, <2>f, <3>1, FinalByStatus DEF ClientAgrees, Owes, Executing
  <2>13. CASE SaveAgain(c)
    <3>1. client[c].pc = "again" /\ snap' = client[c].out /\ w.pc = "complete"
      BY <1>c, <2>13, SaveUnfenced DEF SaveAgain, Goto, Followed
    <3> QED BY <1>c, <1>1, <3>1, FinalByStatus DEF ClientAgrees, Owes, Executing
  <2>14. CASE Snapshot(c)
    <3>1. snap # "PLANNING"
      BY <1>s DEF Final, SnapAfter
    <3>2. client[c].pc = "snapshot" /\ snap' = snap /\ w.pc \in {"read", "fail"}
      BY <1>c, <2>14, <3>1 DEF Snapshot, Goto
    <3> QED BY <1>c, <1>1, <3>2 DEF ClientAgrees, Owes, Executing
  <2>15. CASE Request(c)
    BY <1>c, <2>15 DEF Request, ClientAgrees
  <2> QED BY <2>1, <2>2, <2>3, <2>4, <2>5, <2>6, <2>7, <2>8, <2>9, <2>10, <2>11,
             <2>12, <2>13, <2>14, <2>15
<1> HIDE DEF w
<1> QED BY <1>1, <1>2, HandlerFollows

\* As long as nothing may be stored, nobody is about to, and the run waits.
LEMMA NothingStored ==
  ASSUME SnapshotFollows, decision.status \notin {"REJECTED", "CONSUMED"}
  PROVE  /\ snap = "WAITING_FOR_DECISION"
         /\ \A d \in Clients :
              client[d].pc \notin {"save", "again", "complete", "keepGet", "keepWrite", "request"}
                                 \cup Executing
<1>1. Final = {}
  BY FinalByStatus
<1>2. snap = "WAITING_FOR_DECISION"
  BY <1>1 DEF SnapshotFollows
<1>3. ASSUME NEW d \in Clients
      PROVE  client[d].pc \notin {"save", "again", "complete", "keepGet", "keepWrite", "request"}
                                \cup Executing
  BY <1>1, <1>2 DEF SnapshotFollows, ClientAgrees, Executing
<1> QED BY <1>2, <1>3

\* Before the decision has fallen no approval is past it.
LEMMA NotAccepted ==
  ASSUME HandlerInv, SnapshotFollows, decision.status # "ACCEPTED", NEW d \in Clients
  PROVE  /\ client[d].pc \notin {"admit", "consume"}
         /\ client[d].pc = "load" => client[d].action # "approve"
<1>1. ClientAgrees(d) /\ ClientInv(d)
  BY DEF SnapshotFollows, HandlerInv
<1> QED BY <1>1 DEF ClientAgrees, ClientInv

\* The verdict: the winner is the first to owe the run a save.
LEMMA DecideFollows ==
  ASSUME TypeOK, HandlerInv, SnapshotFollows, NEW c \in Clients, Decide(c)
  PROVE  SnapshotFollows'
<1> DEFINE w == client'[c]
           a == client[c].action
<1>c. client[c] \in Client /\ ClientInv(c) /\ client \in [Clients -> Client]
  BY DEF TypeOK, HandlerInv
<1>1. /\ client' = [client EXCEPT ![c] = w]
      /\ client[c].pc = "cas" /\ snap' = snap
      /\ w.pc = IF ~Holds("PENDING", 1) THEN "fail"
                ELSE IF a = "approve" THEN "admit" ELSE "save"
      /\ w.version = 2 /\ w.action = a
      /\ w.out = IF a = "reject" THEN "REJECTED" ELSE "CANCELLED"
      /\ Swap("PENDING", 1, IF a = "approve" THEN "ACCEPTED" ELSE "REJECTED")
  BY <1>c DEF Decide, ClientInv, Client
<1> HIDE DEF w
<1>2. CASE ~Holds("PENDING", 1)
  <2>1. decision' = decision /\ w.pc = "fail"
    BY <1>1, <1>2, SwapResult
  <2>2. ClientAgrees(c)' /\ ~Owes(c)
    BY <1>c, <1>1, <2>1 DEF ClientAgrees, Owes, Executing
  <2> QED BY <1>1, <2>1, <2>2, HandlerFollows
<1>3. CASE Holds("PENDING", 1)
  <2>1. /\ decision.status = "PENDING"
        /\ decision'.status = IF a = "approve" THEN "ACCEPTED" ELSE "REJECTED"
    BY <1>1, <1>3, SwapResult
  <2>2. snap' = "WAITING_FOR_DECISION"
    BY <1>1, <2>1, NothingStored
  <2>3. Final' = IF a = "approve" THEN {} ELSE {"REJECTED", "CANCELLED"}
    BY <2>1 DEF Final, SnapAfter
  <2>4. ASSUME NEW d \in Clients, d # c PROVE ClientAgrees(d)'
    <3>1. client'[d] = client[d]
      BY <1>c, <1>1, <2>4
    <3> QED BY <2>1, <3>1, NothingStored, NotAccepted DEF ClientAgrees
  <2>5. ClientAgrees(c)' /\ Owes(c)'
    BY <1>c, <1>1, <1>3, <2>1, <2>3 DEF ClientAgrees, Owes, Executing
  <2>6. \A d \in Clients : ClientAgrees(d)'
    BY <2>4, <2>5
  <2> QED BY <2>2, <2>5, <2>6 DEF SnapshotFollows
<1> QED BY <1>2, <1>3

\* An approval that has won is always there to be consumed.
LEMMA ConsumeFollows ==
  ASSUME TypeOK, HandlerInv, SnapshotFollows, NEW c \in Clients, Consume(c)
  PROVE  SnapshotFollows'
<1> DEFINE w == client'[c]
<1>c. /\ client[c] \in Client /\ ClientInv(c) /\ ClientAgrees(c)
      /\ client \in [Clients -> Client]
  BY DEF TypeOK, HandlerInv, SnapshotFollows
<1>1. /\ client' = [client EXCEPT ![c] = w]
      /\ client[c].pc = "consume" /\ client[c].action = "approve" /\ snap' = snap
      /\ decision.status = "ACCEPTED" /\ client[c].version = 2
  BY <1>c DEF Consume, ClientAgrees, Goto
<1>2. Holds("ACCEPTED", 2)
  <2>1. decision.version = 2
    BY <1>1 DEF HandlerInv, VersionOf, Absent
  <2> QED BY <1>1, <2>1 DEF Holds, TypeOK
<1>3. w.pc = "clear" /\ decision'.status = "CONSUMED"
  BY <1>c, <1>1, <1>2, SwapResult DEF Consume, Goto
<1>4. snap' = "WAITING_FOR_DECISION"
  BY <1>1, NothingStored
<1>5. ASSUME NEW d \in Clients, d # c PROVE ClientAgrees(d)'
  <2>1. client'[d] = client[d] /\ ClientAgrees(d) /\ ClientInv(d)
    BY <1>c, <1>1, <1>5 DEF SnapshotFollows, HandlerInv
  <2>2. ~(client[d].pc \in {"admit", "load", "consume"} /\ client[d].action = "approve")
    BY <1>1, <1>5 DEF HandlerInv, OneHandler, Handles, Reserved, Actions
  <2> QED BY <1>1, <1>3, <2>1, <2>2, NothingStored DEF ClientAgrees
<1> HIDE DEF w
<1>6. ClientAgrees(c)' /\ Owes(c)'
  BY <1>c, <1>1, <1>3 DEF ClientAgrees, Owes, Executing
<1>7. \A d \in Clients : ClientAgrees(d)'
  BY <1>5, <1>6
<1> QED BY <1>4, <1>6, <1>7 DEF SnapshotFollows

\* A deadline that passes leaves the run waiting.
LEMMA ExpireFollows ==
  ASSUME HandlerInv, SnapshotFollows, Expire
  PROVE  SnapshotFollows'
<1>1. /\ decision.status = "PENDING" /\ decision'.status \in {"PENDING", "EXPIRED"}
      /\ UNCHANGED <<snap, client>>
  BY DEF Expire, Swap
<1>2. \A d \in Clients : ClientAgrees(d)'
  BY <1>1, NothingStored, NotAccepted DEF ClientAgrees
<1> QED BY <1>1, <1>2, NothingStored DEF SnapshotFollows

\* Every step keeps the invariant of the snapshot.
LEMMA SnapshotStep ==
  ASSUME TypeOK, ActionInv, SnapshotInv, [Next]_vars
  PROVE  SnapshotInv'
<1>h. HandlerInv /\ RunnerHasEnd
  BY DEF ActionInv, SnapshotInv
<1>1. RunnerHasEnd'
  <2>1. CASE runner' = runner
    BY <1>h, <2>1 DEF RunnerHasEnd
  <2>2. CASE runner' # runner
    <3>1. RunnerStep \/ Die
      BY <2>2 DEF Next, RunnerStep, Step, Expire, FindFailed, Reserve, Reopen, Complete,
         Fail, KeepGet, KeepWrite, Read, Decide, Admit, Load, Consume, Clear, Check,
         Tool, SaveResult, SaveAgain, Snapshot, Request, vars
    <3> QED BY <1>h, <2>2, <3>1 DEF RunnerStep, Plan, RunnerSave, RunnerSaveAgain, Die,
               NoRunner, TypeOK, Runner, RunnerHasEnd, Absent
  <2> QED BY <2>1, <2>2
<1>2. ASSUME Followed' PROVE SnapshotFollows'
  <2>f. Followed /\ runner.pc = "done" /\ SnapshotFollows
    BY <1>h, <1>2, FollowedBefore DEF SnapshotInv
  <2>1. ~RunnerStep /\ ~Die
    BY <1>2, <2>f DEF RunnerStep, Plan, RunnerSave, RunnerSaveAgain, Die, Followed, TypeOK
  <2>2. CASE Expire
    BY <1>h, <2>f, <2>2, ExpireFollows
  <2>3. ASSUME NEW c \in Clients, Step(c) PROVE SnapshotFollows'
    <3>1. ~refused'
      BY <1>2 DEF Followed
    <3> QED BY <1>h, <2>f, <2>3, <3>1, StepFollows, DecideFollows, ConsumeFollows DEF Step
  <2>4. ASSUME NEW c \in Clients, NEW a \in Actions,
               Reserve(c, a) \/ (FindFailed(c) /\ a = "retry")
        PROVE  SnapshotFollows'
    <3> DEFINE w == client'[c]
    <3>1. /\ client' = [client EXCEPT ![c] = w] /\ client[c].pc = "idle"
          /\ w.pc \in {"read", "snapshot", "reopen"} \/ (w.pc = "load" /\ w.action = "retry")
          /\ UNCHANGED <<decision, snap>>
      BY <2>4 DEF Reserve, FindFailed, Arrives, FirstPc, Actions, TypeOK, Client
    <3> HIDE DEF w
    <3>2. ClientAgrees(c)' /\ ~Owes(c)
      BY <3>1 DEF TypeOK, ClientAgrees, Owes, Executing
    <3> QED BY <2>f, <3>1, <3>2, HandlerFollows
  <2>5. CASE UNCHANGED vars
    BY <2>f, <2>5 DEF vars, SnapshotFollows, ClientAgrees, Owes, Final
  <2> QED BY <2>1, <2>2, <2>3, <2>4, <2>5 DEF Next, Actions
<1> QED BY <1>1, <1>2 DEF SnapshotInv

\* When all handlers of a followed run are through, nobody owes it a save, so that
\* decision and snapshot agree: an approval that was consumed has ended the
\* waiting, a rejection is stored, and an expired decision leaves the run waiting.
THEOREM SnapshotsAgree == Spec => []SnapshotAgrees
<1>1. Init => SnapshotInv
  <2> SUFFICES ASSUME Init PROVE SnapshotInv
    OBVIOUS
  <2>1. RunnerHasEnd
    BY DEF Init, RunnerHasEnd, NoRunner
  <2>2. ASSUME Followed PROVE SnapshotFollows
    <3>1. snap = "WAITING_FOR_DECISION" /\ decision.status = "PENDING"
      BY <2>2 DEF Init, Followed
    <3>2. \A c \in Clients : client[c].pc = "idle"
      BY DEF Init, IdleClient
    <3> QED BY <3>1, <3>2 DEF SnapshotFollows, ClientAgrees, Executing
  <2> QED BY <2>1, <2>2 DEF SnapshotInv
<1>2. TypeOK /\ ActionInv /\ SnapshotInv /\ [Next]_vars => SnapshotInv'
  BY SnapshotStep
<1>3. SnapshotInv => SnapshotAgrees
  <2> SUFFICES ASSUME SnapshotInv, Settled, runner = NoRunner, job = Absent,
                      deaths = 0, ~refused, decision.status # Absent
               PROVE  snap \in SnapAfter(decision.status)
    BY DEF SnapshotAgrees
  <2>1. SnapshotFollows
    BY DEF SnapshotInv, Followed
  <2>2. \A c \in Clients : ~Owes(c)
    BY DEF Settled, Owes, Executing
  <2>3. CASE snap = "WAITING_FOR_DECISION"
    BY <2>1, <2>2, <2>3 DEF SnapshotFollows, SnapAfter
  <2>4. CASE snap \in Final
    BY <2>4 DEF Final
  <2> QED BY <2>1, <2>3, <2>4 DEF SnapshotFollows
<1> QED BY <1>1, <1>2, <1>3, TypeCorrect, PTL DEF Spec

-----------------------------------------------------------------------------
(* Refinement.                                                             *)

LEMMA LedgerStep ==
  ASSUME TypeOK, ActionInv, [Next]_vars
  PROVE  [Ledger!Next]_(Ledger!vars)
<1> USE DEF Ledger!Next, Ledger!vars, Ledger!Propose, Ledger!Decide, Ledger!Consume,
            Ledger!Execute, Ledger!Move
<1>1. CASE Plan
  BY <1>1 DEF Plan, ActionInv, Absent
<1>2. CASE Expire
  BY <1>2 DEF Expire, Swap
<1>3. ASSUME NEW c \in Clients, Decide(c) PROVE [Ledger!Next]_(Ledger!vars)
  <2>1. \/ decision' = decision
        \/ decision.status = "PENDING" /\ decision'.status \in {"ACCEPTED", "REJECTED"}
    BY <1>3 DEF Decide, Swap
  <2> QED BY <1>3, <2>1 DEF Decide
<1>4. ASSUME NEW c \in Clients, Consume(c) PROVE [Ledger!Next]_(Ledger!vars)
  BY <1>4 DEF Consume, Swap
<1>5. ASSUME NEW c \in Clients, Tool(c) PROVE [Ledger!Next]_(Ledger!vars)
  <2>1. client[c].action = "approve" => runs = 0 /\ decision.status = "CONSUMED"
    BY <1>5 DEF Tool, ActionInv, HandlerInv, ClientInv, Executing
  <2> QED BY <1>5, <2>1 DEF Tool
<1>6. CASE UNCHANGED <<decision, runs>>
  BY <1>6
<1> QED BY <1>1, <1>2, <1>3, <1>4, <1>5, <1>6
        DEF Next, RunnerStep, Step, RunnerSave, RunnerSaveAgain, Die, FindFailed,
            Reserve, Reopen, Complete, Fail, KeepGet, KeepWrite, Read, Admit, Load,
            Clear, Check, SaveResult, SaveAgain, Snapshot, Request, vars

\* The decision falls once, an approval is consumed before the plan runs, the
\* plan runs at most once and never after a rejection or an expiry.
THEOREM DecisionLedgerHolds == Spec => LedgerSpec
<1>1. Init => Ledger!Init
  BY DEF Init, Ledger!Init, Absent
<1> QED BY <1>1, LedgerStep, TypeCorrect, PTL DEF Spec, LedgerSpec, Ledger!Spec

-----------------------------------------------------------------------------
(* Why every action that was let in is answered: its receipt has a handler *)
(* as long as no thread dies, and a handler only goes forward.             *)

Place(pc) ==
  CASE pc \in {"snapshot", "reopen"} -> 1 [] pc = "read" -> 2 [] pc = "cas" -> 3
    [] pc = "admit" -> 4 [] pc = "load" -> 5 [] pc = "consume" -> 6 [] pc = "clear" -> 7
    [] pc = "check" -> 8 [] pc = "tool" -> 9 [] pc = "save" -> 10
    [] pc \in {"again", "request"} -> 11 [] pc \in {"complete", "fail"} -> 12
    [] pc = "keepGet" -> 13 [] pc = "keepWrite" -> 14 [] pc = "idle" -> 15

Further(c) == Place(client'[c].pc) > Place(client[c].pc)

\* A handler that goes on comes nearer to its return, and nothing but a death
\* takes it anywhere else.
OnlyForward ==
  [][\A c \in Clients :
       /\ Step(c) => Further(c)
       /\ client[c].pc # "idle" /\ deaths' = deaths =>
            client'[c] = client[c] \/ Further(c)]_vars

ReceiptHasHandler ==
  deaths = 0 =>
    \A a \in Actions : receipt[a] = "IN_PROGRESS" => \E c \in Clients : Handles(c, a)

\* Where a step of a handler leads.
LEMMA StepPlaces ==
  ASSUME TypeOK, NEW c \in Clients, Step(c)
  PROVE  /\ Further(c)
         /\ \A d \in Clients \ {c} : client'[d] = client[d]
         /\ client[c].pc \in Reserved /\ client'[c].pc \in Reserved =>
              client'[c].action = client[c].action
         /\ deaths' = deaths
<1>0. client \in [Clients -> Client] /\ client[c] \in Client
  BY DEF TypeOK
<1>1. CASE Reopen(c)
  <2>1. CASE Goto(c, "load")
    BY <1>0, <1>1, <2>1 DEF Reopen, Goto, Client, Further, Place, Reserved
  <2>2. CASE Return(c)
    BY <1>0, <1>1, <2>2 DEF Reopen, Return, IdleClient, Further, Place, Reserved
  <2> QED BY <1>1, <2>1, <2>2 DEF Reopen
<1>2. CASE Complete(c)
  BY <1>0, <1>2 DEF Complete, Goto, Client, Further, Place, Reserved
<1>3. CASE Fail(c)
  BY <1>0, <1>3 DEF Fail, Return, IdleClient, Further, Place, Reserved
<1>4. CASE KeepGet(c)
  BY <1>0, <1>4 DEF KeepGet, EndWith, Client, Further, Place, Reserved
<1>5. CASE KeepWrite(c)
  BY <1>0, <1>5 DEF KeepWrite, Return, IdleClient, Further, Place, Reserved
<1>6. CASE Read(c)
  BY <1>0, <1>6 DEF Read, Client, Further, Place, Reserved
<1>7. CASE Decide(c)
  BY <1>0, <1>7 DEF Decide, Client, Further, Place, Reserved
<1>8. CASE Admit(c)
  <2>1. PICK ok \in {TRUE, ~Quota} : Goto(c, IF ok THEN "load" ELSE "fail")
    BY <1>8 DEF Admit
  <2> QED BY <1>0, <1>8, <2>1 DEF Admit, Goto, Client, Further, Place, Reserved
<1>9. CASE Load(c)
  <2>1. PICK pc \in {"consume", "clear", "fail"} : Goto(c, pc)
    BY <1>9 DEF Load
  <2> QED BY <1>0, <1>9, <2>1 DEF Load, Goto, Client, Further, Place, Reserved
<1>10. CASE Consume(c)
  <2>1. PICK pc \in {"clear", "fail"} : Goto(c, pc)
    BY <1>10 DEF Consume
  <2> QED BY <1>0, <1>10, <2>1 DEF Consume, Goto, Client, Further, Place, Reserved
<1>11. CASE Clear(c)
  BY <1>0, <1>11 DEF Clear, Goto, Client, Further, Place, Reserved
<1>12. CASE Check(c)
  <2>1. CASE Goto(c, "tool")
    BY <1>0, <1>12, <2>1 DEF Check, Goto, Client, Further, Place, Reserved
  <2>2. CASE EndWith(c, "save", "FAILED") \/ EndWith(c, "save", "CANCELLED")
    BY <1>0, <1>12, <2>2 DEF Check, EndWith, Client, Further, Place, Reserved
  <2> QED BY <1>12, <2>1, <2>2 DEF Check
<1>13. CASE Tool(c)
  <2>1. PICK out \in {"COMPLETED", "FAILED"} : EndWith(c, "save", out)
    BY <1>13 DEF Tool
  <2> QED BY <1>0, <1>13, <2>1 DEF Tool, EndWith, Client, Further, Place, Reserved
<1>14. CASE SaveResult(c)
  <2>1. PICK pc \in {"again", "complete"} : Goto(c, pc)
    BY <1>14 DEF SaveResult
  <2> QED BY <1>0, <1>14, <2>1 DEF SaveResult, Goto, Client, Further, Place, Reserved
<1>15. CASE SaveAgain(c)
  BY <1>0, <1>15 DEF SaveAgain, Goto, Client, Further, Place, Reserved
<1>16. CASE Snapshot(c)
  <2>1. PICK pc \in {"request", "read", "fail"} : Goto(c, pc)
    BY <1>16 DEF Snapshot
  <2> QED BY <1>0, <1>16, <2>1 DEF Snapshot, Goto, Client, Further, Place, Reserved
<1>17. CASE Request(c)
  BY <1>0, <1>17 DEF Request, Goto, Client, Further, Place, Reserved
<1> QED
  BY <1>1, <1>2, <1>3, <1>4, <1>5, <1>6, <1>7, <1>8, <1>9, <1>10, <1>11, <1>12, <1>13, <1>14,
     <1>15, <1>16, <1>17 DEF Step

\* Receipts that a step of a handler leaves in progress.
LEMMA StepReceipts ==
  ASSUME TypeOK, HandlerInv, NEW c \in Clients, Step(c),
         NEW a \in Actions, receipt'[a] = "IN_PROGRESS"
  PROVE  \/ receipt[a] = "IN_PROGRESS" /\ (Handles(c, a) => client'[c].pc \in Reserved)
         \/ Handles(c, a)'
<1>0. /\ client \in [Clients -> Client] /\ client[c] \in Client
      /\ receipt \in [Actions -> ReceiptStatus] /\ ClientInv(c)
  BY DEF TypeOK, HandlerInv
<1>1. CASE Reopen(c)
  <2>1. CASE receipt["retry"] = "FAILED"
    <3>1. /\ receipt' = [receipt EXCEPT !["retry"] = "IN_PROGRESS"]
          /\ client'[c].pc = "load" /\ client'[c].action = client[c].action
          /\ client[c].action = "retry"
      BY <1>0, <1>1, <2>1 DEF Reopen, Goto, Client, ClientInv
    <3> QED BY <1>0, <1>1, <3>1 DEF Reopen, Handles, Reserved
  <2>2. CASE receipt["retry"] # "FAILED"
    BY <1>1, <2>2 DEF Reopen, Handles, Reserved
  <2> QED BY <2>1, <2>2
<1>2. CASE Complete(c) \/ Fail(c)
  <2>1. PICK status \in {"COMPLETED", "FAILED"} : CloseReceipt(client[c].action, status)
    BY <1>2 DEF Complete, Fail
  <2>2. receipt'[a] = receipt[a] /\ client[c].action # a
    <3>1. client[c].action \in Actions
      BY <1>0, <1>2 DEF Complete, Fail, ClientInv
    <3> QED BY <1>0, <2>1, <3>1 DEF CloseReceipt
  <2> QED BY <2>2 DEF Handles
<1>3. CASE KeepGet(c) \/ KeepWrite(c)
  BY <1>3 DEF KeepGet, KeepWrite, Handles, Reserved
<1>4. CASE \/ Read(c) \/ Decide(c) \/ Admit(c) \/ Load(c) \/ Consume(c) \/ Clear(c)
           \/ Check(c) \/ Tool(c) \/ SaveResult(c) \/ SaveAgain(c) \/ Snapshot(c) \/ Request(c)
  <2>1. receipt' = receipt
    BY <1>4 DEF Read, Decide, Admit, Load, Consume, Clear, Check, Tool, SaveResult, SaveAgain,
       Snapshot, Request
  <2>2. client'[c].pc \in Reserved
    <3>1. CASE Read(c) \/ Decide(c)
      BY <1>0, <3>1 DEF Read, Decide, Client, Reserved
    <3>2. CASE Admit(c) \/ Load(c) \/ Consume(c) \/ Clear(c)
      <4>1. \E pc \in Reserved : Goto(c, pc)
        BY <3>2 DEF Admit, Load, Consume, Clear, Reserved
      <4> QED BY <1>0, <4>1 DEF Goto, Client
    <3>3. CASE SaveResult(c) \/ SaveAgain(c) \/ Snapshot(c) \/ Request(c)
      <4>1. \E pc \in Reserved : Goto(c, pc)
        BY <3>3 DEF SaveResult, SaveAgain, Snapshot, Request, Reserved
      <4> QED BY <1>0, <4>1 DEF Goto, Client
    <3>4. CASE Check(c)
      BY <1>0, <3>4 DEF Check, Goto, EndWith, Client, Reserved
    <3>5. CASE Tool(c)
      <4>1. PICK out \in {"COMPLETED", "FAILED"} : EndWith(c, "save", out)
        BY <3>5 DEF Tool
      <4> QED BY <1>0, <4>1 DEF EndWith, Client, Reserved
    <3> QED BY <1>4, <3>1, <3>2, <3>3, <3>4, <3>5
  <2> QED BY <2>1, <2>2
<1> QED BY <1>1, <1>2, <1>3, <1>4 DEF Step

LEMMA HandlerStaysStep ==
  ASSUME TypeOK, HandlerInv, ReceiptHasHandler, [Next]_vars
  PROVE  ReceiptHasHandler'
<1> SUFFICES ASSUME deaths' = 0, NEW a \in Actions, receipt'[a] = "IN_PROGRESS"
             PROVE  \E d \in Clients : Handles(d, a)'
  BY DEF ReceiptHasHandler
<1>0. client \in [Clients -> Client] /\ receipt \in [Actions -> ReceiptStatus] /\ deaths \in Nat
  BY DEF TypeOK
<1>1. ASSUME NEW c \in Clients, Step(c)
      PROVE  \E d \in Clients : Handles(d, a)'
  <2>1. CASE Handles(c, a)'
    BY <2>1
  <2>2. CASE receipt[a] = "IN_PROGRESS" /\ (Handles(c, a) => client'[c].pc \in Reserved)
    <3>1. deaths = 0
      BY <1>1, StepPlaces
    <3>2. PICK d \in Clients : Handles(d, a)
      BY <2>2, <3>1 DEF ReceiptHasHandler
    <3>3. CASE d = c
      BY <1>1, <2>2, <3>2, <3>3, StepPlaces DEF Handles
    <3>4. CASE d # c
      BY <1>1, <3>2, <3>4, StepPlaces DEF Handles
    <3> QED BY <3>3, <3>4
  <2> QED BY <1>1, <2>1, <2>2, StepReceipts
<1>2. CASE RunnerStep \/ Expire \/ UNCHANGED vars
  <2>1. UNCHANGED <<receipt, client, deaths>>
    BY <1>2 DEF RunnerStep, Plan, RunnerSave, RunnerSaveAgain, Expire, vars
  <2> QED BY <2>1 DEF ReceiptHasHandler, Handles
<1>3. CASE Die
  BY <1>0, <1>3 DEF Die
<1>4. ASSUME NEW c \in Clients, FindFailed(c) \/ \E b \in Actions : Reserve(c, b)
      PROVE  \E d \in Clients : Handles(d, a)'
  <2>1. client[c].pc = "idle" /\ deaths = 0 /\ \A d \in Clients \ {c} : client'[d] = client[d]
    BY <1>0, <1>4 DEF FindFailed, Reserve, Arrives
  <2>2. CASE receipt[a] = "IN_PROGRESS"
    <3>1. PICK d \in Clients : Handles(d, a)
      BY <2>1, <2>2 DEF ReceiptHasHandler
    <3>2. d # c
      BY <2>1, <3>1 DEF Handles, Reserved
    <3> QED BY <2>1, <3>1, <3>2 DEF Handles
  <2>3. CASE receipt[a] # "IN_PROGRESS"
    <3>1. PICK b \in Actions : Reserve(c, b)
      BY <1>4, <2>3 DEF FindFailed
    <3>2. a = b
      BY <1>0, <2>3, <3>1 DEF Reserve
    <3>3. client'[c].pc = FirstPc(b) /\ client'[c].action = b
      BY <1>0, <3>1 DEF Reserve, Client
    <3>4. FirstPc(b) \in Reserved
      BY DEF FirstPc, Reserved
    <3> QED BY <3>2, <3>3, <3>4 DEF Handles
  <2> QED BY <2>2, <2>3
<1> QED BY <1>1, <1>2, <1>3, <1>4 DEF Next

LEMMA ForwardStep ==
  ASSUME TypeOK, [Next]_vars, NEW c \in Clients
  PROVE  /\ Step(c) => Further(c)
         /\ client[c].pc # "idle" /\ deaths' = deaths =>
              client'[c] = client[c] \/ Further(c)
<1>0. client \in [Clients -> Client] /\ deaths \in Nat
  BY DEF TypeOK
<1>1. Step(c) => Further(c)
  BY StepPlaces
<1>2. ASSUME NEW d \in Clients, Step(d)
      PROVE  client'[c] = client[c] \/ Further(c)
  BY <1>2, StepPlaces
<1>3. ASSUME RunnerStep \/ Expire \/ UNCHANGED vars
      PROVE  client'[c] = client[c]
  BY <1>3 DEF RunnerStep, Plan, RunnerSave, RunnerSaveAgain, Expire, vars
<1>4. ASSUME NEW d \in Clients, FindFailed(d) \/ \E b \in Actions : Reserve(d, b)
      PROVE  client[c].pc = "idle" \/ client'[c] = client[c]
  BY <1>0, <1>4 DEF FindFailed, Reserve, Arrives
<1>5. client'[c] = client[c] \/ Further(c) \/ client[c].pc = "idle" \/ deaths' # deaths
  <2>1. CASE Die
    BY <1>0, <2>1 DEF Die
  <2> QED BY <1>2, <1>3, <1>4, <2>1 DEF Next
<1> QED BY <1>1, <1>5

\* While no thread has died every receipt in progress has a handler, and every step of
\* a handler brings it nearer to its return; so an action that was let in is answered
\* if its thread goes on: the safety half of ReceiptCloses, for any number of clients.
THEOREM ActionsAreAnswered == Spec => []ReceiptHasHandler /\ OnlyForward
<1>1. Init => ReceiptHasHandler
  BY DEF Init, ReceiptHasHandler, Absent
<1>2. TypeOK /\ ActionInv /\ ReceiptHasHandler /\ [Next]_vars => ReceiptHasHandler'
  BY HandlerStaysStep DEF ActionInv
<1>3. TypeOK /\ [Next]_vars =>
        [\A c \in Clients :
           /\ Step(c) => Further(c)
           /\ client[c].pc # "idle" /\ deaths' = deaths =>
                client'[c] = client[c] \/ Further(c)]_vars
  BY ForwardStep
<1> QED BY <1>1, <1>2, <1>3, TypeCorrect, PTL DEF Spec, OnlyForward

=============================================================================
