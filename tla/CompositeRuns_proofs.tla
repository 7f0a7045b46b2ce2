------------------------ MODULE CompositeRuns_proofs ------------------------
(***************************************************************************)
(* Proofs about CompositeRuns that hold for requests of any size and       *)
(* shape, any number of crashes and any number of exceptions.              *)
(***************************************************************************)
EXTENDS CompositeRuns, TLAPS

States == {"completed", "failed", "blocked", "pending"}

-----------------------------------------------------------------------------
(* Operators.                                                              *)

LEMMA ComponentStates ==
  ASSUME NEW child, child.foreign \in BOOLEAN
  PROVE  /\ ComponentState(child) \in States
         /\ ComponentState(child) = "completed" <=> ~child.foreign /\ child.status = "COMPLETED"
         /\ child.foreign => ComponentState(child) = "blocked"
BY DEF ComponentState, States

LEMMA ChildStates ==
  ASSUME NEW status
  PROVE  ChildState(status) = "completed" <=> status = "COMPLETED"
BY DEF ChildState

LEMMA AggregateIsVerdict ==
  ASSUME NEW request, NEW states \in [DOMAIN request -> States]
  PROVE  Aggregate(request, states) \in Verdict
BY DEF Aggregate, Verdict

\* A snapshot's words are those of its table.
LEMMA StatusWords ==
  ASSUME NEW verdict \in Verdict
  PROVE  /\ SnapshotStatus(verdict) \in TerminalStatus
         /\ ResponseStatus(verdict) \in JobWord
BY DEF SnapshotStatus, ResponseStatus, Verdict, TerminalStatus, JobWord

LEMMA BareType ==
  ASSUME NEW status \in {"PLANNING"} \cup TerminalStatus
  PROVE  Bare(status) \in Snapshot
BY DEF Bare, Snapshot

\* A request has components, and each depends on earlier ones.
LEMMA RequestShape ==
  ASSUME req \in Requests
  PROVE  /\ Len(req) \in Nat \ {0}
         /\ DOMAIN req = 1..Len(req)
         /\ \A c \in DOMAIN req : req[c].deps \subseteq 1..(c - 1)
<1>1. /\ req \in Seq([deps : SUBSET Nat, inputs : SUBSET Nat,
                     required : BOOLEAN, enabled : BOOLEAN])
      /\ req # <<>>
      /\ \A c \in DOMAIN req : req[c] \in Component(c)
  BY RequestsAssumption
<1> QED BY <1>1 DEF Component

-----------------------------------------------------------------------------
(* Types.                                                                  *)

Child == [status : ChildStatuses \cup {"NEEDS_CLARIFICATION"}, cause : Cause, foreign : BOOLEAN]

Part == [state : States, status : ChildStatuses \cup {"NEEDS_CLARIFICATION"}, cause : Cause,
         foreign : BOOLEAN]

\* The result of the components so far, as a function.
LEMMA PartsType ==
  ASSUME TypeOK
  PROVE  /\ DOMAIN Parts = 1..Len(children)
         /\ Parts \in [1..Len(children) -> Part]
<1>1. children \in Seq(Child)
  BY DEF TypeOK, Child
<1>2. \A c \in 1..Len(children) : children[c] \in Child
  BY <1>1
<1>3. DOMAIN children = 1..Len(children)
  BY <1>1
<1>4. \A c \in 1..Len(children) : Parts[c] \in Part
  BY <1>2, <1>3, ComponentStates DEF Parts, Child, Part
<1> QED BY <1>3, <1>4 DEF Parts

LEMMA AssembleType ==
  ASSUME TypeOK, Assemble
  PROVE  /\ DOMAIN Parts = DOMAIN req
         /\ out'.parts = Parts
         /\ out'.state = Aggregate(req, [c \in DOMAIN req |-> Parts[c].state])
         /\ out'.status = SnapshotStatus(out'.state)
         /\ out' \in Snapshot
<1> DEFINE V == Aggregate(req, [c \in DOMAIN req |-> Parts[c].state])
<1>1. Len(children) = Len(req) /\ DOMAIN req = 1..Len(children)
  BY RequestShape DEF TypeOK, Assemble, At
<1>2. Parts \in [DOMAIN req -> Part] /\ DOMAIN Parts = DOMAIN req
  BY <1>1, PartsType
<1>3. V \in Verdict
  <2>1. [c \in DOMAIN req |-> Parts[c].state] \in [DOMAIN req -> States]
    BY <1>2 DEF Part
  <2> QED BY <2>1, AggregateIsVerdict
<1>4. out' = [status |-> SnapshotStatus(V), state |-> V, parts |-> Parts]
  BY DEF Assemble
<1> HIDE DEF V
<1>5. out' \in Snapshot
  BY <1>2, <1>3, <1>4, StatusWords DEF Snapshot, States, Part
<1> QED BY <1>2, <1>4, <1>5 DEF V

LEMMA RecordType ==
  ASSUME TypeOK, At \in DOMAIN req, NEW status \in ChildStatuses \cup {"NEEDS_CLARIFICATION"},
         NEW cause \in Cause, NEW foreign \in BOOLEAN, Record(status, cause, foreign)
  PROVE  /\ children' \in Seq(Child)
         /\ Len(children') = Len(children) + 1
         /\ Len(children') <= Len(req)
BY RequestShape DEF TypeOK, At, Record, Child

LEMMA CountedType ==
  ASSUME TypeOK, NEW status, Counted(status)
  PROVE  ran' \in [DOMAIN req -> Nat]
<1>1. ran \in [DOMAIN req -> Nat]
  BY DEF TypeOK
<1>2. CASE status = "COMPLETED"
  <2>1. ran' = [ran EXCEPT ![At] = ran[At] + 1]
    BY <1>2 DEF Counted
  <2>2. At \in DOMAIN req => ran[At] + 1 \in Nat
    BY <1>1
  <2> QED BY <1>1, <2>1, <2>2
<1> QED BY <1>1, <1>2 DEF Counted

LEMMA ClosingType ==
  ASSUME TypeOK, pc = "finish"
  PROVE  Closing \in JobWord
BY DEF TypeOK, Closing, JobWord, TerminalStatus, ResponseStatus

\* A run of another Domain ends with one of the statuses of a run.
LEMMA ForeignToo ==
  /\ \A status \in ForeignStatuses : status \in ChildStatuses
  /\ TRUE \in BOOLEAN /\ FALSE \in BOOLEAN
BY StatusesAssumption

LEMMA TypeStep ==
  ASSUME TypeOK, [Next]_vars
  PROVE  TypeOK'
<1>0. /\ Bare("PLANNING") \in Snapshot /\ Bare("FAILED") \in Snapshot
      /\ Bare("TIMED_OUT") \in Snapshot
  BY BareType DEF TerminalStatus
<1>1. req' = req
  BY DEF Next, WorkerStep, ReapStep, Claim, Crash, Restart, Block, BlockInput, Call,
     Return, Assemble, Fence, Write, Finish, Raise, Handle, Lose, Expire, ReapGet, ReapSave, vars
<1>2. Snapshot' = Snapshot
  BY <1>1 DEF Snapshot
<1> USE <1>1, <1>2, RequestShape
<1>3. CASE Claim
  BY <1>3 DEF Claim, TypeOK, At, JobWord, ActiveStatus
<1>4. CASE Crash
  <2>1. crashes' \in Nat
    BY <1>4 DEF Crash, TypeOK
  <2>2. children' \in Seq(Child) /\ Len(children') <= Len(req)
    BY <1>4 DEF Crash, TypeOK
  <2>3. pc' = "idle" /\ up' = FALSE /\ failed' = FALSE /\ reap' = "idle"
    BY <1>4 DEF Crash
  <2>4. out' \in Snapshot /\ snap' \in Snapshot
    BY <1>0, <1>4 DEF Crash, TypeOK
  <2> QED BY <1>4, <2>1, <2>2, <2>3, <2>4 DEF Crash, TypeOK, Child
<1>5. CASE Restart
  BY <1>5 DEF Restart, TypeOK, At
<1>6. CASE Block
  <2>1. At \in DOMAIN req /\ Record("NEEDS_CLARIFICATION", "dependency", FALSE)
    BY <1>6 DEF Block, AtComponent
  <2>2. children' \in Seq(Child) /\ Len(children') <= Len(req)
    BY <2>1, RecordType DEF Cause
  <2> QED BY <1>6, <2>2 DEF Block, AtComponent, TypeOK, At, Child
<1>7. CASE BlockInput
  <2>1. At \in DOMAIN req /\ Record("NEEDS_CLARIFICATION", "input", FALSE)
    BY <1>7 DEF BlockInput, AtComponent
  <2>2. children' \in Seq(Child) /\ Len(children') <= Len(req)
    BY <2>1, RecordType DEF Cause
  <2> QED BY <1>7, <2>2 DEF BlockInput, AtComponent, TypeOK, At, Child
<1>8. CASE Call
  BY <1>8 DEF Call, AtComponent, TypeOK, At
<1>9. ASSUME NEW status \in ChildStatuses, NEW foreign \in BOOLEAN, Return(status, foreign)
      PROVE  TypeOK'
  <2>1. At \in DOMAIN req /\ Record(status, "run", foreign) /\ Counted(status)
    BY <1>9 DEF Return, TypeOK
  <2>2. children' \in Seq(Child) /\ Len(children') <= Len(req)
    BY <2>1, RecordType DEF Cause
  <2>3. ran' \in [DOMAIN req -> Nat]
    BY <2>1, CountedType
  <2> QED BY <1>9, <2>2, <2>3 DEF Return, TypeOK, At, Child
<1>10. CASE Assemble
  <2>1. out' \in Snapshot
    BY <1>10, AssembleType
  <2> QED BY <1>10, <2>1 DEF Assemble, TypeOK, At
<1>11. CASE Fence
  BY <1>11 DEF Fence, TypeOK, At
<1>12. CASE Write
  BY <1>12 DEF Write, TypeOK, At
<1>13. CASE Finish
  <2>1. Closing \in JobWord
    BY <1>13, ClosingType DEF Finish
  <2> QED BY <1>13, <2>1 DEF Finish, TypeOK, At
<1>14. CASE Raise
  <2>1. errors' \in Nat /\ ran' \in [DOMAIN req -> Nat]
    <3>1. ASSUME pc = "call", errors' = errors + 1,
                 NEW status \in {"COMPLETED", "FAILED"}, Counted(status)
          PROVE  errors' \in Nat /\ ran' \in [DOMAIN req -> Nat]
      BY <3>1, CountedType DEF TypeOK
    <3> QED BY <1>14, <3>1 DEF Raise, Raises, TypeOK
  <2> QED BY <1>14, <2>1 DEF Raise, TypeOK, At
<1>15. CASE Expire
  BY <1>15 DEF Expire, worker, TypeOK, At, JobWord, TerminalStatus
<1>16. CASE ReapGet
  BY <1>16 DEF ReapGet, worker, TypeOK, At
<1>17. CASE ReapSave
  BY <1>0, <1>17 DEF ReapSave, worker, TypeOK, At
<1>18. CASE UNCHANGED vars
  BY <1>18 DEF vars, TypeOK, At
<1>19. CASE Handle
  <2>1. out' \in Snapshot
    BY <1>0, <1>19 DEF Handle, TypeOK
  <2> QED BY <1>19, <2>1 DEF Handle, TypeOK, At
<1>20. CASE Lose
  <2>1. job' \in JobWord /\ errors' \in Nat
    BY <1>20 DEF Lose, TypeOK, JobWord, ActiveStatus
  <2> QED BY <1>20, <2>1 DEF Lose, TypeOK, At
<1> QED
  BY <1>3, <1>4, <1>5, <1>6, <1>7, <1>8, <1>9, <1>10, <1>11, <1>12, <1>13, <1>14,
     <1>15, <1>16, <1>17, <1>18, <1>19, <1>20, ForeignToo DEF Next, WorkerStep, ReapStep

-----------------------------------------------------------------------------
(* What a result says.                                                     *)

\* Sound and Faithful, as predicates of constants.
SoundIn(parts, request, count) ==
  \A c \in DOMAIN parts :
    /\ parts[c].state = ComponentState(parts[c])
    /\ parts[c].foreign => parts[c].cause = "run"
    /\ parts[c].status = "COMPLETED" =>
         count[c] > 0 /\ \A d \in request[c].deps : parts[d].status = "COMPLETED"
    /\ parts[c].cause = "dependency" <=>
         \E d \in request[c].deps : parts[d].status # "COMPLETED"
    /\ parts[c].cause = "input" => request[c].inputs # {}

FaithfulIn(snapshot, request, count) ==
  IF snapshot.parts = <<>> THEN snapshot.state = "none"
  ELSE /\ SoundIn(snapshot.parts, request, count)
       /\ snapshot.state = Aggregate(request, [c \in DOMAIN request |-> snapshot.parts[c].state])
       /\ snapshot.status = SnapshotStatus(snapshot.state)

LEMMA Unfold ==
  ASSUME NEW parts, NEW snapshot
  PROVE  /\ Sound(parts) <=> SoundIn(parts, req, ran)
         /\ Faithful(snapshot) <=> FaithfulIn(snapshot, req, ran)
BY DEF Sound, SoundIn, Faithful, FaithfulIn

\* What has run stays run.
LEMMA SoundLater ==
  ASSUME NEW parts, NEW request, NEW count, NEW later,
         SoundIn(parts, request, count),
         \A c \in DOMAIN parts : count[c] > 0 => later[c] > 0
  PROVE  SoundIn(parts, request, later)
BY DEF SoundIn

LEMMA FaithfulLater ==
  ASSUME NEW snapshot, NEW request, NEW count, NEW later,
         FaithfulIn(snapshot, request, count),
         snapshot.parts # <<>> => \A c \in DOMAIN snapshot.parts : count[c] > 0 => later[c] > 0
  PROVE  FaithfulIn(snapshot, request, later)
BY SoundLater DEF FaithfulIn

LEMMA BareFaithful ==
  ASSUME NEW status, NEW request, NEW count
  PROVE  FaithfulIn(Bare(status), request, count)
BY DEF Bare, FaithfulIn

\* The parts of a snapshot belong to the components of the request.
LEMMA SnapshotParts ==
  ASSUME NEW snapshot \in Snapshot, snapshot.parts # <<>>
  PROVE  DOMAIN snapshot.parts = DOMAIN req
BY DEF Snapshot

\* Sound with one component more.
LEMMA SoundMore ==
  ASSUME NEW n \in Nat, NEW parts, NEW more, NEW request, NEW count,
         DOMAIN parts = 1..n, DOMAIN more = 1..(n + 1),
         \A c \in 1..n : more[c] = parts[c],
         \A c \in 1..(n + 1) : request[c].deps \subseteq 1..(c - 1),
         SoundIn(parts, request, count),
         more[n + 1].state = ComponentState(more[n + 1]),
         more[n + 1].foreign => more[n + 1].cause = "run",
         more[n + 1].status = "COMPLETED" =>
           count[n + 1] > 0 /\ \A d \in request[n + 1].deps : parts[d].status = "COMPLETED",
         more[n + 1].cause = "dependency" <=>
           \E d \in request[n + 1].deps : parts[d].status # "COMPLETED",
         more[n + 1].cause = "input" => request[n + 1].inputs # {}
  PROVE  SoundIn(more, request, count)
<1> SUFFICES ASSUME NEW c \in 1..(n + 1)
             PROVE  /\ more[c].state = ComponentState(more[c])
                    /\ more[c].foreign => more[c].cause = "run"
                    /\ more[c].status = "COMPLETED" =>
                         count[c] > 0 /\ \A d \in request[c].deps : more[d].status = "COMPLETED"
                    /\ more[c].cause = "dependency" <=>
                         \E d \in request[c].deps : more[d].status # "COMPLETED"
                    /\ more[c].cause = "input" => request[c].inputs # {}
  BY DEF SoundIn
<1>1. \A d \in request[c].deps : d \in 1..n /\ more[d] = parts[d]
  OBVIOUS
<1>2. CASE c \in 1..n
  <2>1. more[c] = parts[c] /\ c \in DOMAIN parts
    BY <1>2
  <2> QED BY <1>1, <2>1 DEF SoundIn
<1>3. CASE c = n + 1
  BY <1>1, <1>3
<1> QED BY <1>2, <1>3

\* What Record appends is the next part.
LEMMA RecordParts ==
  ASSUME TypeOK, At \in DOMAIN req, NEW status \in ChildStatuses \cup {"NEEDS_CLARIFICATION"},
         NEW cause \in Cause, NEW foreign \in BOOLEAN, Record(status, cause, foreign)
  PROVE  /\ DOMAIN Parts' = 1..(Len(children) + 1)
         /\ \A c \in 1..Len(children) : Parts'[c] = Parts[c]
         /\ Parts'[At].status = status
         /\ Parts'[At].cause = cause
         /\ Parts'[At].foreign = foreign
         /\ Parts'[At].state = ComponentState(Parts'[At])
<1> DEFINE child == [status |-> status, cause |-> cause, foreign |-> foreign]
<1>1. children \in Seq(Child) /\ child \in Child
  BY DEF TypeOK, Child
<1>2. children' = Append(children, child)
  BY DEF Record
<1>3. /\ DOMAIN children' = 1..(Len(children) + 1)
      /\ DOMAIN children = 1..Len(children)
      /\ \A c \in 1..Len(children) : children'[c] = children[c]
      /\ children'[Len(children) + 1] = child
  BY <1>1, <1>2
<1>4. Len(children) \in Nat
  BY <1>1
<1> HIDE DEF child
<1>5. /\ DOMAIN Parts' = 1..(Len(children) + 1)
      /\ \A c \in 1..Len(children) : Parts'[c] = Parts[c]
      /\ Parts'[At] = [state |-> ComponentState(child), status |-> child.status,
                       cause |-> child.cause, foreign |-> child.foreign]
  BY <1>3, <1>4 DEF Parts, At
<1>6. /\ Parts'[At].status = child.status /\ Parts'[At].foreign = child.foreign
      /\ Parts'[At].state = ComponentState(child)
  BY <1>5
<1>7. ComponentState(Parts'[At]) = ComponentState(child)
  BY <1>6 DEF ComponentState
<1> QED BY <1>5, <1>6, <1>7 DEF child

LEMMA SoundRecord ==
  ASSUME TypeOK, Sound(Parts), At \in DOMAIN req,
         NEW status \in ChildStatuses \cup {"NEEDS_CLARIFICATION"},
         NEW cause \in Cause, NEW foreign \in BOOLEAN, Record(status, cause, foreign),
         req' = req,
         \A c \in DOMAIN Parts : ran[c] > 0 => ran'[c] > 0,
         foreign => cause = "run",
         status = "COMPLETED" =>
           ran'[At] > 0 /\ \A d \in req[At].deps : Parts[d].status = "COMPLETED",
         cause = "dependency" <=> \E d \in req[At].deps : Parts[d].status # "COMPLETED",
         cause = "input" => req[At].inputs # {}
  PROVE  Sound(Parts)'
<1>1. Len(children) \in Nat /\ At = Len(children) + 1
  BY DEF TypeOK, At
<1>2. DOMAIN Parts = 1..Len(children)
  BY PartsType
<1>3. /\ DOMAIN Parts' = 1..(Len(children) + 1)
      /\ \A c \in 1..Len(children) : Parts'[c] = Parts[c]
      /\ Parts'[At].status = status /\ Parts'[At].cause = cause /\ Parts'[At].foreign = foreign
      /\ Parts'[At].state = ComponentState(Parts'[At])
  BY RecordParts
<1>4. \A c \in 1..(Len(children) + 1) : req[c].deps \subseteq 1..(c - 1)
  BY <1>1, RequestShape DEF TypeOK
<1>5. SoundIn(Parts, req, ran')
  BY SoundLater, Unfold
<1> DEFINE n == Len(children)
           more == Parts'
<1>7. /\ more[n + 1].cause = cause /\ more[n + 1].status = status
      /\ more[n + 1].foreign = foreign /\ more[n + 1].state = ComponentState(more[n + 1])
  BY <1>1, <1>3
<1>8. more[n + 1].status = "COMPLETED" =>
        ran'[n + 1] > 0 /\ \A d \in req[n + 1].deps : Parts[d].status = "COMPLETED"
  BY <1>1, <1>7
<1>9. /\ more[n + 1].cause = "dependency" <=> \E d \in req[n + 1].deps : Parts[d].status # "COMPLETED"
      /\ more[n + 1].cause = "input" => req[n + 1].inputs # {}
      /\ more[n + 1].foreign => more[n + 1].cause = "run"
      /\ more[n + 1].state = ComponentState(more[n + 1])
  BY <1>1, <1>7
<1>10. /\ n \in Nat /\ DOMAIN Parts = 1..n /\ DOMAIN more = 1..(n + 1)
       /\ \A c \in 1..n : more[c] = Parts[c]
       /\ \A c \in 1..(n + 1) : req[c].deps \subseteq 1..(c - 1)
  BY <1>1, <1>2, <1>3, <1>4
<1> HIDE DEF n, more
<1>11. SoundIn(more, req, ran')
  BY <1>5, <1>8, <1>9, <1>10, SoundMore
<1> QED BY <1>11 DEF more, Sound, SoundIn

\* The gate reads receipts, the result shows components: both agree on which
\* runs have completed.
LEMMA GateSeesParts ==
  ASSUME TypeOK, At \in DOMAIN req
  PROVE  BlockedBy(At) = {} <=> \A d \in req[At].deps : Parts[d].status = "COMPLETED"
<1>1. children \in Seq(Child) /\ At = Len(children) + 1
  BY DEF TypeOK, Child, At
<1>2. \A d \in req[At].deps : d \in DOMAIN children
  BY <1>1, RequestShape DEF TypeOK
<1>3. \A d \in DOMAIN children :
        Parts[d].status = "COMPLETED" <=> ChildState(children[d].status) = "completed"
  BY ChildStates DEF Parts
<1> QED BY <1>2, <1>3 DEF BlockedBy

LEMMA RanGrows ==
  ASSUME TypeOK, [Next]_vars
  PROVE  req' = req /\ \A c \in DOMAIN req : ran[c] > 0 => ran'[c] > 0
<1>1. req' = req
  BY DEF Next, WorkerStep, ReapStep, Claim, Crash, Restart, Block, BlockInput, Call,
     Return, Assemble, Fence, Write, Finish, Raise, Handle, Lose, Expire, ReapGet, ReapSave, vars
<1>2. ASSUME NEW status, Counted(status)
      PROVE  \A c \in DOMAIN req : ran[c] > 0 => ran'[c] > 0
  <2>1. ran \in [DOMAIN req -> Nat]
    BY DEF TypeOK
  <2>2. CASE status = "COMPLETED"
    <3>1. ran' = [ran EXCEPT ![At] = ran[At] + 1]
      BY <1>2, <2>2 DEF Counted
    <3> QED BY <2>1, <3>1
  <2> QED BY <1>2, <2>2 DEF Counted
<1>3. ran' = ran \/ \E status : Counted(status)
  BY DEF Next, WorkerStep, ReapStep, Claim, Crash, Restart, Block, BlockInput, Call,
     Return, Assemble, Fence, Write, Finish, Raise, Raises, Handle, Lose, Expire, ReapGet, ReapSave, vars
<1> QED BY <1>1, <1>2, <1>3

\* The components so far stay sound: one is added, all are kept or all are
\* forgotten.
LEMMA PartsStep ==
  ASSUME TypeOK, ResultInv, [Next]_vars
  PROVE  Sound(Parts)'
<1>1. req' = req /\ \A c \in DOMAIN req : ran[c] > 0 => ran'[c] > 0
  BY RanGrows
<1>2. DOMAIN Parts \subseteq DOMAIN req
  BY PartsType, RequestShape DEF TypeOK
<1>3. \A c \in DOMAIN Parts : ran[c] > 0 => ran'[c] > 0
  BY <1>1, <1>2
<1>4. Sound(Parts)
  BY DEF ResultInv
<1>5. CASE children' = children
  <2>1. Parts' = Parts
    BY <1>5 DEF Parts
  <2>2. SoundIn(Parts, req, ran')
    BY <1>3, <1>4, Unfold, SoundLater
  <2> QED BY <1>1, <2>1, <2>2 DEF Sound, SoundIn
<1>6. CASE children' = <<>>
  <2>1. DOMAIN Parts' = {}
    BY <1>6 DEF Parts
  <2> QED BY <2>1 DEF Sound
<1>7. CASE Block
  <2>1. /\ At \in DOMAIN req /\ Record("NEEDS_CLARIFICATION", "dependency", FALSE)
        /\ ~ \A d \in req[At].deps : Parts[d].status = "COMPLETED"
    BY <1>7, GateSeesParts DEF Block, AtComponent
  <2> QED BY <1>1, <1>3, <1>4, <2>1, SoundRecord DEF Cause
<1>8. CASE BlockInput
  <2>1. /\ At \in DOMAIN req /\ Record("NEEDS_CLARIFICATION", "input", FALSE)
        /\ \A d \in req[At].deps : Parts[d].status = "COMPLETED"
        /\ req[At].inputs # {}
    BY <1>8, GateSeesParts DEF BlockInput, AtComponent
  <2> QED BY <1>1, <1>3, <1>4, <2>1, SoundRecord DEF Cause
<1>9. ASSUME NEW status \in ChildStatuses, NEW foreign \in BOOLEAN, Return(status, foreign)
      PROVE  Sound(Parts)'
  <2>1. /\ At \in DOMAIN req /\ Record(status, "run", foreign) /\ Counted(status)
        /\ \A d \in req[At].deps : Parts[d].status = "COMPLETED"
    BY <1>9 DEF Return, TypeOK, ResultInv
  <2>2. status = "COMPLETED" => ran'[At] > 0
    <3>1. ran \in [DOMAIN req -> Nat]
      BY DEF TypeOK
    <3> SUFFICES ASSUME status = "COMPLETED" PROVE ran'[At] > 0
      OBVIOUS
    <3>2. ran' = [ran EXCEPT ![At] = ran[At] + 1]
      BY <2>1 DEF Counted
    <3> QED BY <2>1, <3>1, <3>2
  <2> QED BY <1>1, <1>3, <1>4, <2>1, <2>2, SoundRecord DEF Cause
<1>10. \/ children' = children \/ children' = <<>>
       \/ Block \/ BlockInput \/ \E status \in ChildStatuses, foreign \in BOOLEAN : Return(status, foreign)
  BY ForeignToo DEF Next, WorkerStep, ReapStep, Claim, Crash, Restart, Call, Assemble, Fence,
     Write, Finish, Raise, Handle, Lose, Expire, ReapGet, ReapSave, vars, worker
<1> QED BY <1>5, <1>6, <1>7, <1>8, <1>9, <1>10

\* A complete result is faithful.
LEMMA AssembleFaithful ==
  ASSUME TypeOK, ResultInv, Assemble
  PROVE  FaithfulIn(out', req, ran) /\ out'.parts # <<>>
<1>1. SoundIn(Parts, req, ran)
  BY Unfold DEF ResultInv
<1>2. DOMAIN Parts # {}
  BY AssembleType, RequestShape DEF TypeOK
<1>3. Parts # <<>>
  BY <1>2
<1> QED BY <1>1, <1>3, AssembleType DEF FaithfulIn

LEMMA ResultStep ==
  ASSUME TypeOK, TypeOK', ResultInv, [Next]_vars
  PROVE  ResultInv'
<1>1. req' = req /\ \A c \in DOMAIN req : ran[c] > 0 => ran'[c] > 0
  BY RanGrows
<1>2. /\ FaithfulIn(snap, req, ran)
      /\ FaithfulIn(out, req, ran)
  BY Unfold DEF ResultInv
<1>3. /\ FaithfulIn(snap, req, ran')
      /\ FaithfulIn(out, req, ran')
  BY <1>1, <1>2, SnapshotParts, FaithfulLater DEF TypeOK
<1>4. FaithfulIn(snap', req, ran')
  <2>1. snap' = snap \/ snap' = out \/ snap' = Bare("TIMED_OUT")
    BY DEF Next, WorkerStep, ReapStep, Claim, Crash, Restart, Block, BlockInput, Call,
       Return, Assemble, Fence, Write, Finish, Raise, Handle, Lose, Expire, ReapGet, ReapSave, vars
  <2> QED BY <1>3, <2>1, BareFaithful
<1>5. FaithfulIn(out', req, ran')
  <2>1. CASE Assemble
    BY <1>3, <2>1, AssembleFaithful DEF Assemble
  <2>2. CASE Handle
    BY <1>3, <2>2, BareFaithful DEF Handle
  <2>3. \/ out' = out \/ out' = Bare("PLANNING") \/ Assemble \/ Handle
    BY DEF Next, WorkerStep, ReapStep, Claim, Crash, Restart, Block, BlockInput, Call,
       Return, Fence, Write, Finish, Raise, Lose, Expire, ReapGet, ReapSave, vars, worker
  <2> QED BY <1>3, <2>1, <2>2, <2>3, BareFaithful
<1>6. Sound(Parts)'
  BY PartsStep
<1>7. ASSUME pc' = "call"
      PROVE  \A d \in req'[At'].deps : Parts'[d].status = "COMPLETED"
  <2>1. Call \/ (pc = "call" /\ children' = children)
    BY <1>7 DEF Next, WorkerStep, ReapStep, Claim, Crash, Restart, Block, BlockInput,
       Return, Assemble, Fence, Write, Finish, Raise, Handle, Lose, Expire, ReapGet, ReapSave, vars, worker,
       AtComponent
  <2>2. children' = children
    BY <2>1 DEF Call
  <2>3. At' = At /\ Parts' = Parts
    BY <2>2 DEF At, Parts
  <2>4. \A d \in req[At].deps : Parts[d].status = "COMPLETED"
    <3>1. CASE Call
      BY <3>1, GateSeesParts DEF Call, AtComponent
    <3> QED BY <2>1, <3>1 DEF ResultInv
  <2> QED BY <1>1, <2>3, <2>4
<1> QED BY <1>1, <1>4, <1>5, <1>6, <1>7 DEF ResultInv, Faithful, FaithfulIn, Sound, SoundIn

-----------------------------------------------------------------------------
(* The rows.                                                               *)

LEMMA RowStep ==
  ASSUME TypeOK, TypeOK', ResultInv, RowInv, [Next]_vars
  PROVE  RowInv'
<1> USE DEF RowInv
<1>1. CASE Claim
  BY <1>1 DEF Claim, ActiveStatus
<1>2. CASE Crash
  BY <1>2 DEF Crash
<1>3. CASE Restart
  BY <1>3 DEF Restart
<1>4. CASE Block \/ BlockInput \/ Call
  BY <1>4 DEF Block, BlockInput, Call, AtComponent
<1>5. ASSUME NEW status \in ChildStatuses, NEW foreign \in BOOLEAN, Return(status, foreign)
      PROVE  RowInv'
  BY <1>5 DEF Return
<1>6. CASE Assemble
  BY <1>6, AssembleFaithful DEF Assemble
<1>7. CASE Fence
  BY <1>7 DEF Fence, Fenced, ActiveStatus, TerminalStatus
<1>8. CASE Write
  BY <1>8 DEF Write
<1>9. CASE Finish
  BY <1>9 DEF Finish, ActiveStatus
<1>10. CASE Raise
  BY <1>10 DEF Raise, Raises, AtComponent
<1>11. CASE Expire
  BY <1>11 DEF Expire, worker, ActiveStatus
<1>12. CASE ReapGet
  BY <1>12 DEF ReapGet, worker
<1>13. CASE ReapSave
  BY <1>13 DEF ReapSave, worker, ActiveStatus
<1>14. CASE UNCHANGED vars
  BY <1>14 DEF vars
<1>15. CASE Handle
  BY <1>15 DEF Handle
<1>16. CASE Lose
  BY <1>16 DEF Lose, Unguarded, ActiveStatus
<1> QED
  BY <1>1, <1>2, <1>3, <1>4, <1>5, <1>6, <1>7, <1>8, <1>9, <1>10, <1>11, <1>12, <1>13,
     <1>14, <1>15, <1>16, ForeignToo DEF Next, WorkerStep, ReapStep

\* A worker that closes an active job has stored what it closes it with, and
\* once a job is closed with an answer nobody writes the row.
LEMMA ClosedStep ==
  ASSUME TypeOK, ResultInv, RowInv, ClosedAgrees, [Next]_vars
  PROVE  ClosedAgrees'
<1> DEFINE Closed == {"COMPLETED", "PARTIAL", "BLOCKED"}
<1> SUFFICES ASSUME job' \in Closed
             PROVE  /\ ResponseStatus(snap'.state) = job'
                    /\ SnapshotStatus(snap'.state) = snap'.status
  BY DEF ClosedAgrees
<1>1. CASE Finish /\ job \in ActiveStatus
  <2>1. ~failed /\ snap' = snap /\ job' = ResponseStatus(out.state)
    BY <1>1 DEF Finish, Closing
  <2>2. snap = out /\ out.parts # <<>>
    BY <1>1, <2>1 DEF RowInv, Finish
  <2>3. out.status = SnapshotStatus(out.state)
    BY <2>2 DEF ResultInv, Faithful
  <2> QED BY <2>1, <2>2, <2>3
<1>2. CASE job' = job
  <2>1. snap' = snap
    BY <1>2 DEF Next, WorkerStep, ReapStep, Claim, Crash, Restart, Block, BlockInput, Call,
       Return, Assemble, Fence, Write, Finish, Raise, Handle, Lose, Expire, ReapGet, ReapSave, vars,
       RowInv, ActiveStatus
  <2> QED BY <1>2, <2>1 DEF ClosedAgrees
<1>3. job' = job \/ (Finish /\ job \in ActiveStatus)
  BY DEF Next, WorkerStep, ReapStep, Claim, Crash, Restart, Block, BlockInput, Call,
     Return, Assemble, Fence, Write, Finish, Raise, Handle, Lose, Expire, ReapGet, ReapSave, vars
<1> QED BY <1>1, <1>2, <1>3

\* Rows, worker and reaper hold values the code can store, every result says
\* what the components did, and a worker closes its job with what it has
\* stored.
THEOREM CompositeTypes == Spec => [](TypeOK /\ CompositeInv)
<1>1. Init => TypeOK /\ CompositeInv
  <2> SUFFICES ASSUME Init PROVE TypeOK /\ CompositeInv
    OBVIOUS
  <2>1. Bare("PLANNING") \in Snapshot
    BY BareType
  <2>2. TypeOK
    <3>1. children = <<>> /\ children \in Seq(Child) /\ Len(children) <= Len(req)
      BY RequestShape DEF Init
    <3>2. ran \in [DOMAIN req -> Nat]
      BY DEF Init
    <3>3. snap \in Snapshot /\ out \in Snapshot
      BY <2>1 DEF Init
    <3> QED BY <3>1, <3>2, <3>3 DEF Init, TypeOK, JobWord, ActiveStatus, Child
  <2>3. Faithful(snap) /\ Faithful(out)
    BY BareFaithful, Unfold DEF Init
  <2>4. Sound(Parts)
    BY DEF Init, Sound, Parts
  <2> QED BY <2>2, <2>3, <2>4 DEF Init, CompositeInv, ResultInv, RowInv, ClosedAgrees
<1>2. TypeOK /\ CompositeInv /\ [Next]_vars => (TypeOK /\ CompositeInv)'
  BY TypeStep, ResultStep, RowStep, ClosedStep DEF CompositeInv
<1> QED BY <1>1, <1>2, PTL DEF Spec

\* Every variable keeps its type (TypeOK).
THEOREM CompositeTypeCorrect == Spec => []TypeOK
<1> QED BY CompositeTypes, PTL

\* The verdict completed or partial: required components have completed, and
\* the verdict is completed exactly when all have.
LEMMA VerdictMeans ==
  ASSUME NEW request, NEW states, Aggregate(request, states) \in {"completed", "partial"}
  PROVE  /\ \A c \in DOMAIN request : request[c].required => states[c] = "completed"
         /\ Aggregate(request, states) = "completed" <=>
              \A c \in DOMAIN request : states[c] = "completed"
BY DEF Aggregate

\* A client that polls a completed or partial composite gets what it asked for,
\* after any number of crashes, exceptions and timeouts: required components are
\* shown as completed, and every completed run had dependencies whose runs had
\* completed, those included that the result shows as blocked for their Domain.
THEOREM CompletedResultIsReal == Spec => []CompletedIsReal
<1>1. TypeOK /\ CompositeInv => CompletedIsReal
  <2> SUFFICES ASSUME TypeOK, CompositeInv, snap.state \in {"completed", "partial"}
               PROVE  /\ \A c \in DOMAIN req : req[c].required => Settles(c)
                      /\ \A c \in DOMAIN req : Settles(c) => Done(c)
                      /\ \A c \in DOMAIN req : Done(c) =>
                           ran[c] > 0 /\ \A d \in req[c].deps : Done(d)
                      /\ snap.state = "completed" <=> \A c \in DOMAIN req : Settles(c)
    BY DEF CompletedIsReal
  <2> DEFINE states == [c \in DOMAIN req |-> snap.parts[c].state]
  <2>1. snap.parts # <<>> /\ Sound(snap.parts) /\ snap.state = Aggregate(req, states)
    BY DEF CompositeInv, ResultInv, Faithful
  <2>2. DOMAIN snap.parts = DOMAIN req
    BY <2>1, SnapshotParts DEF TypeOK
  <2>3. \A c \in DOMAIN req : Done(c) => ran[c] > 0 /\ \A d \in req[c].deps : Done(d)
    BY <2>1, <2>2 DEF Sound, Done
  <2>4. \A c \in DOMAIN req : states[c] = "completed" <=> Settles(c)
    BY DEF Settles
  <2>5. \A c \in DOMAIN req : Settles(c) => Done(c)
    <3>1. \A c \in DOMAIN req : snap.parts[c].foreign \in BOOLEAN
      BY <2>1, <2>2 DEF TypeOK, Snapshot
    <3>2. \A c \in DOMAIN req : snap.parts[c].state = ComponentState(snap.parts[c])
      BY <2>1, <2>2 DEF Sound
    <3> QED BY <3>1, <3>2, ComponentStates DEF Settles, Done
  <2> HIDE DEF states
  <2>6. Aggregate(req, states) \in {"completed", "partial"}
    BY <2>1
  <2>7. \A c \in DOMAIN req : req[c].required => states[c] = "completed"
    BY <2>6, VerdictMeans
  <2>8. Aggregate(req, states) = "completed" <=> \A c \in DOMAIN req : states[c] = "completed"
    BY <2>6, VerdictMeans
  <2> QED BY <2>1, <2>3, <2>4, <2>5, <2>7, <2>8
<1> QED BY <1>1, CompositeTypes, PTL

\* In a published result a component was kept from running for a dependency exactly
\* when the run of one has not completed; where gate and result differ, the
\* component has completed under the name of another Domain.
THEOREM FailuresAreContained == Spec => []FailureIsContained
<1>1. TypeOK /\ CompositeInv => FailureIsContained
  <2> SUFFICES ASSUME TypeOK, CompositeInv, snap.parts # <<>>, NEW c \in DOMAIN req
               PROVE  /\ snap.parts[c].cause = "dependency" <=> \E d \in req[c].deps : ~Done(d)
                      /\ snap.parts[c].cause = "input" => req[c].inputs # {}
                      /\ Settles(c) # Done(c) =>
                           /\ snap.parts[c].foreign /\ snap.parts[c].cause = "run"
                           /\ snap.parts[c].state = "blocked"
    BY DEF FailureIsContained
  <2>1. DOMAIN snap.parts = DOMAIN req /\ snap.parts[c].foreign \in BOOLEAN
    BY SnapshotParts DEF TypeOK, Snapshot
  <2>2. Sound(snap.parts)
    BY DEF CompositeInv, ResultInv, Faithful
  <2>3. /\ snap.parts[c].cause = "dependency" <=> \E d \in req[c].deps : ~Done(d)
        /\ snap.parts[c].cause = "input" => req[c].inputs # {}
    BY <2>1, <2>2 DEF Sound, Done
  <2>4. snap.parts[c].state = ComponentState(snap.parts[c])
        /\ (snap.parts[c].foreign => snap.parts[c].cause = "run")
    BY <2>1, <2>2 DEF Sound
  <2>5. Settles(c) <=> ~snap.parts[c].foreign /\ Done(c)
    BY <2>1, <2>4, ComponentStates DEF Settles, Done
  <2>6. snap.parts[c].foreign => snap.parts[c].state = "blocked"
    BY <2>4 DEF ComponentState
  <2>7. Settles(c) # Done(c) => snap.parts[c].foreign
    BY <2>1, <2>5 DEF Settles, Done
  <2> QED BY <2>3, <2>4, <2>6, <2>7
<1> QED BY <1>1, CompositeTypes, PTL

\* The job row that a worker has closed and the result a client polls agree,
\* although two transactions write them.
THEOREM ClosedJobAgrees == Spec => []ClosedAgrees
<1>1. CompositeInv => ClosedAgrees
  BY DEF CompositeInv
<1> QED BY <1>1, CompositeTypes, PTL

-----------------------------------------------------------------------------
(* The coordinator implements the evaluation of the graph.                 *)

Shown == [c \in DOMAIN req |-> StateOf(c)]

ShownAnswer == IF Evaluating /\ pc \in {"fence", "write", "finish"} THEN out.state ELSE "none"

\* The verdict of the code on the states of the result is the one of the graph.
LEMMA SameVerdict ==
  ASSUME NEW request, NEW states, NEW shown,
         \A c \in DOMAIN request : shown[c] = Evaluation!Counts(states[c])
  PROVE  Aggregate(request, shown) = Evaluation!Verdict(request, states)
<1> DEFINE marked == {c \in DOMAIN request : request[c].required}
           deciding == IF marked = {} THEN DOMAIN request ELSE marked
           among == {shown[c] : c \in deciding}
           rest == \A c \in DOMAIN request \ marked : shown[c] = "completed"
           all == \A c \in DOMAIN request : shown[c] = "completed"
<1>1. Aggregate(request, shown) =
        IF among \subseteq {"completed"} THEN IF rest THEN "completed" ELSE "partial"
        ELSE IF "failed" \in among THEN "failed"
        ELSE IF "blocked" \in among THEN "blocked" ELSE "pending"
  BY DEF Aggregate
<1>2. Evaluation!Deciding(request) = deciding
  BY DEF Evaluation!Deciding
<1>3. among = {Evaluation!Counts(states[c]) : c \in deciding}
  OBVIOUS
<1>4. all <=> \A c \in DOMAIN request : states[c] = "completed"
  BY DEF Evaluation!Counts
<1>5. all \in BOOLEAN /\ rest \in BOOLEAN
  OBVIOUS
<1>6. all <=> among \subseteq {"completed"} /\ rest
  OBVIOUS
<1>7. Evaluation!Verdict(request, states) =
        (CASE all -> "completed"
           [] ~all /\ among \subseteq {"completed"} -> "partial"
           [] "failed" \in among -> "failed"
           [] "failed" \notin among /\ "blocked" \in among -> "blocked"
           [] OTHER -> "pending")
  <2>1. \A c \in DOMAIN request : states[c] = "completed" <=> shown[c] = "completed"
    BY DEF Evaluation!Counts
  <2> DEFINE every == \A c \in DOMAIN request : states[c] = "completed"
             counted == {Evaluation!Counts(states[c]) : c \in deciding}
  <2>2. Evaluation!Verdict(request, states) =
          (CASE every -> "completed"
             [] ~every /\ counted \subseteq {"completed"} -> "partial"
             [] "failed" \in counted -> "failed"
             [] "failed" \notin counted /\ "blocked" \in counted -> "blocked"
             [] OTHER -> "pending")
    BY <1>2 DEF Evaluation!Verdict
  <2>3. counted = among /\ (every <=> all) /\ every \in BOOLEAN
    BY <1>3, <1>4
  <2> HIDE DEF every, counted, among, all
  <2>4. CASE all
    BY <1>5, <2>2, <2>3, <2>4
  <2>5. CASE ~all
    BY <1>5, <2>2, <2>3, <2>5
  <2> QED BY <1>5, <2>4, <2>5
<1> HIDE DEF among, rest, all
<1>8. CASE all
  BY <1>1, <1>5, <1>6, <1>7, <1>8
<1>9. CASE ~all
  BY <1>1, <1>5, <1>6, <1>7, <1>9
<1> QED BY <1>5, <1>8, <1>9

\* What the graph calls a component that the result shows.
LEMMA Grades ==
  ASSUME NEW part \in Part, part.state = ComponentState(part)
  PROVE  /\ Graded(part) \in Evaluation!Settled
         /\ Graded(part) \in Evaluation!Passed <=> part.status = "COMPLETED"
         /\ Evaluation!Counts(Graded(part)) = part.state
<1>1. part.foreign \in BOOLEAN /\ part.state \in States
  BY DEF Part
<1>2. /\ part.state = "completed" <=> ~part.foreign /\ part.status = "COMPLETED"
      /\ part.foreign => part.state = "blocked"
  BY <1>1, ComponentStates
<1>3. CASE part.foreign /\ part.status = "COMPLETED"
  BY <1>2, <1>3 DEF Graded, Evaluation!Settled, Evaluation!Passed, Evaluation!Counts
<1>4. CASE ~(part.foreign /\ part.status = "COMPLETED")
  <2>1. Graded(part) = part.state
    BY <1>4 DEF Graded
  <2> QED
    BY <1>1, <1>2, <1>4, <2>1
    DEF States, Evaluation!Settled, Evaluation!Passed, Evaluation!Counts
<1> QED BY <1>1, <1>3, <1>4

\* The components so far have the state of their status and Domain.
LEMMA PartGrades ==
  ASSUME TypeOK, NEW c \in DOMAIN children
  PROVE  Parts[c] \in Part /\ Parts[c].state = ComponentState(Parts[c])
<1>1. Parts[c] \in Part
  <2>1. c \in 1..Len(children)
    BY DEF TypeOK
  <2> QED BY <2>1, PartsType
<1>2. /\ Parts[c].state = ComponentState(children[c])
      /\ Parts[c].status = children[c].status /\ Parts[c].foreign = children[c].foreign
  BY DEF Parts
<1> QED BY <1>1, <1>2 DEF ComponentState

\* Where no execution is in progress nothing is shown.
LEMMA NothingShown ==
  ASSUME ~Evaluating
  PROVE  Shown = Evaluation!Nothing /\ ShownAnswer = "none"
BY DEF Shown, ShownAnswer, StateOf, Evaluation!Nothing

LEMMA StopEvaluating ==
  ASSUME req' = req, ~Evaluating'
  PROVE  Evaluation!GiveUp
<1>1. Shown' = [c \in DOMAIN req |-> "waiting"] /\ ShownAnswer' = "none"
  BY DEF Shown, ShownAnswer, StateOf
<1> QED BY <1>1 DEF Shown, ShownAnswer, Evaluation!GiveUp, Evaluation!Nothing

\* A child in the list shows the grade of its part.
ShownParts ==
  /\ \A c \in DOMAIN req : c < At =>
       /\ c \in DOMAIN children
       /\ Shown[c] = Graded(Parts[c]) /\ Shown[c] \in Evaluation!Settled
       /\ Shown[c] \in Evaluation!Passed <=> Parts[c].status = "COMPLETED"
  /\ \A c \in DOMAIN req : c > At => Shown[c] = "waiting"
  /\ At \in DOMAIN req => Shown[At] = IF pc = "call" THEN "running" ELSE "waiting"
  /\ pc \in {"gate", "call"} => ShownAnswer = "none"

LEMMA ShownSoFar == TypeOK /\ Evaluating => ShownParts
<1> SUFFICES ASSUME TypeOK, Evaluating PROVE ShownParts
  OBVIOUS
<1>1. Len(children) \in Nat /\ DOMAIN children = 1..Len(children) /\ At = Len(children) + 1
  BY DEF TypeOK, At
<1>2. DOMAIN req = 1..Len(req)
  BY RequestShape DEF TypeOK
<1>3. \A c \in DOMAIN req : c < At => c \in DOMAIN children
  BY <1>1, <1>2, RequestShape DEF TypeOK
<1>4. \A c \in DOMAIN req : c < At => Shown[c] = Graded(Parts[c])
  BY <1>1, <1>2, RequestShape DEF TypeOK, Shown, StateOf
<1>5. \A c \in DOMAIN req : c < At =>
        /\ Shown[c] \in Evaluation!Settled
        /\ Shown[c] \in Evaluation!Passed <=> Parts[c].status = "COMPLETED"
  BY <1>3, <1>4, PartGrades, Grades
<1>6. \A c \in DOMAIN req : c > At => Shown[c] = "waiting"
  BY DEF Shown, StateOf
<1>7. At \in DOMAIN req => Shown[At] = IF pc = "call" THEN "running" ELSE "waiting"
  BY <1>1, RequestShape DEF Shown, StateOf
<1> QED BY <1>3, <1>4, <1>5, <1>6, <1>7 DEF ShownParts, ShownAnswer

LEMMA ShownDependencies ==
  ASSUME TypeOK, Evaluating, At \in DOMAIN req
  PROVE  \A d \in req[At].deps :
           /\ Shown[d] \in Evaluation!Settled
           /\ Shown[d] \in Evaluation!Passed <=> Parts[d].status = "COMPLETED"
<1>1. At \in Nat /\ DOMAIN req = 1..Len(req) /\ req[At].deps \subseteq 1..(At - 1)
  BY RequestShape DEF TypeOK
<1>2. At <= Len(req) /\ Len(req) \in Nat
  BY <1>1, RequestShape DEF TypeOK
<1>3. \A d \in req[At].deps : d \in DOMAIN req /\ d < At
  BY <1>1, <1>2
<1> QED BY <1>3, ShownSoFar DEF ShownParts

\* A component more in the list changes what is shown of it and of nothing else.
LEMMA ShownMore ==
  ASSUME TypeOK, TypeOK', Evaluating, Evaluating', req' = req,
         pc \in {"gate", "call"}, pc' = "gate", At \in DOMAIN req,
         NEW status \in ChildStatuses \cup {"NEEDS_CLARIFICATION"}, NEW cause \in Cause,
         NEW foreign \in BOOLEAN, Record(status, cause, foreign)
  PROVE  /\ Shown' = [Shown EXCEPT ![At] = Graded(Parts'[At])]
         /\ Graded(Parts'[At]) \in Evaluation!Settled
         /\ Parts'[At].status = status /\ Parts'[At].foreign = foreign
         /\ Parts'[At].state = ComponentState(Parts'[At])
         /\ ShownAnswer = "none" /\ ShownAnswer' = "none"
<1>1. /\ DOMAIN Parts' = 1..(Len(children) + 1)
      /\ \A c \in 1..Len(children) : Parts'[c] = Parts[c]
      /\ Parts'[At].status = status /\ Parts'[At].foreign = foreign
      /\ Parts'[At].state = ComponentState(Parts'[At])
  BY RecordParts
<1>2. Len(children) \in Nat /\ At = Len(children) + 1 /\ At' = At + 1
  <2>1. Len(children') = Len(children) + 1
    BY RecordType
  <2> QED BY <2>1 DEF TypeOK, At
<1>3. DOMAIN req = 1..Len(req) /\ Len(req) \in Nat
  BY RequestShape DEF TypeOK
<1>4. /\ \A c \in DOMAIN req : c < At' =>
           Shown'[c] = Graded(Parts'[c]) /\ Shown'[c] \in Evaluation!Settled
      /\ \A c \in DOMAIN req : c > At' => Shown'[c] = "waiting"
      /\ At' \in DOMAIN req => Shown'[At'] = "waiting"
  <2>1. (TypeOK /\ Evaluating => ShownParts)'
    BY ShownSoFar, PTL
  <2> QED BY <2>1 DEF ShownParts
<1>5. \A c \in DOMAIN req : Shown'[c] = IF c = At THEN Graded(Parts'[At]) ELSE Shown[c]
  <2> SUFFICES ASSUME NEW c \in DOMAIN req
               PROVE  Shown'[c] = IF c = At THEN Graded(Parts'[At]) ELSE Shown[c]
    OBVIOUS
  <2>1. CASE c < At
    BY <1>1, <1>2, <1>3, <1>4, <2>1, ShownSoFar DEF ShownParts
  <2>2. CASE c = At
    BY <1>1, <1>2, <1>3, <1>4, <2>2
  <2>3. CASE c > At
    BY <1>2, <1>3, <1>4, <2>3, ShownSoFar DEF ShownParts
  <2> QED BY <1>2, <1>3, <2>1, <2>2, <2>3
<1>6. DOMAIN Shown = DOMAIN req /\ Shown' = [c \in DOMAIN req |-> Shown'[c]]
  BY DEF Shown
<1>7. Graded(Parts'[At]) \in Evaluation!Settled
  BY <1>2, <1>3, <1>4
<1> QED BY <1>1, <1>5, <1>6, <1>7 DEF Shown, ShownAnswer

\* Every step is a step of the evaluation, gives it up or does not touch it.
LEMMA EvaluationStep ==
  ASSUME TypeOK, TypeOK', ResultInv, RowInv, [Next]_vars
  PROVE  [Evaluation!Next]_(Evaluation!vars)
<1>1. req' = req
  BY RanGrows
<1>2. CASE ~Evaluating'
  BY <1>1, <1>2, StopEvaluating DEF Evaluation!Next
<1>3. CASE UNCHANGED <<pc, children, out, failed>>
  <2>1. Shown' = Shown /\ ShownAnswer' = ShownAnswer
    BY <1>1, <1>3 DEF Shown, ShownAnswer, StateOf, Evaluating, At, Parts
  <2> QED BY <1>1, <2>1 DEF Shown, ShownAnswer, Evaluation!vars
<1> SUFFICES ASSUME Evaluating', ~UNCHANGED <<pc, children, out, failed>>
             PROVE  [Evaluation!Next]_(Evaluation!vars)
  BY <1>2, <1>3
<1>4. CASE Claim
  <2>1. pc' = "gate" /\ At' = 1 /\ ~Evaluating
    BY <1>4 DEF Claim, Evaluating, At
  <2>2. Shown' = Evaluation!Nothing /\ ShownAnswer' = "none"
    BY <1>1, <2>1, RequestShape DEF Shown, ShownAnswer, StateOf, Evaluation!Nothing, TypeOK
  <2>3. UNCHANGED <<req, Shown, ShownAnswer>>
    BY <1>1, <2>1, <2>2, NothingShown
  <2> QED BY <2>3 DEF Shown, ShownAnswer, Evaluation!vars
<1>5. ASSUME AtComponent, NEW cause \in Cause, Record("NEEDS_CLARIFICATION", cause, FALSE),
             pc' = pc, failed' = failed,
             \/ \E d \in req[At].deps : Parts[d].status # "COMPLETED"
             \/ req[At].inputs # {} /\ \A d \in req[At].deps : Parts[d].status = "COMPLETED"
      PROVE  Evaluation!Block(At)
  <2>1. /\ Shown' = [Shown EXCEPT ![At] = Graded(Parts'[At])]
        /\ Parts'[At].status = "NEEDS_CLARIFICATION" /\ Parts'[At].foreign = FALSE
        /\ Parts'[At].state = ComponentState(Parts'[At])
        /\ ShownAnswer = "none" /\ ShownAnswer' = "none"
    BY <1>1, <1>5, ShownMore DEF AtComponent, Evaluating
  <2>2. Graded(Parts'[At]) = "blocked"
    BY <2>1 DEF Graded, ComponentState
  <2>3. /\ Shown[At] = "waiting"
        /\ \A d \in req[At].deps :
             /\ Shown[d] \in Evaluation!Settled
             /\ Shown[d] \in Evaluation!Passed <=> Parts[d].status = "COMPLETED"
    BY <1>5, ShownSoFar, ShownDependencies DEF ShownParts, AtComponent, Evaluating
  <2>4. \/ \E d \in req[At].deps : Shown[d] \in Evaluation!Settled \ Evaluation!Passed
        \/ req[At].inputs # {} /\ \A d \in req[At].deps : Shown[d] \in Evaluation!Passed
    BY <1>5, <2>3
  <2> QED BY <1>1, <2>1, <2>2, <2>3, <2>4 DEF Evaluation!Block, Shown, ShownAnswer
<1>6. CASE Block
  <2>1. Evaluation!Block(At)
    BY <1>5, <1>6, GateSeesParts DEF Block, Cause, AtComponent
  <2> QED BY <1>6, <2>1 DEF Evaluation!Next, Block, AtComponent
<1>7. CASE BlockInput
  <2>1. Evaluation!Block(At)
    BY <1>5, <1>7, GateSeesParts DEF BlockInput, Cause, AtComponent
  <2> QED BY <1>7, <2>1 DEF Evaluation!Next, BlockInput, AtComponent
<1>8. CASE Call
  <2>1. /\ At \in DOMAIN req /\ pc = "gate" /\ pc' = "call" /\ At' = At /\ Evaluating
        /\ \A d \in req[At].deps : Parts[d].status = "COMPLETED"
    BY <1>8, GateSeesParts DEF Call, AtComponent, At, Evaluating
  <2>2. Shown[At] = "waiting" /\ \A d \in req[At].deps : Shown[d] \in Evaluation!Passed
    BY <2>1, ShownSoFar, ShownDependencies DEF ShownParts
  <2>3. Shown' = [Shown EXCEPT ![At] = "running"]
    <3>1. Parts' = Parts /\ Evaluating' /\ At \in Nat
      BY <1>8, RequestShape DEF Call, TypeOK, At, Parts
    <3>2. \A c \in DOMAIN req : StateOf(c)' = IF c = At THEN "running" ELSE StateOf(c)
      BY <1>1, <2>1, <3>1, RequestShape DEF StateOf, TypeOK
    <3> QED BY <1>1, <3>2 DEF Shown
  <2>4. ShownAnswer = "none" /\ ShownAnswer' = "none"
    BY <2>1 DEF ShownAnswer
  <2>5. Evaluation!Start(At)
    BY <1>1, <2>2, <2>3, <2>4 DEF Evaluation!Start, Shown, ShownAnswer
  <2> QED BY <2>1, <2>5 DEF Evaluation!Next
<1>9. ASSUME NEW status \in ChildStatuses, NEW foreign \in BOOLEAN, Return(status, foreign)
      PROVE  [Evaluation!Next]_(Evaluation!vars)
  <2>1. At \in DOMAIN req /\ Record(status, "run", foreign) /\ pc = "call" /\ pc' = "gate" /\ Evaluating
    BY <1>9 DEF Return, TypeOK, Evaluating
  <2>2. /\ Shown' = [Shown EXCEPT ![At] = Graded(Parts'[At])]
        /\ Graded(Parts'[At]) \in Evaluation!Settled
        /\ ShownAnswer = "none" /\ ShownAnswer' = "none"
    BY <1>1, <2>1, ShownMore DEF Cause
  <2>3. Shown[At] = "running"
    BY <2>1, ShownSoFar DEF ShownParts
  <2>4. Evaluation!Settle(At)
    BY <1>1, <2>2, <2>3 DEF Evaluation!Settle, Shown, ShownAnswer
  <2> QED BY <2>1, <2>4 DEF Evaluation!Next
<1>10. CASE Assemble
  <2>1. /\ pc = "gate" /\ At \notin DOMAIN req /\ pc' = "fence" /\ children' = children
        /\ Evaluating /\ At' = At
    BY <1>10 DEF Assemble, Evaluating, At
  <2>2. \A c \in DOMAIN req : c < At
    BY <2>1, RequestShape DEF TypeOK, At
  <2>3. \A c \in DOMAIN req :
          c \in DOMAIN children /\ Shown[c] = Graded(Parts[c]) /\ Shown[c] \in Evaluation!Settled
    BY <2>1, <2>2, ShownSoFar DEF ShownParts
  <2>4. \A c \in DOMAIN req : Parts[c].state = Evaluation!Counts(Shown[c])
    BY <2>3, PartGrades, Grades
  <2> DEFINE shown == [c \in DOMAIN req |-> Parts[c].state]
  <2>5. ShownAnswer' = Evaluation!Verdict(req, Shown)
    <3>1. Aggregate(req, shown) = Evaluation!Verdict(req, Shown)
      <4>1. \A c \in DOMAIN req : shown[c] = Evaluation!Counts(Shown[c])
        BY <2>4
      <4> HIDE DEF shown
      <4> QED BY <4>1, SameVerdict
    <3> QED BY <1>10, <2>1, <3>1, AssembleType DEF ShownAnswer
  <2>6. Shown' = Shown
    <3>1. Parts' = Parts
      BY <2>1 DEF Parts
    <3> QED BY <1>1, <2>1, <3>1 DEF Shown, StateOf
  <2>7. ShownAnswer = "none" /\ \A c \in DOMAIN req : Shown[c] \in Evaluation!Settled
    BY <2>1, <2>3 DEF ShownAnswer
  <2>8. Evaluation!Answer
    BY <1>1, <2>5, <2>6, <2>7 DEF Evaluation!Answer, Shown, ShownAnswer
  <2> QED BY <2>8 DEF Evaluation!Next
<1>11. CASE Fence \/ Write
  <2>1. /\ UNCHANGED <<req, children, out, failed>>
        /\ pc \in {"fence", "write"} /\ pc' \in {"write", "finish"}
    BY <1>11 DEF Fence, Write
  <2>2. Shown' = Shown /\ ShownAnswer' = ShownAnswer
    BY <2>1 DEF Shown, ShownAnswer, StateOf, Evaluating, At, Parts
  <2> QED BY <2>1, <2>2 DEF Shown, ShownAnswer, Evaluation!vars
<1>12. \/ Claim \/ Block \/ BlockInput \/ Call \/ Assemble \/ Fence \/ Write
       \/ \E status \in ChildStatuses, foreign \in BOOLEAN : Return(status, foreign)
  <2>1. ~Handle
    BY DEF Handle, RowInv, Evaluating
  <2> QED BY <2>1, ForeignToo DEF Next, WorkerStep, ReapStep, Crash, Restart, Finish, Raise,
        Lose, Expire, ReapGet, ReapSave, vars, worker, Evaluating
<1> QED BY <1>4, <1>6, <1>7, <1>8, <1>9, <1>10, <1>11, <1>12

\* The sequential coordinator, with its crashes, restarts and failures,
\* implements the evaluation of a dependency graph.
THEOREM CoordinatorEvaluates == Spec => EvaluationSpec
<1>1. Init => Evaluation!Init
  <2> SUFFICES ASSUME Init PROVE Evaluation!Init
    OBVIOUS
  <2>1. ~Evaluating
    BY DEF Init, Evaluating
  <2> QED BY <2>1, NothingShown DEF Evaluation!Init, Shown, ShownAnswer
<1>2. TypeOK /\ TypeOK' /\ CompositeInv /\ [Next]_vars => [Evaluation!Next]_(Evaluation!vars)
  BY EvaluationStep DEF CompositeInv
<1> QED BY <1>1, <1>2, CompositeTypes, PTL DEF Spec, EvaluationSpec, Evaluation!Spec

-----------------------------------------------------------------------------
(* Why an accepted composite run is closed, unless its worker is lost: an  *)
(* active job of a live process has a worker, and it only goes forward.    *)

Stage(place) ==
  CASE place = "claim" -> 0 [] place = "gate" -> 1 [] place = "call" -> 2
    [] place = "handler" -> 3 [] place = "fence" -> 4 [] place = "write" -> 5
    [] place = "finish" -> 6 [] OTHER -> 7

\* The worker enters its failure handler, has one more component behind it, or comes
\* further in the same part of its way.
WorkerNearer ==
  \/ ~failed /\ failed'
  \/ failed' = failed /\ Len(children') > Len(children)
  \/ failed' = failed /\ Len(children') = Len(children) /\ Stage(pc') > Stage(pc)

\* Nothing but the death of its process takes a worker anywhere else.
WorkerForward ==
  [][/\ WorkerStep => WorkerNearer
     /\ pc # "idle" => UNCHANGED worker \/ WorkerNearer \/ ~up']_vars

ActiveHasWorker == job \in ActiveStatus /\ up => pc # "idle"

\* A worker starts with nothing behind it, and comes to its failure handler once.
FreshInv ==
  /\ pc \in {"claim", "gate", "call"} => ~failed
  /\ pc = "claim" => children = <<>>
  /\ ~up => pc = "idle" /\ children = <<>> /\ ~failed

LEMMA FreshStep ==
  ASSUME TypeOK, FreshInv, ActiveHasWorker, [Next]_vars
  PROVE  FreshInv' /\ ActiveHasWorker'
<1> USE DEF FreshInv, ActiveHasWorker
<1>1. CASE Claim \/ Crash \/ Restart \/ Lose
  BY <1>1 DEF Claim, Crash, Restart, Lose, Unguarded, TypeOK
<1>2. CASE Block \/ BlockInput \/ Call \/ Assemble \/ Fence \/ Write \/ Handle
  <2>1. /\ pc \notin {"idle", "claim"} /\ pc' \notin {"idle", "claim"} /\ up' = up
        /\ failed' = failed
        /\ pc' \in {"gate", "call"} => pc \in {"gate", "call"}
    BY <1>2 DEF Block, BlockInput, Call, Assemble, Fence, Write, Handle, AtComponent
  <2> QED BY <2>1 DEF TypeOK
<1>3. ASSUME NEW status, NEW foreign, Return(status, foreign)
      PROVE  FreshInv' /\ ActiveHasWorker'
  BY <1>3 DEF Return, TypeOK
<1>4. CASE Finish
  <2>1. Closing \notin ActiveStatus
    BY DEF Closing, ResponseStatus, ActiveStatus
  <2> QED BY <1>4, <2>1 DEF Finish
<1>5. CASE Raise
  <2>1. pc # "idle"
    BY <1>5 DEF Raise, Raises, AtComponent
  <2> QED BY <1>5, <2>1 DEF Raise
<1>6. CASE Expire \/ ReapStep \/ UNCHANGED vars
  BY <1>6 DEF Expire, ReapStep, ReapGet, ReapSave, worker, vars, ActiveStatus
<1> QED BY <1>1, <1>2, <1>3, <1>4, <1>5, <1>6 DEF Next, WorkerStep

LEMMA WorkerStepNearer ==
  ASSUME TypeOK, FreshInv, WorkerStep
  PROVE  WorkerNearer
<1>1. children \in Seq(Child) /\ Len(children) \in Nat
  BY DEF TypeOK, Child
<1>2. CASE Claim
  BY <1>1, <1>2 DEF Claim, FreshInv, WorkerNearer, Stage
<1>3. CASE Call \/ Assemble \/ Fence \/ Write \/ Finish \/ Handle \/ Lose
  <2>1. UNCHANGED <<failed, children>>
    BY <1>3 DEF Call, Assemble, Fence, Write, Finish, Handle, Lose
  <2>2. Stage(pc') > Stage(pc)
    BY <1>3 DEF Call, Assemble, Fence, Write, Finish, Handle, Lose, Unguarded, AtComponent, Stage
  <2> QED BY <2>1, <2>2 DEF WorkerNearer
<1>4. ASSUME NEW status, NEW cause, NEW foreign, Record(status, cause, foreign), failed' = failed
      PROVE  WorkerNearer
  <2>1. Len(children') = Len(children) + 1
    BY <1>1, <1>4 DEF Record
  <2> QED BY <1>1, <1>4, <2>1 DEF WorkerNearer
<1>5. CASE Block \/ BlockInput \/ \E status \in ChildStatuses, foreign \in BOOLEAN : Return(status, foreign)
  BY <1>4, <1>5 DEF Block, BlockInput, Return
<1>6. CASE Raise
  <2>1. ~failed
    BY <1>6 DEF Raise, Raises, AtComponent, FreshInv
  <2> QED BY <1>6, <2>1 DEF Raise, WorkerNearer
<1> QED BY <1>2, <1>3, <1>5, <1>6, ForeignToo DEF WorkerStep

LEMMA ForwardStep ==
  ASSUME TypeOK, FreshInv, [Next]_vars
  PROVE  /\ WorkerStep => WorkerNearer
         /\ pc # "idle" => UNCHANGED worker \/ WorkerNearer \/ ~up'
<1>1. CASE WorkerStep
  BY <1>1, WorkerStepNearer
<1>2. CASE ~WorkerStep
  <2>1. CASE Crash \/ Restart
    BY <1>2, <2>1 DEF Crash, Restart, FreshInv
  <2>2. CASE Expire \/ ReapStep \/ UNCHANGED vars
    BY <1>2, <2>2 DEF Expire, ReapStep, ReapGet, ReapSave, worker, vars
  <2> QED BY <1>2, <2>1, <2>2 DEF Next
<1> QED BY <1>1, <1>2

\* An active composite job of a live process has a worker, or had one that an
\* exception took which nobody catches; every step of a worker, its exceptions
\* included, brings it nearer to the end of its job or of itself, for requests of any
\* size: the safety half of AcceptedComposesToEnd; CompositeApplication.run, run_job.
THEOREM CompositesAreClosed == Spec => []ActiveHasWorker /\ WorkerForward
<1>1. Init => FreshInv /\ ActiveHasWorker
  BY DEF Init, FreshInv, ActiveHasWorker
<1>2. TypeOK /\ FreshInv /\ ActiveHasWorker /\ [Next]_vars => FreshInv' /\ ActiveHasWorker'
  BY FreshStep
<1>3. TypeOK /\ FreshInv /\ [Next]_vars =>
        [/\ WorkerStep => WorkerNearer
         /\ pc # "idle" => UNCHANGED worker \/ WorkerNearer \/ ~up']_vars
  BY ForwardStep
<1> QED BY <1>1, <1>2, <1>3, CompositeTypeCorrect, PTL DEF Spec, WorkerForward

=============================================================================
