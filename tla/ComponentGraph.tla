--------------------------- MODULE ComponentGraph ---------------------------
(***************************************************************************)
(* What one evaluation of a composite request promises, in whatever order  *)
(* and with whatever concurrency: a component starts when everything it    *)
(* depends on has completed, one with a dependency that ended otherwise    *)
(* never starts, a component that failed stops nobody else, and the answer *)
(* is the verdict on the states of all of them.  A component that has      *)
(* completed for another Domain than its own is foreign: those that depend *)
(* on it may start, and the verdict counts it as blocked.  An evaluation   *)
(* may be given up; the next one starts from nothing.                      *)
(***************************************************************************)
EXTENDS Naturals

VARIABLES
  graph,   \* the components: dependencies, inputs, required or not
  state,   \* of each component
  answer   \* the verdict, once there is one

vars == <<graph, state, answer>>

Settled == {"completed", "foreign", "failed", "blocked", "pending"}

\* What lets a dependent start.
Passed == {"completed", "foreign"}

Verdicts == {"completed", "partial", "failed", "blocked", "pending"}

\* Required components decide; where none is, all of them do.  The others can
\* only turn a completed answer into a partial one.
Deciding(g) ==
  IF \E c \in DOMAIN g : g[c].required
    THEN {c \in DOMAIN g : g[c].required} ELSE DOMAIN g

Counts(s) == IF s = "foreign" THEN "blocked" ELSE s

Verdict(g, s) ==
  LET all == \A c \in DOMAIN g : s[c] = "completed"
      among == {Counts(s[c]) : c \in Deciding(g)}
  IN CASE all -> "completed"
       [] ~all /\ among \subseteq {"completed"} -> "partial"
       [] "failed" \in among -> "failed"
       [] "failed" \notin among /\ "blocked" \in among -> "blocked"
       [] OTHER -> "pending"

Nothing == [c \in DOMAIN graph |-> "waiting"]

Init ==
  /\ state = Nothing
  /\ answer = "none"

Start(c) ==
  /\ answer = "none"
  /\ state[c] = "waiting"
  /\ \A d \in graph[c].deps : state[d] \in Passed
  /\ state' = [state EXCEPT ![c] = "running"]
  /\ UNCHANGED <<graph, answer>>

\* A dependency ended otherwise, or an input cannot be taken from its source.
Block(c) ==
  /\ answer = "none"
  /\ state[c] = "waiting"
  /\ \/ \E d \in graph[c].deps : state[d] \in Settled \ Passed
     \/ /\ graph[c].inputs # {}
        /\ \A d \in graph[c].deps : state[d] \in Passed
  /\ state' = [state EXCEPT ![c] = "blocked"]
  /\ UNCHANGED <<graph, answer>>

Settle(c) ==
  /\ answer = "none"
  /\ state[c] = "running"
  /\ \E s \in Settled : state' = [state EXCEPT ![c] = s]
  /\ UNCHANGED <<graph, answer>>

Answer ==
  /\ answer = "none"
  /\ \A c \in DOMAIN graph : state[c] \in Settled
  /\ answer' = Verdict(graph, state)
  /\ UNCHANGED <<graph, state>>

GiveUp ==
  /\ state' = Nothing
  /\ answer' = "none"
  /\ UNCHANGED graph

Next ==
  \/ \E c \in DOMAIN graph : Start(c) \/ Block(c) \/ Settle(c)
  \/ Answer \/ GiveUp

Spec == Init /\ [][Next]_vars

=============================================================================
