-------------------------- MODULE MCCompositeRuns --------------------------
(***************************************************************************)
(* CompositeRuns for TLC: two components, one on the other or independent, *)
(* with every choice of required ones; and three in a chain, a fork, a     *)
(* join or with one independent of the others.  The inputs of the last     *)
(* component may be its dependencies, and its Domain may be disabled.      *)
(***************************************************************************)
EXTENDS CompositeRuns

Request(shape, required, typed, enabled) ==
  [c \in DOMAIN shape |->
     [deps |-> shape[c],
      inputs |-> IF typed /\ c = Len(shape) THEN shape[c] ELSE {},
      required |-> c \in required,
      enabled |-> enabled \/ c # Len(shape)]]

Chain == <<{}, {1}, {2}>>
Fork == <<{}, {1}, {1}>>
Join == <<{}, {}, {1, 2}>>
Apart == <<{}, {}, {2}>>

MCRequests ==
  {Request(shape, required, TRUE, TRUE) :
     shape \in {<<{}, {}>>, <<{}, {1}>>}, required \in SUBSET {1, 2}}
  \cup {Request(shape, {2, 3}, FALSE, TRUE) : shape \in {Chain, Fork, Join, Apart}}
  \cup {Request(Chain, {1}, TRUE, TRUE), Request(Join, {1, 2, 3}, TRUE, FALSE)}

=============================================================================
