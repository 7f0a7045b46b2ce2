-------------------------- MODULE MCPlanExecution --------------------------
(***************************************************************************)
(* PlanExecution for TLC: plans, and replacements of one or two steps      *)
(* whose ids may be those of kept steps, of dropped steps, names that the  *)
(* merge makes itself, or new, and that depend on kept, dropped and failed *)
(* steps and on each other.                                                *)
(***************************************************************************)
EXTENDS PlanExecution

Numerals == {<<1>>, <<2>>, <<3>>}

Step(id, deps) == [id |-> id, deps |-> deps]

\* "replan-2-0" and so on.
Made(rest) == <<Word>> \o rest

\* In the second plan the first name that a merge makes for the second step of a
\* replacement is taken.
MCOriginals ==
  { << Step(<<1>>, {}), Step(<<2>>, {<<1>>}), Step(<<3>>, {<<2>>}) >>,
    << Step(Made(<<2, 1>>), {}), Step(<<2>>, {Made(<<2, 1>>)}) >> }

\* The first step of a replacement depends on step 1, the second on nothing, on
\* step 1 or on step 2.
First == {Step(a, {<<1>>}) : a \in Numerals}

Pairs ==
  {<<first, Step(b, e)>> : first \in First, b \in Numerals, e \in {{}, {<<1>>}, {<<2>>}}}

\* In the second plan this takes the other name as well, and the merge hangs.
Clash == <<Step(Made(<<2, 1, 3>>), {}), Step(<<2>>, {Made(<<2, 1, 3>>)})>>

MCReplacements ==
  {Clash, <<Step(<<3>>, {})>>}
  \cup {<<first>> : first \in First} \cup {drafts \in Pairs : DistinctIds(drafts)}

=============================================================================
