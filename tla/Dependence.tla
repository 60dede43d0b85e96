----------------------------- MODULE Dependence -----------------------------
(* What the Secret analysis promises (include/Secret.h, lib/Secret.cpp): the *)
(* values of a function that depend on its arguments through operands. A     *)
(* flow is a record                                                          *)
(*   roots   the values the search starts from, in order                     *)
(*   users   per value, the instructions that have it as an operand, once    *)
(*           for every such operand                                          *)
(* Memory is not followed: a load does not depend on what was stored.        *)
EXTENDS Sequences, SequencesExt

VARIABLES flow, found

UserSet(f, v) == ToSet(f.users[v])

\* The values that are known to depend on a root once those of S are.
Ahead(f, S) == (ToSet(f.roots) \cup UNION {UserSet(f, v) : v \in S}) \ S

Init == found = {}

\* The function is still being made.
Prepare == found = {} /\ UNCHANGED found

\* One more value is found, any of those ahead.
Find == UNCHANGED flow /\ \E v \in Ahead(flow, found) : found' = found \cup {v}

Spec == Init /\ [][Prepare \/ Find]_<<flow, found>> /\ WF_<<flow, found>>(Find)

\* S holds the roots and all that depends on one of its elements.
Closed(f, S) ==
  /\ ToSet(f.roots) \subseteq S
  /\ \A v \in S : UserSet(f, v) \subseteq S

\* The values that depend on a root: the least closed set.
Dependent(f) ==
  {v \in DOMAIN f.users : \A S \in SUBSET DOMAIN f.users : Closed(f, S) => v \in S}
=============================================================================
