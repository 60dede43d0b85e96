-------------------------------- MODULE RIV --------------------------------
(* The RIV analysis (buildRIV of lib/RIV.cpp): per basic block, the integer  *)
(* values that reach it, collected down the dominator tree from a worklist.  *)
EXTENDS CFG, SequencesExt

CONSTANT
  RIVFunctions \* functions as in CFG (with dom), and
               \*   params, globals  the integer arguments and global variables
               \*   ints    per block, the integer values it defines

VARIABLES
  F,           \* the function
  BBsToProcess,\* std::deque<NodeTy>, its back is the last element
  ResultMap    \* per block that has an entry, its reachable integer values

rivVars == <<F, BBsToProcess, ResultMap>>

\* The children of b's node in the dominator tree, which has a node for the
\* reachable blocks only.
Children(f, b) ==
  {c \in Reachable(f) \ f.dom[b] : f.dom[c] = f.dom[b] \cup {c}}

ASSUME TreeAssumption ==
  \A f \in RIVFunctions :
    /\ f.entry \in f.block /\ f.dom \in [f.block -> SUBSET f.block]
    /\ f.entry \in Reachable(f) /\ Reachable(f) \subseteq f.block
    /\ f.dom[f.entry] = {f.entry} /\ \A b \in f.block : b \in f.dom[b]
    /\ IsFiniteSet(f.block)
    \* what holds the entry, and with a block its children, holds the tree
    /\ \A S \in SUBSET Reachable(f) :
         f.entry \in S /\ (\A b \in S : Children(f, b) \subseteq S) => S = Reachable(f)

Parent == BBsToProcess[Len(BBsToProcess)]

\* Mutant: the parent's own set is not handed on.
ParentValuesOnly == F.ints[Parent]

\* What the children of Parent get: its values, and what reaches it.
ParentValues == F.ints[Parent] \cup ResultMap[Parent]

Before(b) == IF b \in DOMAIN ResultMap THEN ResultMap[b] ELSE {}

Orders(S) == {s \in [1..Cardinality(S) -> S] : \A x \in S : \E i \in DOMAIN s : s[i] = x}

RIVInit ==
  /\ F \in RIVFunctions
  /\ BBsToProcess = <<F.entry>>
  /\ ResultMap = [b \in {F.entry} |-> F.params \cup F.globals]

\* One round of the while loop; the tree's children are in some order.
ProcessParent ==
  /\ BBsToProcess # <<>>
  /\ \E order \in Orders(Children(F, Parent)) :
       BBsToProcess' = SubSeq(BBsToProcess, 1, Len(BBsToProcess) - 1) \o order
  /\ ResultMap' = [b \in DOMAIN ResultMap \cup Children(F, Parent) |->
                     IF b \in Children(F, Parent) THEN Before(b) \cup ParentValues ELSE ResultMap[b]]
  /\ UNCHANGED F

RIVBuilt == BBsToProcess = <<>>

RIVSpec == RIVInit /\ [][ProcessParent]_rivVars /\ WF_rivVars(ProcessParent)
-----------------------------------------------------------------------------
(* Properties.                                                              *)

\* The values of the blocks on every way to b, and those of no block.
ReachableIntegers(b) ==
  F.params \cup F.globals \cup UNION {F.ints[d] : d \in F.dom[b] \ {b}}

\* Whatever the order of the worklist: no block has more than the integers
\* that reach it, and in the end every reachable block has all of them.
RIVExact ==
  /\ \A b \in DOMAIN ResultMap : ResultMap[b] = ReachableIntegers(b)
  /\ RIVBuilt => DOMAIN ResultMap = Reachable(F)
=============================================================================
