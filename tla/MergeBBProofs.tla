---------------------------- MODULE MergeBBProofs ----------------------------
(* For every function, whatever its blocks do and wherever they lead: the    *)
(* function stays well formed through every merge and deletion, its entry    *)
(* is never merged, nothing leads to a merged block, and every merge moves a *)
(* branch. A function without two blocks whose phis pass for each other also *)
(* does what it did.                                                         *)
EXTENDS MergeBB, SequenceTheorems, FiniteSetTheorems, TLAPS

\* Of these only the facts about numbers are used.
Facts == INSTANCE Facts WITH VirtualRoot <- {}

\* What a function keeps while the pass changes it. Merging deletes nothing.
Shape ==
  /\ original \in Functions
  /\ DOMAIN f = {"block", "entry", "order", "succ", "term", "phi", "body"}
  /\ f.entry = original.entry /\ f.order = original.order
  /\ f.succ \in [f.block -> Seq(f.block)]
  /\ pc = "merge" => f.block = original.block

EntryKept == original.entry \notin DOMAIN DeleteList

\* Only blocks that were looked at are merged.
MergedBefore == \A b \in DOMAIN DeleteList : \E i \in 1..(next - 1) : original.order[i] = b

\* In a function whose blocks all have predecessors, the blocks that are not
\* merged keep some: what leads to a merged block leads to the retained one.
StillLedTo ==
  pc = "merge" /\ (\A b \in original.block \ {original.entry} : Preds(original, b) # {}) =>
    \A b \in f.block \ ({f.entry} \cup DOMAIN DeleteList) : Preds(f, b) # {}

\* The inductive invariant.
IInv == /\ TypeOK /\ Shape /\ EntryKept /\ NothingLeadsToDeleted
        /\ MergedBefore /\ StillLedTo /\ BranchTargetUpdated

\* No two blocks that only lead on have phis that pass for the same: what the
\* pass does not check of phis (the blocks they come from) does not matter.
NoLikePhis(g) ==
  \A b1, b2 \in g.block :
    /\ b1 # b2
    /\ g.term[b1] = "br" /\ Len(g.succ[b1]) = 1
    /\ g.term[b2] = "br" /\ Len(g.succ[b2]) = 1
    /\ DOMAIN g.phi[b1] = DOMAIN g.phi[b2]
    /\ \A k \in DOMAIN g.phi[b1] : canMergePhis(g.phi[b1][k], g.phi[b2][k])
    => g.phi[b1] = <<>> /\ g.phi[b2] = <<>>

\* Merging changes branches only.
Untouched == f.term = original.term /\ f.phi = original.phi /\ f.body = original.body

\* The same block, or one that a merge may put in its place: both do the same
\* and lead to the same block with the same values.
Alike(b1, b2) ==
  \/ b1 = b2
  \/ /\ f.term[b1] = "br" /\ f.term[b2] = "br"
     /\ Len(f.succ[b1]) = 1 /\ f.succ[b1] = f.succ[b2]
     /\ DOMAIN f.phi[b1] = {} /\ DOMAIN f.phi[b2] = {}
     /\ [k \in DOMAIN f.body[b1] |-> f.body[b1][k].what]
          = [k \in DOMAIN f.body[b2] |-> f.body[b2][k].what]
     /\ SamePhis(f.succ[b1][1], b1, f.succ[b1][1], b2)

\* While blocks are merged, a branch leads to a block like the one it led to.
Moved ==
  \A b \in f.block :
    /\ Len(original.succ[b]) = Len(f.succ[b])
    /\ \A k \in 1..Len(f.succ[b]) : Alike(original.succ[b][k], f.succ[b][k])

\* S pairs blocks that do the same, and go on to pairs of S.
Simulation(S) == \A p \in S : SameWork(p[1], p[2]) /\ Agree(S, p[1], p[2])

Simulated ==
  \E S \in SUBSET (original.block \X f.block) :
    Simulation(S) /\ <<original.entry, f.entry>> \in S

\* The second invariant, on which BehaviourKept rests.
SameSoFar ==
  NoLikePhis(original) =>
    /\ pc = "merge" => Untouched /\ Moved
    /\ pc \in {"delete", "done"} => Simulated

-----------------------------------------------------------------------------
(* Lemmas about the definitions of the model.                               *)

\* A block leads to the blocks its terminator names.
LEMMA Leads ==
  ASSUME NEW g, NEW p, NEW b, g.succ[p] \in Seq(g.block)
  PROVE  /\ p \in Preds(g, b) <=>
              p \in g.block /\ \E k \in 1..Len(g.succ[p]) : g.succ[p][k] = b
         /\ DOMAIN g.succ[p] = 1..Len(g.succ[p])
<1>1. DOMAIN g.succ[p] = 1..Len(g.succ[p])
  BY LenProperties
<1> QED
  BY <1>1 DEF Preds, Succs, ToSet

\* A sequence keeps its type when its elements are replaced, and when they
\* are found to lie in a smaller set.
LEMMA Replaced ==
  ASSUME NEW S, NEW s \in Seq(S), NEW t, DOMAIN t = DOMAIN s, NEW T,
         t = [k \in DOMAIN s |-> t[k]], \A k \in DOMAIN s : t[k] \in T
  PROVE  t \in Seq(T)
<1>1. Len(s) \in Nat /\ DOMAIN s = 1..Len(s)
  BY LenProperties
<1>2. t \in [1..Len(s) -> T]
  BY <1>1
<1> QED
  BY <1>1, <1>2, SeqDef

\* A duplicate is another block of the function, and not a merged one.
LEMMA DuplicatesAreKept ==
  ASSUME NEW b, NEW d \in Duplicates(b)
  PROVE  d \in f.block /\ d # b /\ d \notin DOMAIN DeleteList
BY DEF Duplicates, Deleted, Preds

-----------------------------------------------------------------------------
(* One lemma per action.                                                    *)

LEMMA Initially == Init => IInv
<1> SUFFICES ASSUME Init PROVE IInv
  OBVIOUS
<1>1. original \in Functions /\ WellFormed(original) /\ f = original
  BY FunctionsAssumption DEF Init
<1>2. Len(original.order) \in Nat
  BY <1>1, LenProperties DEF WellFormed
<1>3. DOMAIN DeleteList = {}
  BY DEF Init
<1>4. TypeOK
  BY <1>1, <1>2, <1>3 DEF Init, TypeOK, WellFormed
<1>5. StillLedTo
  BY <1>1, <1>3 DEF StillLedTo
<1> QED
  BY <1>1, <1>3, <1>4, <1>5 DEF IInv, Init, Shape, EntryKept, NothingLeadsToDeleted,
     MergedBefore, BranchTargetUpdated, WellFormed

LEMMA MergeKeeps == IInv /\ Merge => IInv'
<1> SUFFICES ASSUME IInv, Merge PROVE IInv'
  OBVIOUS
<1>1. /\ original \in Functions /\ WellFormed(original)
      /\ f.block = original.block /\ f.order = original.order
      /\ f.entry = original.entry /\ f.entry \in f.block
      /\ f.succ \in [f.block -> Seq(f.block)]
  BY FunctionsAssumption DEF IInv, Shape, TypeOK, Merge
<1>2. /\ next \in 1..Len(original.order) /\ Len(original.order) \in Nat
      /\ next + 1 \in 1..(Len(original.order) + 1)
  BY <1>1, LenProperties DEF WellFormed, IInv, TypeOK, Merge
<1>3. BB \in f.block
  BY <1>1, <1>2, ElementOfSeq DEF BB, WellFormed
<1>4. BB # original.entry
  BY <1>1 DEF Merge, Qualifies
<1>5. PICK BB2 \in Duplicates(BB) :
        /\ updateBranchTargets(BB, BB2)
        /\ DeleteList' = [b \in DOMAIN DeleteList \cup {BB} |->
                            IF b = BB THEN BB2 ELSE DeleteList[b]]
  BY DEF Merge
<1>6. BB2 \in f.block /\ BB2 # BB /\ BB2 \notin DOMAIN DeleteList
  BY <1>5, DuplicatesAreKept
<1>7. /\ DOMAIN f' = DOMAIN f /\ f'.block = f.block
      /\ f'.entry = f.entry /\ f'.order = f.order
      /\ f'.succ = [b \in f.block |->
           [k \in DOMAIN f.succ[b] |-> IF f.succ[b][k] = BB THEN BB2 ELSE f.succ[b][k]]]
  BY <1>5 DEF updateBranchTargets, IInv, Shape
<1>8. f'.succ \in [f.block -> Seq(f.block)]
  <2>1. ASSUME NEW b \in f.block PROVE f'.succ[b] \in Seq(f.block)
    <3>1. f.succ[b] \in Seq(f.block) /\ \A k \in DOMAIN f.succ[b] : f.succ[b][k] \in f.block
      BY <1>1, LenProperties, ElementOfSeq
    <3>2. f'.succ[b] = [k \in DOMAIN f.succ[b] |->
                          IF f.succ[b][k] = BB THEN BB2 ELSE f.succ[b][k]]
      BY <1>7
    <3> QED
      BY <3>1, <3>2, <1>6, Replaced
  <2> QED
    BY <2>1, <1>7
<1>9. pc' \in {"merge", "assert"} /\ original' = original /\ next' = next + 1
  BY DEF Merge
<1>10. TypeOK'
  BY <1>1, <1>2, <1>3, <1>5, <1>6, <1>7, <1>8, <1>9 DEF IInv, TypeOK
<1>11. Shape'
  BY <1>1, <1>7, <1>8, <1>9 DEF IInv, Shape
<1>12. EntryKept'
  BY <1>4, <1>5, <1>9 DEF IInv, EntryKept
<1>13. NothingLeadsToDeleted'
  <2> SUFFICES ASSUME NEW b \in DOMAIN DeleteList \cup {BB}, b \in f.block,
                      NEW p \in f.block, p \in Preds(f, b)'
               PROVE  FALSE
    BY <1>5, <1>7 DEF NothingLeadsToDeleted, Preds
  <2>1. /\ f.succ[p] \in Seq(f.block)
        /\ f'.succ[p] \in Seq(f'.block)
        /\ DOMAIN f'.succ[p] = DOMAIN f.succ[p]
    BY <1>1, <1>7, <1>8
  <2>2. PICK k \in 1..Len(f'.succ[p]) : f'.succ[p][k] = b
    BY <2>1, Leads
  <2>3. k \in DOMAIN f.succ[p] /\ k \in 1..Len(f.succ[p])
    BY <2>1, <2>2, LenProperties
  <2>4. f'.succ[p][k] = IF f.succ[p][k] = BB THEN BB2 ELSE f.succ[p][k]
    BY <1>7, <2>3
  <2>5. CASE b = BB
    BY <2>2, <2>4, <2>5, <1>6
  <2>6. CASE b # BB
    <3>1. b \in DOMAIN DeleteList /\ f.succ[p][k] = b
      BY <2>2, <2>4, <2>6, <1>6
    <3>2. p \in Preds(f, b)
      BY <2>1, <2>3, <3>1, Leads
    <3> QED
      BY <3>1, <3>2 DEF IInv, NothingLeadsToDeleted
  <2> QED
    BY <2>5, <2>6
<1>14. MergedBefore'
  <2> SUFFICES ASSUME NEW b \in DOMAIN DeleteList \cup {BB}
               PROVE  \E i \in 1..(next' - 1) : original.order[i] = b
    BY <1>5, <1>9 DEF MergedBefore
  <2>1. next \in 1..next /\ next' - 1 = next /\ 1..(next - 1) \subseteq 1..next
    BY <1>2, <1>9
  <2>2. original.order[next] = BB
    BY <1>1 DEF BB
  <2> QED
    BY <2>1, <2>2 DEF IInv, MergedBefore
<1>15. BB \notin DOMAIN DeleteList
  <2> SUFFICES ASSUME BB \in DOMAIN DeleteList PROVE FALSE
    OBVIOUS
  <2>1. PICK i \in 1..(next - 1) : original.order[i] = original.order[next]
    BY <1>1 DEF IInv, MergedBefore, BB
  <2>2. i \in DOMAIN original.order /\ next \in DOMAIN original.order /\ i # next
    <3>1. DOMAIN original.order = 1..Len(original.order)
      BY <1>1, LenProperties DEF WellFormed
    <3> QED
      BY <1>2, <3>1
  <2> QED
    BY <1>1, <2>1, <2>2 DEF WellFormed
<1>16. StillLedTo'
  <2> SUFFICES ASSUME pc' = "merge",
                      \A b \in original.block \ {original.entry} : Preds(original, b) # {},
                      NEW b \in f.block \ ({f.entry} \cup DOMAIN DeleteList \cup {BB})
               PROVE  Preds(f, b)' # {}
    BY <1>5, <1>7, <1>9 DEF StillLedTo
  <2>1. pc = "merge" /\ Preds(f, b) # {}
    BY DEF Merge, IInv, StillLedTo
  <2>2. PICK p \in Preds(f, b) : TRUE
    BY <2>1
  <2>3. p \in f.block /\ f.succ[p] \in Seq(f.block) /\ f'.succ[p] \in Seq(f'.block)
    BY <1>1, <1>7, <1>8 DEF Preds
  <2>4. PICK k \in 1..Len(f.succ[p]) : f.succ[p][k] = b
    BY <2>2, <2>3, Leads
  <2>5. k \in DOMAIN f.succ[p] /\ DOMAIN f'.succ[p] = DOMAIN f.succ[p] /\ f'.succ[p][k] = b
    BY <1>7, <2>3, <2>4, LenProperties
  <2>6. p \in Preds(f', b)
    BY <1>7, <2>3, <2>4, <2>5, Leads, LenProperties
  <2> QED
    BY <2>6 DEF Preds, Succs
<1>17. BranchTargetUpdated'
  <2> SUFFICES ASSUME pc' = "assert",
                      \A b \in original.block \ {original.entry} : Preds(original, b) # {}
               PROVE  FALSE
    BY <1>9 DEF BranchTargetUpdated
  <2>1. pc = "merge" /\ Preds(f, BB) = {}
    BY DEF Merge
  <2>2. BB \in f.block \ ({f.entry} \cup DOMAIN DeleteList)
    BY <1>1, <1>3, <1>4, <1>15
  <2> QED
    BY <2>1, <2>2 DEF IInv, StillLedTo
<1> QED
  BY <1>10, <1>11, <1>12, <1>13, <1>14, <1>16, <1>17 DEF IInv

LEMMA DeleteKeeps == IInv /\ Delete => IInv'
<1> SUFFICES ASSUME IInv, Delete PROVE IInv'
  OBVIOUS
<1>1. /\ original \in Functions
      /\ f.order = original.order
      /\ f.entry = original.entry /\ f.entry \in f.block
      /\ f.block \subseteq original.block
      /\ f.succ \in [f.block -> Seq(f.block)]
  BY DEF IInv, Shape, TypeOK
<1>2. PICK b \in DOMAIN DeleteList \cap f.block :
        /\ DOMAIN f' = DOMAIN f /\ f'.block = f.block \ {b}
        /\ f'.entry = f.entry /\ f'.order = f.order
        /\ f'.succ = [x \in f.block \ {b} |-> f.succ[x]]
  BY DEF Delete, IInv, Shape
<1>3. original' = original /\ next' = next /\ DeleteList' = DeleteList /\ pc' = "delete"
  BY DEF Delete
<1>4. b # original.entry
  BY <1>2 DEF IInv, EntryKept
<1>5. f'.succ \in [f'.block -> Seq(f'.block)]
  <2>1. ASSUME NEW x \in f'.block PROVE f'.succ[x] \in Seq(f'.block)
    <3>1. x \in f.block /\ f'.succ[x] = f.succ[x] /\ f.succ[x] \in Seq(f.block)
      BY <1>1, <1>2
    <3>2. Preds(f, b) = {}
      BY <1>2 DEF IInv, NothingLeadsToDeleted
    <3>3. \A k \in DOMAIN f.succ[x] : f.succ[x][k] \in f.block \ {b}
      <4>1. DOMAIN f.succ[x] = 1..Len(f.succ[x])
        BY <3>1, LenProperties
      <4>2. \A k \in 1..Len(f.succ[x]) : f.succ[x][k] \in f.block
        BY <3>1, ElementOfSeq
      <4>3. \A k \in 1..Len(f.succ[x]) : f.succ[x][k] # b
        BY <3>1, <3>2, Leads
      <4> QED
        BY <4>1, <4>2, <4>3
    <3>4. f.succ[x] = [k \in DOMAIN f.succ[x] |-> f.succ[x][k]]
      BY <3>1, LenProperties
    <3> QED
      BY <3>1, <3>3, <3>4, <1>2, Replaced
  <2> QED
    BY <2>1, <1>2
<1>6. TypeOK'
  BY <1>1, <1>2, <1>3, <1>4, <1>5 DEF IInv, TypeOK
<1>7. Shape'
  BY <1>1, <1>2, <1>3, <1>5 DEF IInv, Shape
<1>8. EntryKept'
  BY <1>3 DEF IInv, EntryKept
<1>9. NothingLeadsToDeleted'
  <2> SUFFICES ASSUME NEW d \in DOMAIN DeleteList, d \in f'.block, NEW p, p \in Preds(f, d)'
               PROVE  FALSE
    BY <1>3 DEF NothingLeadsToDeleted
  <2>1. p \in f'.block /\ p \in f.block /\ f'.succ[p] = f.succ[p]
    BY <1>2 DEF Preds
  <2>2. p \in Preds(f, d)
    BY <2>1 DEF Preds, Succs
  <2> QED
    BY <2>2, <1>2 DEF IInv, NothingLeadsToDeleted
<1>10. MergedBefore' /\ StillLedTo' /\ BranchTargetUpdated'
  BY <1>3 DEF IInv, MergedBefore, StillLedTo, BranchTargetUpdated
<1> QED
  BY <1>6, <1>7, <1>8, <1>9, <1>10 DEF IInv

\* Skip and Finish leave the function and the list alone.
LEMMA OthersKeep == IInv /\ (Skip \/ Finish \/ UNCHANGED vars) => IInv'
<1> SUFFICES ASSUME IInv, Skip \/ Finish \/ UNCHANGED vars PROVE IInv'
  OBVIOUS
<1>1. original' = original /\ f' = f /\ DeleteList' = DeleteList
  BY DEF Skip, Finish, vars
<1>2. EntryKept' /\ NothingLeadsToDeleted'
  BY <1>1 DEF IInv, EntryKept, NothingLeadsToDeleted, Preds, Succs
<1>3. \/ pc' = pc /\ pc = "merge" /\ next <= Len(f.order) /\ next' = next + 1
      \/ pc' = "done" /\ next' = next
      \/ pc' = pc /\ next' = next
  BY DEF Skip, Finish, vars
<1>4. f.order = original.order /\ Len(original.order) \in Nat /\ next \in Nat \ {0}
  BY FunctionsAssumption, LenProperties DEF IInv, TypeOK, Shape, WellFormed
<1>5. next' \in 1..(Len(original.order) + 1) /\ 1..(next - 1) \subseteq 1..(next' - 1)
  BY <1>3, <1>4 DEF IInv, TypeOK
<1>6. TypeOK' /\ Shape'
  BY <1>1, <1>3, <1>5 DEF IInv, TypeOK, Shape
<1>7. MergedBefore'
  BY <1>1, <1>5 DEF IInv, MergedBefore
<1>8. StillLedTo' /\ BranchTargetUpdated'
  BY <1>1, <1>3 DEF IInv, StillLedTo, BranchTargetUpdated, Preds, Succs
<1> QED
  BY <1>2, <1>6, <1>7, <1>8 DEF IInv

-----------------------------------------------------------------------------
(* Lemmas on a simulation: what it pairs cannot be told apart.              *)

\* Indistinct is what its definition says.
LEMMA IndistinctDef ==
  Indistinct = [n \in Nat |->
    IF n = 0 THEN {p \in original.block \X f.block : SameWork(p[1], p[2])}
    ELSE LET before == Indistinct[n - 1]
         IN  {p \in before : Agree(before, p[1], p[2])}]
<1> DEFINE V == SUBSET (original.block \X f.block)
           a == {p \in original.block \X f.block : SameWork(p[1], p[2])}
           G == [x \in Nat \X V |-> {p \in x[2] : Agree(x[2], p[1], p[2])}]
<1>1. a \in V /\ G \in [Nat \X V -> V]
  OBVIOUS
<1>2. PICK g : Facts!Recursion(g, V, a, G)
  <2> HIDE DEF V, a, G
  <2> QED
    BY <1>1, Facts!RecursiveFunction
<1>3. \A n \in Nat \ {0} : G[<<n, g[n - 1]>>] = {p \in g[n - 1] : Agree(g[n - 1], p[1], p[2])}
  <2> SUFFICES ASSUME NEW n \in Nat \ {0}
               PROVE  G[<<n, g[n - 1]>>] = {p \in g[n - 1] : Agree(g[n - 1], p[1], p[2])}
    OBVIOUS
  <2>1. n - 1 \in Nat
    OBVIOUS
  <2>2. g[n - 1] \in V
    BY <1>2, <2>1 DEF Facts!Recursion
  <2> QED
    BY <2>2
<1>4. g = [n \in Nat |-> IF n = 0 THEN a ELSE {p \in g[n - 1] : Agree(g[n - 1], p[1], p[2])}]
  <2> HIDE DEF V, G, a
  <2> QED
    BY <1>2, <1>3 DEF Facts!Recursion
<1> QED
  BY <1>4 DEF Indistinct

\* The pairs of a simulation stay, however far the two functions are run.
LEMMA SimulationIsIndistinct ==
  ASSUME NEW S \in SUBSET (original.block \X f.block), Simulation(S)
  PROVE  \A n \in Nat : S \subseteq Indistinct[n]
<1> DEFINE N == {n \in Nat : S \subseteq Indistinct[n]}
<1>1. 0 \in N
  BY IndistinctDef DEF Simulation
<1>2. ASSUME NEW n \in Nat, n \in N PROVE n + 1 \in N
  <2>1. n + 1 # 0 /\ (n + 1) - 1 = n /\ n + 1 \in Nat
    OBVIOUS
  <2>2. Indistinct[n + 1] = {p \in Indistinct[n] : Agree(Indistinct[n], p[1], p[2])}
    BY <2>1, IndistinctDef
  <2>3. ASSUME NEW p \in S PROVE Agree(Indistinct[n], p[1], p[2])
    BY <1>2, <2>3 DEF Simulation, Agree
  <2> QED
    BY <1>2, <2>1, <2>2, <2>3
<1> HIDE DEF N
<1>3. Nat \subseteq N
  BY <1>1, <1>2, Facts!NatInd
<1> QED
  BY <1>3 DEF N

\* Hence a function that simulates the original one from its entry does what
\* that does.
LEMMA SimulatedIsBisimilar ==
  ASSUME IsFiniteSet(original.block), IsFiniteSet(f.block), Simulated
  PROVE  <<original.entry, f.entry>> \in Bisimilar
<1> DEFINE all == Cardinality(original.block) * Cardinality(f.block)
           n   == CHOOSE n \in 0..all : n = all \/ Indistinct[n + 1] = Indistinct[n]
<1>1. Cardinality(original.block) \in Nat /\ Cardinality(f.block) \in Nat
  BY FS_CardinalityType
<1>2. all \in Nat
  BY <1>1
<1>3. n \in Nat
  <2> HIDE DEF all
  <2>1. all \in 0..all
    BY <1>2
  <2>2. n \in 0..all
    BY <2>1
  <2> QED
    BY <1>2, <2>2
<1>4. PICK S \in SUBSET (original.block \X f.block) :
        Simulation(S) /\ <<original.entry, f.entry>> \in S
  BY DEF Simulated
<1>5. S \subseteq Indistinct[n]
  BY <1>3, <1>4, SimulationIsIndistinct
<1> QED
  BY <1>4, <1>5 DEF Bisimilar

-----------------------------------------------------------------------------
(* Lemmas on the values of instructions and phis.                           *)

\* A phi has one value for a block.
LEMMA IncomingValue ==
  ASSUME NEW phi, NEW e \in ToSet(phi.entries),
         \A e1, e2 \in ToSet(phi.entries) : e1.from = e2.from => e1.value = e2.value
  PROVE  getIncomingValueForBlock(phi, e.from) = e.value
<1> DEFINE P(n) == phi.entries[n].from = e.from
           k    == CHOOSE n \in DOMAIN phi.entries : P(n)
<1>1. PICK n \in DOMAIN phi.entries : phi.entries[n] = e
  BY DEF ToSet
<1>2. k \in DOMAIN phi.entries /\ P(k)
  BY <1>1
<1>3. phi.entries[k] \in ToSet(phi.entries)
  BY <1>2 DEF ToSet
<1> QED
  BY <1>2, <1>3 DEF getIncomingValueForBlock

\* B1 and B2 are different blocks of g without phis whose instructions merge.
Mergeable(g, B1, B2) ==
  /\ B1 \in g.block /\ B2 \in g.block /\ B1 # B2
  /\ g.phi[B1] = <<>> /\ g.phi[B2] = <<>>
  /\ DOMAIN g.body[B1] = DOMAIN g.body[B2]
  /\ \A k \in DOMAIN g.body[B1] : canMergeInstructions(g.body[B1][k], g.body[B2][k])

\* e is b's own entry of a phi, for the value of one of b's instructions.
OwnEntry(g, b, e) ==
  /\ e.from = b
  /\ e.value = [at |-> b, n |-> e.value.n]
  /\ e.value.n \in DOMAIN g.body[b]
  /\ g.body[b][e.value.n].uses = "phi"

\* A value of a block that is merged is in that block's own entries only.
LEMMA ValueOfMerged ==
  ASSUME NEW g, WellFormedPhis(g), WellFormedUses(g), NEW B1, NEW B2, Mergeable(g, B1, B2),
         NEW s \in g.block, NEW k \in DOMAIN g.phi[s], NEW e \in ToSet(g.phi[s][k].entries),
         e.value.at = B1
  PROVE  OwnEntry(g, B1, e)
<1> DEFINE n == e.value.n
<1>1. /\ e.value = [at |-> B1, n |-> n]
      /\ n \in DOMAIN g.body[B1]
  BY DEF WellFormedPhis, Mergeable
<1>2. canMergeInstructions(g.body[B1][n], g.body[B2][n])
  BY <1>1 DEF Mergeable
<1>3. g.body[B1][n].uses \in {"none", "phi", "block"}
  BY <1>2 DEF canMergeInstructions, SameUses, canRemoveInst
<1>4. \/ g.body[B1][n].uses = "phi" /\ e.from = B1
      \/ g.body[B1][n].uses = "block" /\ s = B1
  BY <1>1, <1>3 DEF WellFormedUses, UsedAlone, Mergeable
<1>5. s # B1
  BY DEF Mergeable
<1> QED
  BY <1>1, <1>4, <1>5 DEF OwnEntry

\* e is b's entry, for a value of b.
Own(e, b) == e.from = b /\ e.value.at = b

\* Two blocks that merge have their values for a phi at the same place.
LEMMA SamePlace ==
  ASSUME NEW g, WellFormedPhis(g), WellFormedUses(g), NEW B1, NEW B2, Mergeable(g, B1, B2),
         NEW s \in g.block, NEW p, DOMAIN g.phi[s] = {p}, Succs(g, B2) = {s},
         NEW e1 \in ToSet(g.phi[s][p].entries), NEW e2 \in ToSet(g.phi[s][p].entries),
         Own(e1, B1), Own(e2, B2)
  PROVE  e1.value.n = e2.value.n
<1>0. OwnEntry(g, B1, e1)
  <2>1. p \in DOMAIN g.phi[s]
    OBVIOUS
  <2> QED
    BY <2>1, ValueOfMerged DEF Own
<1>1. PICK n \in DOMAIN g.body[B1] : n = e1.value.n /\ g.body[B1][n].uses = "phi"
  BY <1>0 DEF OwnEntry
<1>2. n \in DOMAIN g.body[B2] /\ canMergeInstructions(g.body[B1][n], g.body[B2][n])
  BY DEF Mergeable
<1>3. g.body[B2][n].uses \in {"phi", "block"}
  BY <1>1, <1>2 DEF canMergeInstructions, SameUses, canRemoveInst
<1>4. CASE g.body[B2][n].uses = "phi"
  <2>1. UsedByPhi(g, B2, n)
    BY <1>2 DEF WellFormedUses, Mergeable
  <2>2. PICK e \in ToSet(g.phi[s][p].entries) : e.from = B2 /\ e.value = [at |-> B2, n |-> n]
    BY <1>4, <2>1 DEF UsedByPhi
  <2>3. e.value = e2.value
    BY <2>2 DEF WellFormedPhis, Own
  <2>4. e1.value = [at |-> B1, n |-> e1.value.n]
    BY <1>0 DEF OwnEntry
  <2> QED
    BY <1>1, <2>2, <2>3, <2>4
<1>5. CASE g.body[B2][n].uses = "block"
  <2>1. UsedInBlock(g, B2, n) /\ g.phi[B2] = <<>>
    BY <1>2 DEF WellFormedUses, Mergeable
  <2>2. PICK j \in DOMAIN g.body[B2] : \A c \in g.block \ {B2} : \A i \in DOMAIN g.body[c] :
               g.body[c][i].what # g.body[B2][j].what
    BY <1>5, <2>1 DEF UsedInBlock
  <2>3. j \in DOMAIN g.body[B1] /\ g.body[B1][j].what = g.body[B2][j].what
    BY DEF Mergeable, canMergeInstructions
  <2> QED
    BY <2>2, <2>3 DEF Mergeable
<1> QED
  BY <1>3, <1>4, <1>5

-----------------------------------------------------------------------------
(* Merging keeps what a branch leads to.                                    *)

Merging ==
  /\ TypeOK /\ Shape /\ pc = "merge"
  /\ NoLikePhis(original) /\ Untouched /\ Moved

\* b1 may be merged into b2.
Candidates(b1, b2) == b1 \in f.block /\ Qualifies(b1) /\ b2 \in Duplicates(b1)

LEMMA CandidatesMerge ==
  ASSUME Merging, NEW b1, NEW b2, Candidates(b1, b2)
  PROVE  /\ Mergeable(original, b1, b2)
         /\ f.term[b1] = "br" /\ f.term[b2] = "br"
         /\ Len(f.succ[b1]) = 1 /\ f.succ[b1] = f.succ[b2]
         /\ f.succ[b1][1] \in f.block
<1>1. /\ original \in Functions /\ f.block = original.block
      /\ f.succ \in [f.block -> Seq(f.block)]
      /\ f.term = original.term /\ f.phi = original.phi /\ f.body = original.body
  BY DEF Merging, Shape, Untouched
<1>2. /\ b1 \in f.block /\ b2 \in f.block /\ b1 # b2
      /\ f.term[b1] = "br" /\ f.term[b2] = "br"
      /\ Len(f.succ[b1]) = 1 /\ Len(f.succ[b2]) = 1
      /\ f.succ[b1][1] \in ToSet(f.succ[b2])
      /\ Identical(b1, b2)
  BY DEF Candidates, Qualifies, Duplicates, OnlyLeadsOn, Preds, Succs
<1>3. f.succ[b1] \in Seq(f.block) /\ f.succ[b2] \in Seq(f.block)
  BY <1>1, <1>2
<1>4. DOMAIN f.succ[b1] = {1} /\ DOMAIN f.succ[b2] = {1}
  BY <1>2, <1>3, LenProperties
<1>5. f.succ[b1][1] = f.succ[b2][1]
  BY <1>2, <1>4 DEF ToSet
<1>6. f.succ[b1] = f.succ[b2]
  BY <1>2, <1>3, <1>4, <1>5, SeqEqual
<1>7. f.succ[b1][1] \in f.block
  BY <1>2, <1>3, ElementOfSeq
<1>8. Len(original.succ[b1]) = 1 /\ Len(original.succ[b2]) = 1
  BY <1>2 DEF Merging, Moved
<1>9. original.phi[b1] = <<>> /\ original.phi[b2] = <<>>
  BY <1>1, <1>2, <1>8 DEF Merging, NoLikePhis, Identical
<1>10. Mergeable(original, b1, b2)
  BY <1>1, <1>2, <1>9 DEF Mergeable, Identical
<1> QED
  BY <1>2, <1>6, <1>7, <1>10

\* A branch that leads to a block with phis is as in the original function.
LEMMA LeadsToPhis ==
  ASSUME Merging, NEW b \in f.block, NEW s, f.succ[b] \in Seq(f.block), Len(f.succ[b]) = 1,
         s = f.succ[b][1], DOMAIN f.phi[s] # {}
  PROVE  Succs(original, b) = {s} /\ Succs(f, b) = {s}
<1>1. Len(original.succ[b]) = 1 /\ Alike(original.succ[b][1], s)
  BY DEF Merging, Moved
<1>2. original.succ[b][1] = s
  BY <1>1 DEF Alike
<1>3. original.succ[b] \in Seq(original.block)
  BY FunctionsAssumption DEF Merging, Shape, WellFormed
<1>4. DOMAIN original.succ[b] = {1} /\ DOMAIN f.succ[b] = {1}
  BY <1>1, <1>3, LenProperties
<1> QED
  BY <1>2, <1>4 DEF Succs, ToSet

\* Candidates give the successor's phi the same values.
LEMMA CandidatesPhis ==
  ASSUME Merging, NEW b1, NEW b2, Candidates(b1, b2), NEW s, s = f.succ[b1][1]
  PROVE  SamePhis(s, b1, s, b2)
<1>1. /\ Mergeable(original, b1, b2)
      /\ Len(f.succ[b1]) = 1 /\ f.succ[b1] = f.succ[b2] /\ s \in f.block
  BY CandidatesMerge
<1>2. /\ WellFormedPhis(original) /\ WellFormedUses(original)
      /\ f.block = original.block /\ f.phi = original.phi
      /\ b1 \in f.block /\ b2 \in f.block
      /\ f.succ[b1] \in Seq(f.block) /\ f.succ[b2] \in Seq(f.block)
  BY <1>1, FunctionsAssumption DEF Merging, Shape, Untouched, WellFormed, Mergeable
<1> SUFFICES ASSUME NEW k \in DOMAIN original.phi[s]
             PROVE  \E e1 \in ToSet(original.phi[s][k].entries), e2 \in ToSet(f.phi[s][k].entries) :
                      e1.from = b1 /\ e2.from = b2 /\ Corresponds(e1.value, b1, e2.value, b2)
  BY <1>2 DEF SamePhis
<1>3. DOMAIN original.phi[s] = {1} /\ k = 1
  <2>1. Len(original.phi[s]) <= 1
    BY <1>2 DEF Candidates, Qualifies
  <2> QED
    BY <1>1, <1>2, <2>1 DEF WellFormedPhis
<1>4. Succs(original, b1) = {s} /\ Succs(original, b2) = {s}
  BY <1>1, <1>2, <1>3, LeadsToPhis
<1>5. b1 \in Preds(original, s) /\ b2 \in Preds(original, s)
  BY <1>2, <1>4 DEF Preds
<1>6. PICK e1 \in ToSet(original.phi[s][k].entries) : e1.from = b1
  BY <1>1, <1>2, <1>5 DEF WellFormedPhis
<1>7. PICK e2 \in ToSet(original.phi[s][k].entries) : e2.from = b2
  BY <1>1, <1>2, <1>5 DEF WellFormedPhis
<1>8. /\ getIncomingValueForBlock(original.phi[s][k], e1.from) = e1.value
      /\ getIncomingValueForBlock(original.phi[s][k], e2.from) = e2.value
  BY <1>1, <1>2, IncomingValue DEF WellFormedPhis
<1>9. ValuesMatch(original.phi[s][k], b1, b2)
  <2>1. original.phi[s] # <<>>
    BY <1>3
  <2> QED
    BY <1>2, <1>3, <2>1 DEF Candidates, Duplicates
<1>10. e1.value = e2.value \/ (e1.value.at = b1 /\ e2.value.at = b2)
  BY <1>6, <1>7, <1>8, <1>9 DEF ValuesMatch
<1>11. ASSUME e1.value.at = b1, e2.value.at = b2 PROVE e1.value.n = e2.value.n
  <2>1. DOMAIN original.phi[s] = {k} /\ s \in original.block
    BY <1>1, <1>2, <1>3
  <2>2. Own(e1, b1) /\ Own(e2, b2)
    BY <1>6, <1>7, <1>11 DEF Own
  <2> QED
    BY <1>1, <1>2, <1>4, <2>1, <2>2, SamePlace
<1>12. Corresponds(e1.value, b1, e2.value, b2)
  BY <1>10, <1>11 DEF Corresponds
<1> QED
  BY <1>2, <1>6, <1>7, <1>12

LEMMA CandidatesAlike ==
  ASSUME Merging, NEW b1, NEW b2, Candidates(b1, b2)
  PROVE  Alike(b1, b2)
<1>1. /\ Mergeable(original, b1, b2)
      /\ f.term[b1] = "br" /\ f.term[b2] = "br"
      /\ Len(f.succ[b1]) = 1 /\ f.succ[b1] = f.succ[b2]
  BY CandidatesMerge
<1>2. f.phi = original.phi /\ f.body = original.body
  BY DEF Merging, Untouched
<1>3. DOMAIN f.phi[b1] = {} /\ DOMAIN f.phi[b2] = {}
  BY <1>1, <1>2 DEF Mergeable
<1>4. [k \in DOMAIN f.body[b1] |-> f.body[b1][k].what]
        = [k \in DOMAIN f.body[b2] |-> f.body[b2][k].what]
  BY <1>1, <1>2 DEF Mergeable, canMergeInstructions
<1>5. SamePhis(f.succ[b1][1], b1, f.succ[b1][1], b2)
  BY CandidatesPhis
<1> QED
  BY <1>1, <1>3, <1>4, <1>5 DEF Alike

\* What is like b1 is like the block that b1 may be merged into: no phi has a
\* value of b1 for another block, as that value would be used twice.
LEMMA AlikeComposes ==
  ASSUME Merging, NEW b1, NEW b2, Candidates(b1, b2), NEW o, Alike(o, b1)
  PROVE  Alike(o, b2)
<1>1. CASE o = b1
  BY <1>1, CandidatesAlike
<1>2. CASE o # b1
  <2> DEFINE s == f.succ[b1][1]
  <2>1. /\ Mergeable(original, b1, b2) /\ b1 # b2 /\ s \in original.block
        /\ f.phi = original.phi
        /\ WellFormedPhis(original) /\ WellFormedUses(original)
    BY CandidatesMerge, FunctionsAssumption DEF Merging, Shape, Untouched, Mergeable, WellFormed
  <2>2. /\ f.term[o] = "br" /\ Len(f.succ[o]) = 1 /\ f.succ[o] = f.succ[b1]
        /\ DOMAIN f.phi[o] = {}
        /\ [k \in DOMAIN f.body[o] |-> f.body[o][k].what]
             = [k \in DOMAIN f.body[b1] |-> f.body[b1][k].what]
        /\ SamePhis(s, o, s, b1)
    BY <1>2 DEF Alike
  <2>3. /\ f.term[b2] = "br" /\ f.succ[b1] = f.succ[b2]
        /\ DOMAIN f.phi[b2] = {}
        /\ [k \in DOMAIN f.body[b1] |-> f.body[b1][k].what]
             = [k \in DOMAIN f.body[b2] |-> f.body[b2][k].what]
        /\ SamePhis(s, b1, s, b2)
    BY <2>1, CandidatesAlike DEF Alike
  <2> HIDE DEF s
  <2>4. SamePhis(s, o, s, b2)
    <3> SUFFICES ASSUME NEW k \in DOMAIN original.phi[s]
                 PROVE  \E e1 \in ToSet(original.phi[s][k].entries), e2 \in ToSet(f.phi[s][k].entries) :
                          e1.from = o /\ e2.from = b2 /\ Corresponds(e1.value, o, e2.value, b2)
      BY <2>1 DEF SamePhis
    <3> DEFINE entries == ToSet(original.phi[s][k].entries)
    <3>1. PICK e1 \in entries, e2 \in entries :
            e1.from = o /\ e2.from = b1 /\ Corresponds(e1.value, o, e2.value, b1)
      BY <2>1, <2>2 DEF SamePhis
    <3>2. PICK d2 \in entries, e3 \in entries :
            d2.from = b1 /\ e3.from = b2 /\ Corresponds(d2.value, b1, e3.value, b2)
      BY <2>1, <2>3 DEF SamePhis
    <3>3. d2.value = e2.value
      BY <2>1, <3>1, <3>2 DEF WellFormedPhis
    <3>4. e1.value.at # b1
      <4> SUFFICES ASSUME e1.value.at = b1 PROVE FALSE
        OBVIOUS
      <4>1. OwnEntry(original, b1, e1)
        BY <2>1, ValueOfMerged
      <4> QED
        BY <1>2, <3>1, <4>1 DEF OwnEntry
    <3>5. e3.value.at # b1
      <4> SUFFICES ASSUME e3.value.at = b1 PROVE FALSE
        OBVIOUS
      <4>1. OwnEntry(original, b1, e3)
        BY <2>1, ValueOfMerged
      <4> QED
        BY <2>1, <3>2, <4>1 DEF OwnEntry
    <3>6. Corresponds(e1.value, o, e3.value, b2)
      BY <3>1, <3>2, <3>3, <3>4, <3>5 DEF Corresponds
    <3> QED
      BY <2>1, <3>1, <3>2, <3>6
  <2> QED
    BY <2>2, <2>3, <2>4 DEF Alike, s
<1> QED
  BY <1>1, <1>2

\* Blocks that are alike stay so when the branches to b1 are moved.
LEMMA AlikeStays ==
  ASSUME Merging, NEW b1, NEW b2, Candidates(b1, b2), updateBranchTargets(b1, b2),
         original' = original, NEW x \in f.block, NEW y \in f.block, Alike(x, y)
  PROVE  Alike(x, y)'
<1>1. CASE x = y
  BY <1>1 DEF Alike
<1>2. CASE x # y
  <2>1. /\ Mergeable(original, b1, b2)
        /\ f.phi = original.phi /\ f.succ \in [f.block -> Seq(f.block)]
    BY CandidatesMerge DEF Merging, Shape, Untouched
  <2>2. /\ f'.term = f.term /\ f'.phi = f.phi /\ f'.body = f.body
        /\ f'.succ = [b \in f.block |->
             [k \in DOMAIN f.succ[b] |-> IF f.succ[b][k] = b1 THEN b2 ELSE f.succ[b][k]]]
    BY DEF updateBranchTargets, Merging, Shape
  <2>3. /\ f.term[x] = "br" /\ f.term[y] = "br"
        /\ Len(f.succ[x]) = 1 /\ f.succ[x] = f.succ[y]
        /\ DOMAIN f.phi[x] = {} /\ DOMAIN f.phi[y] = {}
        /\ [k \in DOMAIN f.body[x] |-> f.body[x][k].what]
             = [k \in DOMAIN f.body[y] |-> f.body[y][k].what]
        /\ SamePhis(f.succ[x][1], x, f.succ[x][1], y)
    BY <1>2 DEF Alike
  <2>4. f.succ[x] \in Seq(f.block) /\ DOMAIN f.succ[x] = {1} /\ f.succ[x][1] \in f.block
    BY <2>1, <2>3, LenProperties, ElementOfSeq
  <2>5. f'.succ[x] = [k \in {1} |-> IF f.succ[x][1] = b1 THEN b2 ELSE f.succ[x][1]]
    BY <2>2, <2>4
  <2>6. f'.succ[x] = f'.succ[y]
    BY <2>2, <2>3
  <2>7. Len(f'.succ[x]) = 1
    <3>1. f'.succ[x] = << IF f.succ[x][1] = b1 THEN b2 ELSE f.succ[x][1] >>
      BY <2>5
    <3> QED
      BY <3>1
  <2>8. SamePhis(f.succ[x][1], x, f.succ[x][1], y)'
    <3>1. CASE f.succ[x][1] = b1
      <4>1. f'.succ[x][1] = b2 /\ DOMAIN original.phi[b2] = {}
        BY <2>1, <2>5, <3>1 DEF Mergeable
      <4> QED
        BY <2>1, <2>2, <4>1 DEF SamePhis
    <3>2. CASE f.succ[x][1] # b1
      <4>1. PICK s : s = f.succ[x][1] /\ s = f'.succ[x][1]
        BY <2>5, <3>2
      <4>2. SamePhis(s, x, s, y)
        BY <2>3, <4>1
      <4>3. SamePhis(s, x, s, y)'
        BY <2>2, <4>2 DEF SamePhis
      <4> QED
        BY <4>1, <4>3
    <3> QED
      BY <3>1, <3>2
  <2> QED
    BY <2>2, <2>3, <2>6, <2>7, <2>8 DEF Alike
<1> QED
  BY <1>1, <1>2

LEMMA MergeKeepsSame == IInv /\ SameSoFar /\ Merge => SameSoFar'
<1> SUFFICES ASSUME IInv, SameSoFar, Merge, NoLikePhis(original), pc' = "merge"
             PROVE  Untouched' /\ Moved'
  BY DEF SameSoFar, Merge, NoLikePhis
<1>1. Merging
  BY DEF IInv, SameSoFar, Merge, Merging
<1>2. /\ original' = original /\ original \in Functions /\ f.block = original.block
      /\ f.order = original.order
      /\ f.succ \in [f.block -> Seq(f.block)]
      /\ original.succ \in [f.block -> Seq(f.block)]
  BY FunctionsAssumption DEF Merging, Shape, Merge, WellFormed, IInv
<1>3. PICK BB2 \in Duplicates(BB) : updateBranchTargets(BB, BB2)
  BY DEF Merge
<1>4. BB \in f.block
  <2>1. next \in DOMAIN f.order /\ f.order \in Seq(f.block)
    BY <1>2, FunctionsAssumption, LenProperties DEF Merge, IInv, TypeOK, WellFormed
  <2> QED
    BY <2>1, LenProperties, ElementOfSeq DEF BB
<1>5. Candidates(BB, BB2)
  BY <1>3, <1>4 DEF Candidates, Merge
<1>6. /\ f'.term = f.term /\ f'.phi = f.phi /\ f'.body = f.body /\ f'.block = f.block
      /\ f'.succ = [b \in f.block |->
           [k \in DOMAIN f.succ[b] |-> IF f.succ[b][k] = BB THEN BB2 ELSE f.succ[b][k]]]
  BY <1>3 DEF updateBranchTargets, Merging, Shape, IInv
<1>7. Untouched'
  BY <1>1, <1>2, <1>6 DEF Merging, Untouched
<1>8. ASSUME NEW b \in f.block
      PROVE  /\ Len(original.succ[b]) = Len(f'.succ[b])
             /\ \A k \in 1..Len(f'.succ[b]) : Alike(original.succ[b][k], f.succ[b][k])'
  <2>1. /\ f.succ[b] \in Seq(f.block) /\ original.succ[b] \in Seq(f.block)
        /\ Len(original.succ[b]) = Len(f.succ[b])
    BY <1>1, <1>2 DEF Merging, Moved
  <2>2. f'.succ[b] = [k \in 1..Len(f.succ[b]) |->
                        IF f.succ[b][k] = BB THEN BB2 ELSE f.succ[b][k]]
    <3>1. f'.succ[b] = [k \in DOMAIN f.succ[b] |->
                          IF f.succ[b][k] = BB THEN BB2 ELSE f.succ[b][k]]
      BY <1>6
    <3>2. DOMAIN f.succ[b] = 1..Len(f.succ[b])
      BY <2>1, LenProperties
    <3> QED
      BY <3>1, <3>2
  <2>3. Len(f'.succ[b]) = Len(f.succ[b])
    BY <2>1, <2>2, LenProperties
  <2>4. ASSUME NEW k \in 1..Len(f.succ[b])
        PROVE  Alike(original.succ[b][k], f.succ[b][k])'
    <3>1. /\ Alike(original.succ[b][k], f.succ[b][k])
          /\ original.succ[b][k] \in f.block /\ f.succ[b][k] \in f.block
      BY <1>1, <2>1, ElementOfSeq DEF Merging, Moved
    <3> DEFINE o == original.succ[b][k]
               t == f'.succ[b][k]
    <3>2. t \in f.block /\ Alike(o, t)
      <4>1. BB2 \in f.block
        BY <1>3, DuplicatesAreKept
      <4>2. CASE f.succ[b][k] = BB
        BY <1>1, <1>5, <2>2, <3>1, <4>1, <4>2, AlikeComposes
      <4>3. CASE f.succ[b][k] # BB
        BY <2>2, <3>1, <4>3
      <4> QED
        BY <4>2, <4>3
    <3>3. PICK y \in f.block : y = t /\ Alike(o, y)
      BY <3>2
    <3>4. Alike(o, y)'
      BY <1>1, <1>2, <1>3, <1>5, <3>1, <3>3, AlikeStays
    <3> QED
      BY <1>2, <3>3, <3>4
  <2> QED
    BY <2>1, <2>3, <2>4
<1>9. Moved'
  BY <1>2, <1>6, <1>8 DEF Moved
<1> QED
  BY <1>7, <1>9

-----------------------------------------------------------------------------
(* The function simulates the original one.                                 *)

\* Before the first deletion: a block simulates the blocks it is like.
LEMMA AlikeSimulates ==
  ASSUME Merging
  PROVE  Simulated
<1> DEFINE S == {p \in original.block \X f.block : Alike(p[1], p[2])}
<1>1. /\ WellFormedPhis(original)
      /\ f.block = original.block /\ f.entry = original.entry /\ original.entry \in original.block
      /\ f.term = original.term /\ f.phi = original.phi /\ f.body = original.body
      /\ f.succ \in [f.block -> Seq(f.block)]
      /\ original.succ \in [original.block -> Seq(original.block)]
  BY FunctionsAssumption DEF Merging, Shape, Untouched, WellFormed
<1>2. <<original.entry, f.entry>> \in S
  BY <1>1 DEF Alike
<1>3. ASSUME NEW b1 \in f.block, NEW b2 \in f.block, Alike(b1, b2)
      PROVE  SameWork(b1, b2) /\ Agree(S, b1, b2)
  <2>1. /\ f.succ[b1] \in Seq(f.block) /\ original.succ[b1] \in Seq(f.block)
        /\ Len(original.succ[b1]) = Len(f.succ[b1]) /\ f.succ[b1] = f.succ[b2]
        /\ f.term[b1] = f.term[b2]
        /\ [k \in DOMAIN f.body[b1] |-> f.body[b1][k].what]
             = [k \in DOMAIN f.body[b2] |-> f.body[b2][k].what]
    BY <1>1, <1>3 DEF Merging, Moved, Alike
  <2>2. SameWork(b1, b2)
    BY <1>1, <2>1 DEF SameWork
  <2>3. ASSUME NEW k \in DOMAIN original.succ[b1]
        PROVE  /\ <<original.succ[b1][k], f.succ[b2][k]>> \in S
               /\ SamePhis(original.succ[b1][k], b1, f.succ[b2][k], b2)
    <3>1. k \in 1..Len(f.succ[b1]) /\ DOMAIN f.succ[b1] = 1..Len(f.succ[b1])
      BY <2>1, LenProperties
    <3>2. PICK s1 \in f.block, s2 \in f.block :
            s1 = original.succ[b1][k] /\ s2 = f.succ[b1][k] /\ Alike(s1, s2)
      BY <2>1, <3>1, ElementOfSeq DEF Merging, Moved
    <3>3. SamePhis(s1, b1, s2, b2)
      <4>1. CASE s1 # s2
        <5>1. DOMAIN f.phi[s1] = {} /\ DOMAIN f.phi[s2] = {}
          BY <3>2, <4>1 DEF Alike
        <5> QED
          BY <1>1, <5>1 DEF SamePhis
      <4>2. CASE s1 = s2 /\ b1 = b2
        <5>1. b1 \in Preds(original, s1)
          BY <1>1, <3>2 DEF Preds, Succs, ToSet
        <5>2. \A i \in DOMAIN original.phi[s1] :
                \E e \in ToSet(original.phi[s1][i].entries) : e.from = b1
          BY <1>1, <5>1 DEF WellFormedPhis
        <5> QED
          BY <1>1, <4>2, <5>2 DEF SamePhis, Corresponds
      <4>3. CASE s1 = s2 /\ b1 # b2
        <5>1. Len(f.succ[b1]) = 1 /\ SamePhis(f.succ[b1][1], b1, f.succ[b1][1], b2)
          BY <1>3, <4>3 DEF Alike
        <5>2. k = 1
          BY <3>1, <5>1
        <5> QED
          BY <3>2, <4>3, <5>1, <5>2
      <4> QED
        BY <4>1, <4>2, <4>3
    <3>4. <<s1, s2>> \in S
      BY <1>1, <3>2
    <3> QED
      BY <2>1, <3>2, <3>3, <3>4
  <2>4. Agree(S, b1, b2)
    <3> HIDE DEF S
    <3> QED
      BY <2>3 DEF Agree
  <2> QED
    BY <2>2, <2>4
<1>4. Simulation(S)
  <2>1. ASSUME NEW p \in S PROVE SameWork(p[1], p[2]) /\ Agree(S, p[1], p[2])
    <3>1. p[1] \in f.block /\ p[2] \in f.block /\ Alike(p[1], p[2])
      BY <1>1
    <3> HIDE DEF S
    <3> QED
      BY <3>1, <1>3
  <2> HIDE DEF S
  <2> QED
    BY <2>1 DEF Simulation
<1>5. S \in SUBSET (original.block \X f.block)
  OBVIOUS
<1> HIDE DEF S
<1> QED
  BY <1>2, <1>4, <1>5 DEF Simulated

\* A deletion takes nothing from the pairs of the blocks that are left.
LEMMA DeleteKeepsSame == IInv /\ SameSoFar /\ Delete => SameSoFar'
<1> SUFFICES ASSUME IInv, SameSoFar, Delete, NoLikePhis(original)
             PROVE  Simulated'
  BY DEF SameSoFar, Delete, NoLikePhis
<1>1. Simulated
  <2>1. CASE pc = "merge"
    <3>1. Merging
      BY <2>1 DEF IInv, SameSoFar, Merging
    <3> QED
      BY <3>1, AlikeSimulates
  <2>2. CASE pc = "delete"
    BY <2>2 DEF SameSoFar
  <2> QED
    BY <2>1, <2>2 DEF Delete
<1>2. PICK S \in SUBSET (original.block \X f.block) :
        Simulation(S) /\ <<original.entry, f.entry>> \in S
  BY <1>1 DEF Simulated
<1>3. /\ original' = original /\ f.entry = original.entry
      /\ f.succ \in [f.block -> Seq(f.block)]
      /\ original.succ \in [original.block -> Seq(original.block)]
  BY FunctionsAssumption DEF Delete, IInv, Shape, WellFormed
<1>4. PICK b \in DOMAIN DeleteList \cap f.block :
        /\ f'.block = f.block \ {b} /\ f'.entry = f.entry
        /\ f'.term = f.term /\ f'.body = f.body
        /\ f'.succ = [x \in f.block \ {b} |-> f.succ[x]]
        /\ f'.phi = [x \in f.block \ {b} |-> [k \in DOMAIN f.phi[x] |->
             [uses    |-> f.phi[x][k].uses,
              entries |-> Restrict(f.phi[x][k].entries,
                            {n \in DOMAIN f.phi[x][k].entries : f.phi[x][k].entries[n].from # b})]]]
  BY DEF Delete, IInv, Shape
<1>5. Preds(f, b) = {} /\ b # original.entry
  BY <1>4 DEF IInv, NothingLeadsToDeleted, EntryKept
<1> DEFINE T == {p \in S : p[2] # b}
<1>6. ASSUME NEW s1, NEW b1, NEW s2 \in f.block \ {b}, NEW b2, b2 # b, SamePhis(s1, b1, s2, b2)
      PROVE  SamePhis(s1, b1, s2, b2)'
  <2>1. DOMAIN original.phi[s1] = DOMAIN f'.phi[s2]
    BY <1>4, <1>6 DEF SamePhis
  <2>2. ASSUME NEW k \in DOMAIN original.phi[s1]
        PROVE  \E e1 \in ToSet(original.phi[s1][k].entries), e2 \in ToSet(f'.phi[s2][k].entries) :
                 e1.from = b1 /\ e2.from = b2 /\ Corresponds(e1.value, b1, e2.value, b2)
    <3>1. PICK e1 \in ToSet(original.phi[s1][k].entries), e2 \in ToSet(f.phi[s2][k].entries) :
            e1.from = b1 /\ e2.from = b2 /\ Corresponds(e1.value, b1, e2.value, b2)
      BY <1>6 DEF SamePhis
    <3>2. PICK n \in DOMAIN f.phi[s2][k].entries : f.phi[s2][k].entries[n] = e2
      BY DEF ToSet
    <3>3. k \in DOMAIN f.phi[s2]
      BY <1>6 DEF SamePhis
    <3>4. f'.phi[s2][k].entries
            = Restrict(f.phi[s2][k].entries,
                {i \in DOMAIN f.phi[s2][k].entries : f.phi[s2][k].entries[i].from # b})
      <4>1. f'.phi[s2] = [i \in DOMAIN f.phi[s2] |->
              [uses    |-> f.phi[s2][i].uses,
               entries |-> Restrict(f.phi[s2][i].entries,
                 {m \in DOMAIN f.phi[s2][i].entries : f.phi[s2][i].entries[m].from # b})]]
        BY <1>4
      <4>2. f'.phi[s2][k] =
              [uses    |-> f.phi[s2][k].uses,
               entries |-> Restrict(f.phi[s2][k].entries,
                 {m \in DOMAIN f.phi[s2][k].entries : f.phi[s2][k].entries[m].from # b})]
        BY <3>3, <4>1
      <4> QED
        BY <4>2
    <3>5. n \in DOMAIN f'.phi[s2][k].entries /\ f'.phi[s2][k].entries[n] = e2
      BY <1>6, <3>1, <3>2, <3>4 DEF Restrict
    <3>6. e2 \in ToSet(f'.phi[s2][k].entries)
      BY <3>5 DEF ToSet
    <3> QED
      BY <3>1, <3>6
  <2> QED
    BY <1>3, <2>1, <2>2 DEF SamePhis, Corresponds
<1>7. ASSUME NEW p \in T PROVE SameWork(p[1], p[2])' /\ Agree(T, p[1], p[2])'
  <2>1. /\ p \in S /\ p[2] # b /\ p[1] \in original.block /\ p[2] \in f.block
        /\ SameWork(p[1], p[2]) /\ Agree(S, p[1], p[2])
    BY <1>2 DEF Simulation
  <2>2. f'.succ[p[2]] = f.succ[p[2]]
    BY <1>4, <2>1
  <2>3. SameWork(p[1], p[2])'
    BY <1>3, <1>4, <2>1, <2>2 DEF SameWork
  <2>4. ASSUME NEW k \in DOMAIN original.succ[p[1]]
        PROVE  /\ <<original.succ[p[1]][k], f'.succ[p[2]][k]>> \in T
               /\ SamePhis(original.succ[p[1]][k], p[1], f.succ[p[2]][k], p[2])'
    <3>1. /\ original.succ[p[1]] \in Seq(original.block) /\ f.succ[p[2]] \in Seq(f.block)
          /\ Len(original.succ[p[1]]) = Len(f.succ[p[2]])
      BY <1>3, <2>1 DEF SameWork
    <3>2. k \in 1..Len(f.succ[p[2]])
      BY <3>1, LenProperties
    <3>3. f.succ[p[2]][k] \in f.block /\ f.succ[p[2]][k] # b
      <4>1. f.succ[p[2]][k] \in f.block
        BY <3>1, <3>2, ElementOfSeq
      <4>2. p[2] \notin Preds(f, b)
        BY <1>5
      <4>3. \A i \in 1..Len(f.succ[p[2]]) : f.succ[p[2]][i] # b
        BY <2>1, <3>1, <4>2, Leads
      <4> QED
        BY <3>2, <4>1, <4>3
    <3>4. /\ <<original.succ[p[1]][k], f.succ[p[2]][k]>> \in S
          /\ SamePhis(original.succ[p[1]][k], p[1], f.succ[p[2]][k], p[2])
      BY <2>1 DEF Agree
    <3>5. PICK s1, s2 : s1 = original.succ[p[1]][k] /\ s2 = f.succ[p[2]][k]
      OBVIOUS
    <3>6. SamePhis(s1, p[1], s2, p[2])'
      BY <1>6, <2>1, <3>3, <3>4, <3>5
    <3> QED
      BY <1>3, <2>2, <3>3, <3>4, <3>5, <3>6
  <2>5. Agree(T, p[1], p[2])'
    <3> HIDE DEF T
    <3> QED
      BY <1>3, <2>2, <2>4 DEF Agree
  <2> QED
    BY <2>3, <2>5
<1>8. T \in SUBSET (original'.block \X f'.block)
  BY <1>2, <1>3, <1>4
<1>9. <<original'.entry, f'.entry>> \in T
  BY <1>2, <1>3, <1>4, <1>5
<1> HIDE DEF T
<1>10. Simulation(T)'
  BY <1>7 DEF Simulation
<1> QED
  BY <1>8, <1>9, <1>10 DEF Simulated

LEMMA InitiallySame == Init => SameSoFar
<1> SUFFICES ASSUME Init PROVE Untouched /\ Moved
  BY DEF SameSoFar, Init
<1> QED
  BY DEF Init, Untouched, Moved, Alike

\* Skip and Finish leave the function alone; what is finished was simulated,
\* or had nothing to delete.
LEMMA OthersKeepSame == IInv /\ SameSoFar /\ (Skip \/ Finish \/ UNCHANGED vars) => SameSoFar'
<1> SUFFICES ASSUME IInv, SameSoFar, Skip \/ Finish \/ UNCHANGED vars, NoLikePhis(original)
             PROVE  /\ pc' = "merge" => Untouched' /\ Moved'
                    /\ pc' \in {"delete", "done"} => Simulated'
  BY DEF SameSoFar, Skip, Finish, vars, NoLikePhis
<1>1. original' = original /\ f' = f
  BY DEF Skip, Finish, vars
<1>2. ASSUME NEW s1, NEW b1, NEW s2, NEW b2
      PROVE  SamePhis(s1, b1, s2, b2)' = SamePhis(s1, b1, s2, b2)
  BY <1>1 DEF SamePhis
<1>3. ASSUME NEW b1, NEW b2
      PROVE  SameWork(b1, b2)' = SameWork(b1, b2)
  BY <1>1 DEF SameWork
<1>4. ASSUME NEW S, NEW b1, NEW b2, Agree(S, b1, b2)
      PROVE  Agree(S, b1, b2)'
  BY <1>1, <1>2, <1>4 DEF Agree
<1>5. ASSUME Simulated PROVE Simulated'
  <2>1. PICK S \in SUBSET (original.block \X f.block) :
          Simulation(S) /\ <<original.entry, f.entry>> \in S
    BY <1>5 DEF Simulated
  <2>2. Simulation(S)'
    BY <1>3, <1>4, <2>1 DEF Simulation
  <2> QED
    BY <1>1, <2>1, <2>2 DEF Simulated
<1>6. ASSUME pc = "merge" PROVE Simulated
  <2>1. Merging
    BY <1>6 DEF IInv, SameSoFar, Merging
  <2> QED
    BY <2>1, AlikeSimulates
<1>7. ASSUME Untouched, Moved PROVE Untouched' /\ Moved'
  <2>1. ASSUME NEW b1, NEW b2, Alike(b1, b2) PROVE Alike(b1, b2)'
    BY <1>1, <1>2, <2>1 DEF Alike
  <2> QED
    BY <1>1, <1>7, <2>1 DEF Untouched, Moved
<1>8. /\ pc' = "merge" => pc = "merge"
      /\ pc' \in {"delete", "done"} => pc \in {"merge", "delete", "done"}
  BY DEF Skip, Finish, vars
<1> QED
  BY <1>5, <1>6, <1>7, <1>8 DEF SameSoFar

-----------------------------------------------------------------------------
(* The theorems.                                                            *)

THEOREM Invariance == Spec => []IInv
<1>1. IInv /\ [Next]_vars => IInv'
  <2> SUFFICES ASSUME IInv, [Next]_vars PROVE IInv'
    OBVIOUS
  <2>1. CASE Merge
    BY <2>1, MergeKeeps
  <2>2. CASE Delete
    BY <2>2, DeleteKeeps
  <2>3. CASE Skip \/ Finish \/ Halt \/ UNCHANGED vars
    BY <2>3, OthersKeep DEF Halt
  <2> QED
    BY <2>1, <2>2, <2>3 DEF Next
<1> QED
  BY Initially, <1>1, PTL DEF Spec

\* The function stays one: its branches lead to its own blocks after every
\* deletion, and its entry block is never deleted.
THEOREM TypeCorrect == Spec => []TypeOK
<1>1. IInv => TypeOK
  BY DEF IInv
<1> QED
  BY <1>1, Invariance, PTL

\* Nothing leads to a merged block, after every merge and every deletion, so
\* that DeleteDeadBlock finds what it asserts.
THEOREM DeletedBlocksAreDead == Spec => []NothingLeadsToDeleted
<1>1. IInv => NothingLeadsToDeleted
  BY DEF IInv
<1> QED
  BY <1>1, Invariance, PTL

\* Every merge moves a branch, as line 240 asserts, in every function whose
\* blocks other than the entry all have predecessors.
THEOREM MergesMoveBranches == Spec => []BranchTargetUpdated
<1>1. IInv => BranchTargetUpdated
  BY DEF IInv
<1> QED
  BY <1>1, Invariance, PTL

\* A function without two blocks whose phis pass for each other does what it
\* did, after every merge and in whatever order the merged blocks are deleted.
\* (Line 238: "It is safe to de-duplicate - do so.")
THEOREM BehaviourIsKept == Spec => [](NoLikePhis(original) => BehaviourKept)
<1>1. Init => IInv /\ SameSoFar
  BY Initially, InitiallySame
<1>2. IInv /\ SameSoFar /\ [Next]_vars => (IInv /\ SameSoFar)'
  <2> SUFFICES ASSUME IInv, SameSoFar, [Next]_vars PROVE (IInv /\ SameSoFar)'
    OBVIOUS
  <2>1. CASE Merge
    BY <2>1, MergeKeeps, MergeKeepsSame
  <2>2. CASE Delete
    BY <2>2, DeleteKeeps, DeleteKeepsSame
  <2>3. CASE Skip \/ Finish \/ Halt \/ UNCHANGED vars
    BY <2>3, OthersKeep, OthersKeepSame DEF Halt
  <2> QED
    BY <2>1, <2>2, <2>3 DEF Next
<1>3. IInv /\ SameSoFar => (NoLikePhis(original) => BehaviourKept)
  <2> SUFFICES ASSUME IInv, SameSoFar, NoLikePhis(original), pc # "assert"
               PROVE  <<original.entry, f.entry>> \in Bisimilar
    BY DEF BehaviourKept
  <2>1. Simulated
    <3>1. CASE pc = "merge"
      <4>1. Merging
        BY <3>1 DEF IInv, SameSoFar, Merging
      <4> QED
        BY <4>1, AlikeSimulates
    <3>2. CASE pc \in {"delete", "done"}
      BY <3>2 DEF SameSoFar
    <3> QED
      BY <3>1, <3>2 DEF IInv, TypeOK
  <2>2. IsFiniteSet(original.block) /\ f.block \subseteq original.block
    BY FunctionsAssumption DEF IInv, TypeOK, Shape, WellFormed
  <2>3. IsFiniteSet(f.block)
    BY <2>2, FS_Subset
  <2> QED
    BY <2>1, <2>2, <2>3, SimulatedIsBisimilar
<1> QED
  BY <1>1, <1>2, <1>3, PTL DEF Spec
=============================================================================
