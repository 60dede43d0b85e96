-------------------------- MODULE PhiToSelectProofs --------------------------
(* The replacement of a phi by selects, for every phi, every function and   *)
(* every order of the blocks in memory. The groups of operands the map still *)
(* tells apart are the classes of an equivalence, which an iteration coarsens *)
(* by one union; the highest block of each is the one that is asked for next, *)
(* and what stands for it has the value of the operand control comes from.   *)
EXTENDS PhiToSelect, Facts

-----------------------------------------------------------------------------
(* Dominators: a partial order, in which the dominators of a block are a      *)
(* chain.                                                                     *)

\* A function whose blocks are all reached, and its dominators.
Tree(f) == /\ Graph(f) /\ f.entry \in f.block /\ Reachable(f) = f.block
           /\ f.dom = DominatorsOf(f)

Without(f, d) == ReachAvoiding(f, {f.entry}, {d})

LEMMA DomIs ==
  ASSUME NEW f, Tree(f), NEW b \in f.block
  PROVE  /\ f.dom[b] \subseteq f.block
         /\ \A d \in f.block : d \in f.dom[b] <=> b \notin Without(f, d)
BY DEF Tree, DominatorsOf, Without

\* Avoiding a block, control stays among the blocks found or comes to it.
LEMMA WithoutIs ==
  ASSUME NEW f, Tree(f), NEW d \in f.block
  PROVE  /\ Without(f, d) \subseteq f.block /\ d \notin Without(f, d)
         /\ f.entry = d \/ f.entry \in Without(f, d)
         /\ \A b \in Without(f, d) : \A s \in SuccSet(f, b) : s \in Without(f, d) \/ s = d
<1>1. {f.entry} \in SUBSET f.block /\ Graph(f)
  BY DEF Tree
<1>2. /\ Without(f, d) \subseteq f.block
      /\ \A b \in Without(f, d) : b \notin {d}
      /\ \A b \in {f.entry} : b \in {d} \/ b \in Without(f, d)
      /\ Closed(f, Without(f, d), {d})
  BY <1>1, ReachIs DEF Without
<1> QED
  BY <1>2 DEF Closed

\* What holds the entry and is not left holds every block.
LEMMA AllBlocks ==
  ASSUME NEW f, Tree(f), NEW T, f.entry \in T,
         \A b \in T : b \in f.block => \A s \in SuccSet(f, b) : s \in T
  PROVE  f.block \subseteq T
<1>1. ReachAvoiding(f, {f.entry}, {}) \subseteq T
  <2>1. {f.entry} \in SUBSET f.block /\ Graph(f) /\ \A b \in {f.entry} : b \in {} \/ b \in T
    BY DEF Tree
  <2>2. \A b \in T : b \in f.block /\ b \notin {} => \A s \in SuccSet(f, b) : s \in T \/ s \in {}
    OBVIOUS
  <2> QED
    BY <2>1, <2>2, ReachLeast
<1> QED
  BY <1>1 DEF Tree, Reachable

LEMMA DomSelf ==
  ASSUME NEW f, Tree(f), NEW b \in f.block
  PROVE  b \in f.dom[b] /\ f.entry \in f.dom[b]
<1>1. b \in f.dom[b]
  BY DomIs, WithoutIs
<1>2. Without(f, f.entry) = {}
  BY NowhereFrom DEF Tree, Without
<1> QED
  BY <1>1, <1>2, DomIs DEF Tree

LEMMA DomTransitive ==
  ASSUME NEW f, Tree(f), NEW b \in f.block, NEW d \in f.dom[b]
  PROVE  f.dom[d] \subseteq f.dom[b]
<1>1. d \in f.block /\ f.dom[d] \subseteq f.block /\ b \notin Without(f, d)
  BY DomIs
<1> SUFFICES ASSUME NEW e \in f.dom[d], e \notin f.dom[b] PROVE FALSE
  OBVIOUS
<1>2. e \in f.block /\ b \in Without(f, e) /\ d \notin Without(f, e)
  BY <1>1, DomIs
<1> DEFINE T == Without(f, d) \cap Without(f, e)
<1>3. \A x \in {f.entry} : x \in {e} \/ x \in T
  BY <1>1, <1>2, WithoutIs
<1>4. \A x \in T : x \in f.block /\ x \notin {e} => \A s \in SuccSet(f, x) : s \in T \/ s \in {e}
  BY <1>1, <1>2, WithoutIs
<1>5. Without(f, e) \subseteq T
  <2>1. {f.entry} \in SUBSET f.block /\ Graph(f)
    BY DEF Tree
  <2> HIDE DEF T
  <2> QED
    BY <1>3, <1>4, <2>1, ReachLeast DEF Without
<1> QED
  BY <1>1, <1>2, <1>5

LEMMA DomAntisymmetric ==
  ASSUME NEW f, Tree(f), NEW b \in f.block, NEW d \in f.dom[b], b \in f.dom[d]
  PROVE  b = d
<1> SUFFICES ASSUME b # d PROVE FALSE
  OBVIOUS
<1>1. d \in f.block /\ b \notin Without(f, d) /\ d \notin Without(f, b)
  BY DomIs
<1> DEFINE T == Without(f, b) \cap Without(f, d)
<1>2. f.entry \in T
  BY <1>1, WithoutIs
<1>3. \A x \in T : x \in f.block => \A s \in SuccSet(f, x) : s \in T
  BY <1>1, WithoutIs
<1>4. f.block \subseteq T
  <2> HIDE DEF T
  <2> QED
    BY <1>2, <1>3, AllBlocks
<1> QED
  BY <1>1, <1>4

LEMMA DomChain ==
  ASSUME NEW f, Tree(f), NEW b \in f.block, NEW d \in f.dom[b], NEW e \in f.dom[b]
  PROVE  d \in f.dom[e] \/ e \in f.dom[d]
<1>1. d \in f.block /\ e \in f.block /\ b \notin Without(f, d) /\ b \notin Without(f, e)
  BY DomIs
<1> SUFFICES ASSUME e \in Without(f, d), d \in Without(f, e) PROVE FALSE
  BY <1>1, DomIs
<1> DEFINE T == Without(f, d) \cup Without(f, e)
<1>2. f.entry \in T
  BY <1>1, WithoutIs
<1>3. \A x \in T : x \in f.block => \A s \in SuccSet(f, x) : s \in T
  BY <1>1, WithoutIs
<1>4. f.block \subseteq T
  <2> HIDE DEF T
  <2> QED
    BY <1>2, <1>3, AllBlocks
<1> QED
  BY <1>1, <1>4

-----------------------------------------------------------------------------
(* The nearest common dominator.                                              *)

LEMMA NearestIs ==
  ASSUME NEW f, Tree(f), NEW a \in f.block, NEW b \in f.block
  PROVE  /\ NearestCommonDominator(f, a, b) \in f.block
         /\ f.dom[NearestCommonDominator(f, a, b)] = f.dom[a] \cap f.dom[b]
<1> DEFINE C == f.dom[a] \cap f.dom[b]
           n(d) == Cardinality(f.block) - Cardinality(f.dom[d])
           T == {n(d) : d \in C}
<1>1. C \subseteq f.block /\ f.entry \in C /\ \A d \in C : f.dom[d] \subseteq f.block
  BY DomIs, DomSelf
<1>2. \A d \in C : IsFiniteSet(f.dom[d]) /\ Cardinality(f.dom[d]) \in Nat /\ n(d) \in Nat
  <2>1. IsFiniteSet(f.block) /\ Cardinality(f.block) \in Nat
    BY FS_CardinalityType DEF Tree, Graph
  <2>2. \A d \in C : /\ IsFiniteSet(f.dom[d]) /\ Cardinality(f.dom[d]) \in Nat
                     /\ Cardinality(f.dom[d]) <= Cardinality(f.block)
    BY <1>1, <2>1, FS_Subset, FS_CardinalityType
  <2> QED
    BY <2>1, <2>2
<1>3. T \in SUBSET Nat /\ T # {}
  BY <1>1, <1>2
<1>4. PICK t \in T : \A u \in T : t <= u
  <2> HIDE DEF T
  <2> QED
    BY <1>3, LeastNat
<1>5. PICK d \in C : t = n(d)
  OBVIOUS
<1>6. \A e \in C : Cardinality(f.dom[e]) <= Cardinality(f.dom[d])
  <2> SUFFICES ASSUME NEW e \in C PROVE Cardinality(f.dom[e]) <= Cardinality(f.dom[d])
    OBVIOUS
  <2>1. n(d) <= n(e)
    BY <1>4, <1>5
  <2>2. Cardinality(f.block) \in Nat
    BY FS_CardinalityType DEF Tree, Graph
  <2> HIDE DEF C
  <2> QED
    BY <1>2, <2>1, <2>2
<1>7. ASSUME NEW e \in C PROVE e \in f.dom[d]
  <2>1. d \in f.dom[e] \/ e \in f.dom[d]
    BY <1>1, DomChain
  <2>2. CASE d \in f.dom[e]
    <3>1. f.dom[d] \subseteq f.dom[e]
      BY <1>1, <2>2, DomTransitive
    <3>2. Cardinality(f.dom[d]) <= Cardinality(f.dom[e]) /\ (Cardinality(f.dom[d]) = Cardinality(f.dom[e]) => f.dom[d] = f.dom[e])
      BY <1>2, <3>1, FS_Subset
    <3>3. f.dom[d] = f.dom[e]
      BY <1>2, <1>6, <3>2
    <3> QED
      BY <1>1, <3>3, DomSelf
  <2> QED
    BY <2>1, <2>2
<1> DEFINE c == NearestCommonDominator(f, a, b)
<1>8. c \in C /\ C \subseteq f.dom[c]
  <2>1. \E x \in f.dom[a] \cap f.dom[b] : f.dom[a] \cap f.dom[b] \subseteq f.dom[x]
    BY <1>7
  <2> QED
    BY <2>1 DEF NearestCommonDominator
<1>9. f.dom[c] \subseteq C
  BY <1>8, DomTransitive
<1> QED
  BY <1>1, <1>8, <1>9

-----------------------------------------------------------------------------
(* The branches that tell operands apart.                                     *)

LEMMA PhiIs ==
  ASSUME NEW p, WellFormedPhi(p)
  PROVE  /\ Tree(p.g) /\ \A i \in Incoming(p) : p.inc[i] \in p.g.block
         /\ Len(p.inc) \in Nat /\ Incoming(p) \subseteq Nat \ {0}
<1>1. Graph(p.g)
  <2>1. WellFormed(p.g) /\ IsFiniteSet(p.g.block)
    BY DEF WellFormedPhi
  <2>2. \A b \in p.g.block : SuccSet(p.g, b) \subseteq p.g.block
    BY <2>1, Successors
  <2> QED
    BY <2>1, <2>2 DEF Graph
<1>2. p.g.entry \in p.g.block /\ Reachable(p.g) = p.g.block /\ p.g.dom = DominatorsOf(p.g)
      /\ p.inc \in Seq(p.g.block)
  BY DEF WellFormedPhi, WellFormed
<1> QED
  BY <1>1, <1>2 DEF Tree, Incoming

\* The branch of i and j is dominated by what dominates both.
LEMMA BranchIs ==
  ASSUME NEW p, WellFormedPhi(p), NEW i \in Incoming(p), NEW j \in Incoming(p)
  PROVE  /\ Branch(p, i, j) \in p.g.block
         /\ p.g.dom[Branch(p, i, j)] = p.g.dom[p.inc[i]] \cap p.g.dom[p.inc[j]]
         /\ Branch(p, i, j) \in p.g.dom[p.inc[i]] \cap p.g.dom[p.inc[j]]
<1>1. Tree(p.g) /\ p.inc[i] \in p.g.block /\ p.inc[j] \in p.g.block
  BY PhiIs
<1>2. /\ Branch(p, i, j) \in p.g.block
      /\ p.g.dom[Branch(p, i, j)] = p.g.dom[p.inc[i]] \cap p.g.dom[p.inc[j]]
  BY <1>1, NearestIs DEF Branch
<1> QED
  BY <1>1, <1>2, DomSelf

LEMMA SameDominators ==
  ASSUME NEW f, Tree(f), NEW a \in f.block, NEW b \in f.block, f.dom[a] = f.dom[b]
  PROVE  a = b
<1>1. a \in f.dom[b] /\ b \in f.dom[a]
  BY DomSelf
<1> QED
  BY <1>1, DomAntisymmetric

LEMMA BranchSymmetric ==
  ASSUME NEW p, WellFormedPhi(p), NEW i \in Incoming(p), NEW j \in Incoming(p)
  PROVE  Branch(p, i, j) = Branch(p, j, i)
<1>1. /\ p.g.dom[Branch(p, i, j)] = p.g.dom[p.inc[i]] \cap p.g.dom[p.inc[j]]
      /\ p.g.dom[Branch(p, j, i)] = p.g.dom[p.inc[j]] \cap p.g.dom[p.inc[i]]
  BY BranchIs
<1>2. p.g.dom[Branch(p, i, j)] = p.g.dom[Branch(p, j, i)]
  BY <1>1
<1> QED
  BY <1>2, BranchIs, PhiIs, SameDominators

\* Of the three branches of three operands the upper two are the same.
LEMMA Triangle ==
  ASSUME NEW p, WellFormedPhi(p),
         NEW i \in Incoming(p), NEW j \in Incoming(p), NEW k \in Incoming(p)
  PROVE  LET ij == Branch(p, i, j)
             jk == Branch(p, j, k)
             ik == Branch(p, i, k)
         IN  /\ Dominates(p.g, ij, jk) \/ Dominates(p.g, jk, ij)
             /\ Dominates(p.g, ij, jk) => Dominates(p.g, ij, ik) /\ (ij = jk \/ ik = ij)
<1> DEFINE ij == Branch(p, i, j)
           jk == Branch(p, j, k)
           ik == Branch(p, i, k)
           D(x) == p.g.dom[p.inc[x]]
<1>1. /\ Tree(p.g) /\ p.inc[i] \in p.g.block /\ p.inc[j] \in p.g.block /\ p.inc[k] \in p.g.block
      /\ ij \in p.g.block /\ jk \in p.g.block /\ ik \in p.g.block
      /\ ij \in D(j) /\ jk \in D(j) /\ ik \in D(k) /\ jk \in D(k)
      /\ p.g.dom[ij] = D(i) \cap D(j) /\ p.g.dom[jk] = D(j) \cap D(k) /\ p.g.dom[ik] = D(i) \cap D(k)
  BY PhiIs, BranchIs
<1> HIDE DEF ij, jk, ik
<1>2. ij \in p.g.dom[jk] \/ jk \in p.g.dom[ij]
  BY <1>1, DomChain
<1>3. ik \in p.g.dom[jk] \/ jk \in p.g.dom[ik]
  BY <1>1, DomChain
<1>4. ASSUME ij \in p.g.dom[jk] PROVE ij \in p.g.dom[ik] /\ (ij = jk \/ ik = ij)
  <2>1. p.g.dom[ij] \subseteq p.g.dom[jk] /\ ij \in p.g.dom[ij]
    BY <1>1, <1>4, DomTransitive, DomSelf
  <2>2. p.g.dom[ij] \subseteq p.g.dom[ik]
    BY <1>1, <2>1
  <2>3. CASE ik \in p.g.dom[jk]
    <3>1. p.g.dom[ik] \subseteq p.g.dom[jk]
      BY <1>1, <2>3, DomTransitive
    <3>2. p.g.dom[ik] = p.g.dom[ij]
      BY <1>1, <2>2, <3>1
    <3> QED
      BY <1>1, <2>1, <2>2, <3>2, SameDominators
  <2>4. CASE jk \in p.g.dom[ik]
    <3>1. p.g.dom[jk] \subseteq p.g.dom[ik]
      BY <1>1, <2>4, DomTransitive
    <3>2. p.g.dom[jk] = p.g.dom[ij]
      BY <1>1, <2>1, <3>1
    <3> QED
      BY <1>1, <2>1, <2>2, <3>2, SameDominators
  <2> QED
    BY <1>3, <2>3, <2>4
<1> QED
  BY <1>2, <1>4 DEF Dominates, ij, jk, ik

\* A branch has two sides: it does not tell three operands apart.
LEMMA Binary ==
  ASSUME NEW p, Separated(p),
         NEW i \in Incoming(p), NEW j \in Incoming(p), NEW k \in Incoming(p),
         i # j, j # k, i # k,
         Branch(p, i, j) = Branch(p, j, k)
  PROVE  Branch(p, i, k) # Branch(p, i, j)
<1> SUFFICES ASSUME Branch(p, i, k) = Branch(p, i, j) PROVE FALSE
  OBVIOUS
<1> DEFINE d == Branch(p, i, j)
           Apart(x, y) == \E s, t \in {1, 2} : /\ x \in From(p, d, s) \ From(p, d, t)
                                                /\ y \in From(p, d, t) \ From(p, d, s)
<1>1. Apart(i, j) /\ Apart(j, k) /\ Apart(i, k)
  BY DEF Separated
<1> HIDE DEF d
<1> QED
  BY <1>1
-----------------------------------------------------------------------------
(* Groups: operands none of whose pairs with each other is left in the map.   *)
(* The map's pairs are closed upwards; while it is so the groups are those of *)
(* an equivalence, and the pairs of a lowest branch are those of a member of  *)
(* one group and a member of another.                                         *)

Above(p, ij, xy) == Dominates(p.g, Branch(p, ij[1], ij[2]), Branch(p, xy[1], xy[2]))

Upward(p, M) ==
  M \subseteq Pairs(p) /\ \A ij \in M : \A xy \in Pairs(p) : Above(p, xy, ij) => xy \in M

SameBranch(p, ij, xy) == Branch(p, ij[1], ij[2]) = Branch(p, xy[1], xy[2])

\* No pair of M has a branch below that of t.
Lowest(p, M, t) == t \in M /\ \A xy \in M : Above(p, t, xy) => SameBranch(p, xy, t)

Left(p, M, t) == {xy \in M : ~SameBranch(p, xy, t)}

Together(M, i, j) == <<i, j>> \notin M /\ <<j, i>> \notin M

LEMMA PairIs ==
  ASSUME NEW p, NEW i \in Incoming(p), NEW j \in Incoming(p)
  PROVE  /\ i < j => <<i, j>> \in Pairs(p)
         /\ <<i, j>> \in Pairs(p) => i < j
         /\ i \in Nat /\ j \in Nat
BY DEF Pairs, Incoming

LEMMA AboveSelf ==
  ASSUME NEW p, WellFormedPhi(p), NEW i \in Incoming(p), NEW j \in Incoming(p)
  PROVE  Dominates(p.g, Branch(p, i, j), Branch(p, i, j))
BY BranchIs, PhiIs, DomSelf DEF Dominates

\* Whether the pair of two operands is in the map is a matter of their branch.
LEMMA TogetherBelow ==
  ASSUME NEW p, WellFormedPhi(p), NEW M, Upward(p, M),
         NEW i \in Incoming(p), NEW j \in Incoming(p), Together(M, i, j),
         NEW x \in Incoming(p), NEW y \in Incoming(p), i # j,
         Dominates(p.g, Branch(p, i, j), Branch(p, x, y))
  PROVE  Together(M, x, y)
<1> SUFFICES ASSUME NEW xy \in M, xy = <<x, y>> \/ xy = <<y, x>> PROVE FALSE
  BY DEF Together
<1>1. PICK ij \in Pairs(p) : ij = <<i, j>> \/ ij = <<j, i>>
  <2>1. i < j \/ j < i
    BY DEF Incoming
  <2> QED
    BY <2>1, PairIs
<1>2. Branch(p, ij[1], ij[2]) = Branch(p, i, j) /\ Branch(p, xy[1], xy[2]) = Branch(p, x, y)
  BY <1>1, BranchSymmetric
<1>3. ij \in M
  BY <1>1, <1>2 DEF Upward, Above
<1> QED
  BY <1>1, <1>3 DEF Together

LEMMA TogetherSelf ==
  ASSUME NEW p, NEW M, Upward(p, M), NEW i \in Incoming(p)
  PROVE  Together(M, i, i)
BY PairIs DEF Together, Upward

LEMMA TogetherTransitive ==
  ASSUME NEW p, WellFormedPhi(p), NEW M, Upward(p, M),
         NEW i \in Incoming(p), NEW j \in Incoming(p), NEW k \in Incoming(p),
         Together(M, i, j), Together(M, j, k)
  PROVE  Together(M, i, k)
<1>1. CASE i = j \/ j = k
  BY <1>1
<1>2. CASE i # j /\ j # k
  <2>1. CASE Dominates(p.g, Branch(p, i, j), Branch(p, j, k))
    BY <1>2, <2>1, Triangle, TogetherBelow
  <2>2. CASE Dominates(p.g, Branch(p, j, k), Branch(p, i, j))
    <3>1. Branch(p, k, j) = Branch(p, j, k) /\ Branch(p, j, i) = Branch(p, i, j) /\ Branch(p, k, i) = Branch(p, i, k)
      BY BranchSymmetric
    <3>2. Dominates(p.g, Branch(p, j, k), Branch(p, i, k))
      BY <2>2, <3>1, Triangle
    <3> QED
      BY <1>2, <3>2, TogetherBelow
  <2> QED
    BY <2>1, <2>2, Triangle
<1> QED
  BY <1>1, <1>2

\* The pairs of a lowest branch: one operand with i, the other with j.
LEMMA Parted ==
  ASSUME NEW p, WellFormedPhi(p), NEW M, Upward(p, M),
         NEW t \in M, Lowest(p, M, t),
         NEW x \in Incoming(p), NEW y \in Incoming(p),
         Together(M, x, t[1]), Together(M, y, t[2])
  PROVE  Branch(p, x, y) = Branch(p, t[1], t[2]) /\ x # y
<1> DEFINE i == t[1]
           j == t[2]
           d == Branch(p, i, j)
<1>1. i \in Incoming(p) /\ j \in Incoming(p) /\ t = <<i, j>> /\ i < j /\ ~Together(M, i, j)
  BY DEF Upward, Pairs, Together
<1>2. \A u \in Incoming(p), v \in Incoming(p) : Branch(p, u, v) = Branch(p, v, u)
  BY BranchSymmetric
<1>3. ASSUME NEW u \in Incoming(p), NEW v \in Incoming(p), NEW w \in Incoming(p),
             u # v, Together(M, u, v), ~Together(M, v, w), Branch(p, v, w) = d
      PROVE  Branch(p, u, w) = d /\ u # w
  <2>1. ~Dominates(p.g, Branch(p, u, v), Branch(p, v, w))
    BY <1>3, TogetherBelow
  <2>2. Dominates(p.g, Branch(p, v, w), Branch(p, u, v))
    BY <2>1, Triangle
  <2>3. Branch(p, w, v) = d /\ Branch(p, v, u) = Branch(p, u, v) /\ Branch(p, w, u) = Branch(p, u, w)
    BY <1>2, <1>3
  <2>4. Branch(p, u, v) # d
    BY <1>3, <2>1, <2>2
  <2>5. Branch(p, w, u) = d
    <3>1. Dominates(p.g, Branch(p, w, v), Branch(p, v, u)) /\ Branch(p, w, v) # Branch(p, v, u)
      BY <1>3, <2>2, <2>3, <2>4
    <3> QED
      BY <2>3, <3>1, Triangle
  <2>6. u # w
    BY <1>3, TogetherSelf DEF Together
  <2> QED
    BY <2>3, <2>5, <2>6
<1>4. Branch(p, x, j) = d /\ ~Together(M, x, j)
  <2>1. CASE x = i
    BY <1>1, <2>1
  <2>2. CASE x # i
    <3>1. Branch(p, x, j) = d
      BY <1>1, <1>3, <2>2
    <3>2. Together(M, i, x)
      BY DEF Together
    <3>3. ~Together(M, x, j)
      BY <1>1, <3>2, TogetherTransitive
    <3> QED
      BY <3>1, <3>3
  <2> QED
    BY <2>1, <2>2
<1>5. Branch(p, y, x) = d /\ y # x
  <2>1. Branch(p, j, x) = d /\ ~Together(M, j, x)
    BY <1>1, <1>2, <1>4 DEF Together
  <2>2. CASE y = j
    BY <1>1, <1>4, <2>1, <2>2
  <2>3. CASE y # j
    BY <1>1, <1>3, <2>1, <2>3
  <2> QED
    BY <2>2, <2>3
<1> QED
  BY <1>1, <1>2, <1>5

\* What is below a lowest branch is with one of its two operands.
LEMMA OneOfTwo ==
  ASSUME NEW p, WellFormedPhi(p), Separated(p), NEW M, Upward(p, M),
         NEW t \in M, Lowest(p, M, t), NEW x \in Incoming(p),
         Dominates(p.g, Branch(p, t[1], t[2]), Branch(p, x, t[1]))
  PROVE  Together(M, x, t[1]) \/ Together(M, x, t[2])
<1> DEFINE i == t[1]
           j == t[2]
           d == Branch(p, i, j)
<1>1. i \in Incoming(p) /\ j \in Incoming(p) /\ t = <<i, j>> /\ i < j
  BY DEF Upward, Pairs
<1>2. \A u \in Incoming(p), v \in Incoming(p) : Branch(p, u, v) = Branch(p, v, u)
  BY BranchSymmetric
<1>3. ASSUME NEW v \in Incoming(p), ~Together(M, x, v), Dominates(p.g, d, Branch(p, x, v))
      PROVE  Branch(p, x, v) = d
  <2>1. PICK xy \in M : xy = <<x, v>> \/ xy = <<v, x>>
    BY <1>3 DEF Together
  <2>2. Branch(p, xy[1], xy[2]) = Branch(p, x, v)
    BY <1>2, <2>1
  <2> QED
    BY <1>3, <2>2 DEF Lowest, Above, SameBranch
<1> SUFFICES ASSUME ~Together(M, x, i), ~Together(M, x, j) PROVE FALSE
  OBVIOUS
<1>4. Branch(p, x, i) = d
  BY <1>1, <1>3
<1>5. Dominates(p.g, d, Branch(p, x, j))
  BY <1>1, <1>4, AboveSelf, Triangle
<1>6. Branch(p, x, j) = d
  BY <1>1, <1>3, <1>5
<1>7. i # x /\ x # j /\ i # j
  BY <1>1, TogetherSelf, PairIs
<1>8. Branch(p, i, x) = d /\ Branch(p, x, j) = d /\ Branch(p, i, j) = d
  BY <1>1, <1>2, <1>4, <1>6
<1> QED
  BY <1>1, <1>7, <1>8, Binary
-----------------------------------------------------------------------------
(* The search: one pass over the map ends with a lowest pair, and of those    *)
(* with its branch with the last in the map's order.                          *)

\* Numbers of two digits are in the order of the digits.
LEMMA TwoDigits ==
  ASSUME NEW n \in Nat, NEW a \in 0..(n - 1), NEW b \in 0..(n - 1),
         NEW c \in 0..(n - 1), NEW d \in 0..(n - 1)
  PROVE  /\ n * a + b \in Nat /\ n * a + b < n * n
         /\ n * a + b = n * c + d => a = c /\ b = d
<1>1. a \in Int /\ b \in Int /\ c \in Int /\ d \in Int /\ n \in Int /\ n >= 1
  OBVIOUS
<1>2. \A x \in Int : x >= 1 => n * x >= n
  BY <1>1
<1>3. n * a + b < n * n /\ n * a >= 0
  <2>1. n * (n - a) >= n
    BY <1>1, <1>2
  <2>2. n * (n - a) = n * n - n * a
    BY <1>1
  <2>3. n * a \in Int /\ n * n \in Int /\ n * a >= 0
    BY <1>1
  <2> QED
    BY <1>1, <2>1, <2>2, <2>3
<1>4. ASSUME n * a + b = n * c + d PROVE a = c /\ b = d
  <2>1. n * (a - c) = d - b /\ n * (c - a) = b - d
    BY <1>1, <1>4
  <2>2. ~(a - c >= 1) /\ ~(c - a >= 1)
    BY <1>1, <1>2, <2>1
  <2> QED
    BY <1>1, <1>4, <2>2
<1>5. n * a + b \in Nat
  BY <1>1, <1>3
<1> QED
  BY <1>3, <1>4, <1>5

\* The map holds the branches of its pairs, and is closed upwards; blocks have
\* addresses.
MapIs ==
  /\ phi \in Phis
  /\ Upward(phi, DOMAIN commonDomMap)
  /\ commonDomMap = [ij \in DOMAIN commonDomMap |-> Branch(phi, ij[1], ij[2])]
  /\ addr \in [Incoming(phi) -> 0..(Len(phi.inc) - 1)]
  /\ \A i, j \in Incoming(phi) : addr[i] = addr[j] => i = j

LEMMA KeyIs ==
  ASSUME MapIs, NEW ij \in DOMAIN commonDomMap, NEW xy \in DOMAIN commonDomMap
  PROVE  /\ Key(ij) \in Nat /\ Key(ij) < Len(phi.inc) * Len(phi.inc)
         /\ Key(ij) = Key(xy) => ij = xy
<1>1. /\ ij = <<ij[1], ij[2]>> /\ ij[1] \in Incoming(phi) /\ ij[2] \in Incoming(phi)
      /\ xy = <<xy[1], xy[2]>> /\ xy[1] \in Incoming(phi) /\ xy[2] \in Incoming(phi)
  BY DEF MapIs, Upward, Pairs
<1>2. Len(phi.inc) \in Nat
  BY PhisAssumption, PhiIs DEF MapIs
<1>3. /\ addr[ij[1]] \in 0..(Len(phi.inc) - 1) /\ addr[ij[2]] \in 0..(Len(phi.inc) - 1)
      /\ addr[xy[1]] \in 0..(Len(phi.inc) - 1) /\ addr[xy[2]] \in 0..(Len(phi.inc) - 1)
  BY <1>1 DEF MapIs
<1>4. /\ Key(ij) \in Nat /\ Key(ij) < Len(phi.inc) * Len(phi.inc)
      /\ Key(ij) = Key(xy) => addr[ij[1]] = addr[xy[1]] /\ addr[ij[2]] = addr[xy[2]]
  <2> DEFINE n == Len(phi.inc)
             a == addr[ij[1]]
             b == addr[ij[2]]
             c == addr[xy[1]]
             d == addr[xy[2]]
  <2>1. Key(ij) = n * a + b /\ Key(xy) = n * c + d
    BY DEF Key
  <2>2. n \in Nat /\ a \in 0..(n - 1) /\ b \in 0..(n - 1) /\ c \in 0..(n - 1) /\ d \in 0..(n - 1)
    BY <1>2, <1>3
  <2> HIDE DEF n, a, b, c, d
  <2>3. /\ Key(ij) \in Nat /\ Key(ij) < n * n
        /\ Key(ij) = Key(xy) => a = c /\ b = d
    BY <2>1, <2>2, TwoDigits
  <2> QED
    BY <2>3 DEF n, a, b, c, d
<1> QED
  BY <1>1, <1>4 DEF MapIs

\* What the map's entries say is what the lemmas on branches speak of.
LEMMA EntriesAre ==
  ASSUME MapIs, NEW ij \in DOMAIN commonDomMap, NEW xy \in DOMAIN commonDomMap
  PROVE  /\ Dominates(phi.g, commonDomMap[ij], commonDomMap[xy]) <=> Above(phi, ij, xy)
         /\ commonDomMap[ij] = commonDomMap[xy] <=> SameBranch(phi, ij, xy)
<1>1. commonDomMap[ij] = Branch(phi, ij[1], ij[2]) /\ commonDomMap[xy] = Branch(phi, xy[1], xy[2])
  BY DEF MapIs
<1> QED
  BY <1>1 DEF Above, SameBranch

LEMMA AboveIsPartial ==
  ASSUME MapIs, NEW a \in DOMAIN commonDomMap, NEW b \in DOMAIN commonDomMap,
         NEW c \in DOMAIN commonDomMap
  PROVE  /\ Above(phi, a, a)
         /\ Above(phi, a, b) /\ Above(phi, b, c) => Above(phi, a, c)
         /\ Above(phi, a, b) /\ Above(phi, b, a) => SameBranch(phi, a, b)
<1> DEFINE d(x) == Branch(phi, x[1], x[2])
<1>1. Tree(phi.g) /\ WellFormedPhi(phi)
  BY PhisAssumption, PhiIs DEF MapIs
<1>2. \A x \in DOMAIN commonDomMap : d(x) \in phi.g.block
  <2>1. \A x \in DOMAIN commonDomMap : x[1] \in Incoming(phi) /\ x[2] \in Incoming(phi)
    BY DEF MapIs, Upward, Pairs
  <2> QED
    BY <1>1, <2>1, BranchIs
<1>3. d(a) \in phi.g.block /\ d(b) \in phi.g.block /\ d(c) \in phi.g.block
  BY <1>2
<1> HIDE DEF d
<1>4. d(a) \in phi.g.dom[d(a)]
  BY <1>1, <1>3, DomSelf
<1>5. ASSUME d(a) \in phi.g.dom[d(b)], d(b) \in phi.g.dom[d(c)] PROVE d(a) \in phi.g.dom[d(c)]
  BY <1>1, <1>3, <1>5, DomTransitive
<1>6. ASSUME d(a) \in phi.g.dom[d(b)], d(b) \in phi.g.dom[d(a)] PROVE d(a) = d(b)
  BY <1>1, <1>3, <1>6, DomAntisymmetric
<1> QED
  BY <1>4, <1>5, <1>6 DEF Above, SameBranch, Dominates, d

\* Of the pairs with a key below n, those whose branch is not above that of t.
LowestBelow(t, n) ==
  \A xy \in DOMAIN commonDomMap :
    Key(xy) < n /\ Above(phi, t, xy) => SameBranch(phi, xy, t) /\ Key(xy) <= Key(t)

LEMMA MoveIs ==
  ASSUME MapIs, NEW t \in DOMAIN commonDomMap, NEW k \in Nat, LowestBelow(t, k)
  PROVE  Move(t, k) \in DOMAIN commonDomMap /\ LowestBelow(Move(t, k), k + 1)
<1> DEFINE lower == {ij \in DOMAIN commonDomMap :
                       Key(ij) = k /\ Dominates(phi.g, commonDomMap[t], commonDomMap[ij])}
<1>1. Move(t, k) = IF lower = {} THEN t ELSE CHOOSE ij \in lower : TRUE
  BY DEF Move
<1>2. \A ij \in DOMAIN commonDomMap : Key(ij) \in Nat
  BY KeyIs
<1>3. CASE lower = {}
  <2>1. \A xy \in DOMAIN commonDomMap : Key(xy) = k => ~Above(phi, t, xy)
    BY <1>3, EntriesAre
  <2>2. LowestBelow(t, k + 1)
    BY <1>2, <2>1 DEF LowestBelow
  <2> QED
    BY <1>1, <1>3, <2>2
<1>4. CASE lower # {}
  <2> DEFINE u == CHOOSE ij \in lower : TRUE
  <2>1. u \in DOMAIN commonDomMap /\ Key(u) = k /\ Above(phi, t, u)
    BY <1>4, EntriesAre
  <2> HIDE DEF u
  <2>2. ASSUME NEW xy \in DOMAIN commonDomMap, Key(xy) < k + 1, Above(phi, u, xy)
        PROVE  SameBranch(phi, xy, u) /\ Key(xy) <= Key(u)
    <3>1. CASE Key(xy) < k
      <4>1. Above(phi, t, xy)
        BY <2>1, <2>2, AboveIsPartial
      <4>2. SameBranch(phi, xy, t)
        BY <3>1, <4>1 DEF LowestBelow
      <4>3. Above(phi, xy, u)
        BY <2>1, <4>2 DEF SameBranch, Above
      <4> QED
        BY <1>2, <2>1, <2>2, <3>1, <4>3, AboveIsPartial DEF SameBranch
    <3>2. CASE Key(xy) = k
      <4>1. xy = u
        BY <2>1, <3>2, KeyIs
      <4> QED
        BY <1>2, <2>1, <4>1 DEF SameBranch
    <3> QED
      BY <1>2, <2>2, <3>1, <3>2
  <2> QED
    BY <1>1, <1>4, <2>1, <2>2 DEF LowestBelow, u
<1> QED
  BY <1>3, <1>4

LEMMA TempIs ==
  ASSUME MapIs, DOMAIN commonDomMap # {}
  PROVE  /\ temp \in DOMAIN commonDomMap /\ Lowest(phi, DOMAIN commonDomMap, temp)
         /\ \A xy \in DOMAIN commonDomMap : SameBranch(phi, xy, temp) => Key(xy) <= Key(temp)
<1> DEFINE M == DOMAIN commonDomMap
           last == Len(phi.inc) * Len(phi.inc)
           G == [x \in Nat \X M |-> Move(x[2], x[1] - 1)]
           scan == CHOOSE s : s = [n \in Nat |-> IF n = 0 THEN begin
                                                 ELSE LET t == s[n - 1] IN Move(t, n - 1)]
<1>1. begin \in M
  <2> DEFINE K == {Key(ij) : ij \in M}
  <2>1. K \in SUBSET Nat /\ K # {}
    BY KeyIs
  <2>2. PICK k \in K : \A l \in K : k <= l
    <3> HIDE DEF K
    <3> QED
      BY <2>1, LeastNat
  <2>3. \E ij \in M : \A xy \in M : Key(ij) <= Key(xy)
    BY <2>2
  <2> QED
    BY <2>3 DEF begin
<1>2. G \in [Nat \X M -> M]
  <2>1. \A t \in M : \A k : Move(t, k) \in M
    BY DEF Move
  <2> QED
    BY <2>1
<1>3. PICK r : Recursion(r, M, begin, G)
  <2> HIDE DEF M, G
  <2> QED
    BY <1>1, <1>2, RecursiveFunction
<1>4. \A n \in Nat \ {0} : G[<<n, r[n - 1]>>] = Move(r[n - 1], n - 1)
  <2> SUFFICES ASSUME NEW n \in Nat \ {0} PROVE G[<<n, r[n - 1]>>] = Move(r[n - 1], n - 1)
    OBVIOUS
  <2>1. n - 1 \in Nat
    OBVIOUS
  <2>2. r[n - 1] \in M
    BY <1>3, <2>1 DEF Recursion
  <2> QED
    BY <2>2
<1>5. r = [n \in Nat |-> IF n = 0 THEN begin ELSE LET t == r[n - 1] IN Move(t, n - 1)]
  <2> HIDE DEF M, G
  <2> QED
    BY <1>3, <1>4 DEF Recursion
<1>6. scan = [n \in Nat |-> IF n = 0 THEN begin ELSE LET t == scan[n - 1] IN Move(t, n - 1)]
  BY <1>5
<1>7. temp = scan[last]
  BY DEF temp
<1> HIDE DEF scan
<1> DEFINE S == {n \in Nat : scan[n] \in M /\ LowestBelow(scan[n], n)}
<1>8. 0 \in S
  <2>1. scan[0] = begin
    BY <1>6
  <2>2. LowestBelow(begin, 0)
    BY KeyIs DEF LowestBelow
  <2> QED
    BY <1>1, <2>1, <2>2
<1>9. ASSUME NEW n \in Nat, n \in S PROVE n + 1 \in S
  <2>1. scan[n + 1] = Move(scan[n], n)
    <3>1. n + 1 \in Nat /\ n + 1 # 0 /\ (n + 1) - 1 = n
      OBVIOUS
    <3> QED
      BY <1>6, <3>1
  <2>2. Move(scan[n], n) \in M /\ LowestBelow(Move(scan[n], n), n + 1)
    BY <1>9, MoveIs
  <2> QED
    BY <2>1, <2>2
<1>10. last \in Nat
  <2>1. Len(phi.inc) \in Nat
    BY PhisAssumption, PhiIs DEF MapIs
  <2> QED
    BY <2>1
<1>11. temp \in M /\ LowestBelow(temp, last)
  <2>1. Nat \subseteq S
    <3> HIDE DEF S
    <3> QED
      BY <1>8, <1>9, NatInd
  <2> HIDE DEF last
  <2> QED
    BY <1>7, <1>10, <2>1
<1>12. \A xy \in M : Key(xy) < last
  BY KeyIs
<1>13. \A xy \in M : Above(phi, temp, xy) => SameBranch(phi, xy, temp) /\ Key(xy) <= Key(temp)
  BY <1>11, <1>12 DEF LowestBelow
<1>14. \A xy \in M : SameBranch(phi, xy, temp) => Above(phi, temp, xy)
  <2>1. Above(phi, temp, temp)
    BY <1>11, AboveIsPartial
  <2> QED
    BY <2>1 DEF SameBranch, Above
<1> QED
  BY <1>11, <1>13, <1>14 DEF Lowest
-----------------------------------------------------------------------------
(* The invariant, without what the selects are good for.                      *)

Oper == [select : BOOLEAN, of : Nat]

Types ==
  /\ pc \in {"select", "replaced", "crashed"}
  /\ selectBasicBlock \in [DOMAIN selectBasicBlock -> 1..Len(selects)]
  /\ DOMAIN selectBasicBlock \subseteq Incoming(phi)
  /\ selects \in Seq([cond : phi.g.block, then : Oper, els : Oper])
  /\ \A n \in 1..Len(selects) :
       \A o \in Operands(selects[n]) :
         o.of \in IF o.select THEN 1..(n - 1) ELSE Incoming(phi)
  /\ pc = "replaced" => DOMAIN commonDomMap = {}

LEMMA OperandIs ==
  ASSUME MapIs, Types, NEW i \in Incoming(phi)
  PROVE  /\ Operand(i) \in Oper
         /\ Operand(i).of \in IF Operand(i).select THEN 1..Len(selects) ELSE Incoming(phi)
         /\ i \in DOMAIN selectBasicBlock => Operand(i) = Select(selectBasicBlock[i])
         /\ i \notin DOMAIN selectBasicBlock => Operand(i) = Value(i)
<1>1. i \in Nat
  BY DEF Incoming
<1>2. CASE i \in DOMAIN selectBasicBlock
  <2>1. selectBasicBlock[i] \in 1..Len(selects) /\ selectBasicBlock[i] \in Nat
    BY <1>2 DEF Types
  <2>2. Operand(i) = Select(selectBasicBlock[i])
    BY <1>2 DEF Operand
  <2> QED
    BY <1>2, <2>1, <2>2 DEF Select, Oper
<1>3. CASE i \notin DOMAIN selectBasicBlock
  <2>1. Operand(i) = Value(i)
    BY <1>3 DEF Operand
  <2> QED
    BY <1>1, <1>3, <2>1 DEF Value, Oper
<1> QED
  BY <1>2, <1>3

\* One iteration, on a lowest pair that comes last among those of its branch.
Handles(t) ==
  /\ t \in DOMAIN commonDomMap /\ t = <<t[1], t[2]>>
  /\ t[1] \in Incoming(phi) /\ t[2] \in Incoming(phi) /\ t[1] < t[2]
  /\ Lowest(phi, DOMAIN commonDomMap, t)
  /\ \A xy \in DOMAIN commonDomMap : SameBranch(phi, xy, t) => Key(xy) <= Key(t)
  /\ SelectFor(t)
  /\ pc = "select" /\ UNCHANGED <<phi, addr, pc>>

LEMMA IterationIs ==
  ASSUME MapIs, GenerateSelect
  PROVE  \E t : Handles(t)
<1>1. DOMAIN commonDomMap # {} /\ SelectFor(temp) /\ pc = "select" /\ UNCHANGED <<phi, addr, pc>>
  BY DEF GenerateSelect
<1>2. /\ temp \in DOMAIN commonDomMap /\ Lowest(phi, DOMAIN commonDomMap, temp)
      /\ \A xy \in DOMAIN commonDomMap : SameBranch(phi, xy, temp) => Key(xy) <= Key(temp)
  BY <1>1, TempIs
<1>3. \A ij \in DOMAIN commonDomMap :
        ij = <<ij[1], ij[2]>> /\ ij[1] \in Incoming(phi) /\ ij[2] \in Incoming(phi) /\ ij[1] < ij[2]
  BY DEF MapIs, Upward, Pairs
<1> QED
  BY <1>1, <1>2, <1>3 DEF Handles

LEMMA SelectForIs ==
  ASSUME MapIs, Types, NEW t, Handles(t)
  PROVE  LET n == Len(selects) + 1
         IN  /\ Len(selects') = n /\ n \in Nat
             /\ \A m \in 1..Len(selects) : selects'[m] = selects[m]
             /\ selects'[n] = [cond |-> Branch(phi, t[1], t[2]),
                               then |-> Operand(t[1]), els |-> Operand(t[2])]
             /\ selects' \in Seq([cond : phi.g.block, then : Oper, els : Oper])
             /\ DOMAIN selectBasicBlock' = DOMAIN selectBasicBlock \cup {t[1], t[2]}
             /\ selectBasicBlock' \in [DOMAIN selectBasicBlock' -> 1..n]
             /\ selectBasicBlock'[t[1]] = n /\ selectBasicBlock'[t[2]] = n
             /\ \A k \in DOMAIN selectBasicBlock \ {t[1], t[2]} :
                  selectBasicBlock'[k] = selectBasicBlock[k]
<1> DEFINE n == Len(selects) + 1
           s == [cond |-> commonDomMap[t], then |-> Operand(t[1]), els |-> Operand(t[2])]
<1>1. /\ selects' = Append(selects, s)
      /\ selectBasicBlock' = [k \in DOMAIN selectBasicBlock \cup {t[1], t[2]} |->
                                IF k \in {t[1], t[2]} THEN Len(selects') ELSE selectBasicBlock[k]]
  BY DEF Handles, SelectFor
<1>2. s = [cond |-> Branch(phi, t[1], t[2]), then |-> Operand(t[1]), els |-> Operand(t[2])]
  BY DEF Handles, MapIs
<1>3. s \in [cond : phi.g.block, then : Oper, els : Oper]
  <2>1. Branch(phi, t[1], t[2]) \in phi.g.block
    BY PhisAssumption, BranchIs DEF Handles, MapIs
  <2>2. Operand(t[1]) \in Oper /\ Operand(t[2]) \in Oper
    BY OperandIs DEF Handles
  <2> QED
    BY <1>2, <2>1, <2>2
<1>4. selects \in Seq([cond : phi.g.block, then : Oper, els : Oper])
  BY DEF Types
<1> HIDE DEF s
<1>5. /\ Len(selects') = n /\ n \in Nat
      /\ \A m \in 1..Len(selects) : selects'[m] = selects[m]
      /\ selects'[n] = s
      /\ selects' \in Seq([cond : phi.g.block, then : Oper, els : Oper])
  <2> DEFINE R == [cond : phi.g.block, then : Oper, els : Oper]
  <2>1. selects \in Seq(R) /\ s \in R
    BY <1>3, <1>4
  <2> HIDE DEF R
  <2>2. /\ Len(selects') = n /\ n \in Nat /\ selects' \in Seq(R)
        /\ \A m \in 1..Len(selects) : selects'[m] = selects[m]
        /\ selects'[n] = s
    BY <1>1, <2>1
  <2> QED
    BY <2>2 DEF R
<1>6. /\ DOMAIN selectBasicBlock' = DOMAIN selectBasicBlock \cup {t[1], t[2]}
      /\ selectBasicBlock'[t[1]] = n /\ selectBasicBlock'[t[2]] = n
      /\ \A k \in DOMAIN selectBasicBlock \ {t[1], t[2]} : selectBasicBlock'[k] = selectBasicBlock[k]
  BY <1>1, <1>5
<1>7. selectBasicBlock' \in [DOMAIN selectBasicBlock' -> 1..n]
  <2>1. \A k \in DOMAIN selectBasicBlock : selectBasicBlock[k] \in 1..n
    BY <1>5 DEF Types
  <2>2. \A k \in DOMAIN selectBasicBlock' :
          (IF k \in {t[1], t[2]} THEN n ELSE selectBasicBlock[k]) \in 1..n
    BY <1>5, <1>6, <2>1
  <2> QED
    BY <1>1, <1>5, <1>6, <2>2
<1> QED
  BY <1>2, <1>5, <1>6, <1>7

LEMMA LeftIs ==
  ASSUME MapIs, NEW t, Handles(t)
  PROVE  MapIs' /\ DOMAIN commonDomMap' = Left(phi, DOMAIN commonDomMap, t)
<1> DEFINE M == DOMAIN commonDomMap
<1>1. commonDomMap' = [ij \in OtherPairs(t) |-> commonDomMap[ij]] /\ t \in M /\ Lowest(phi, M, t)
      /\ phi' = phi /\ addr' = addr
  BY DEF Handles, SelectFor
<1>2. OtherPairs(t) = Left(phi, M, t)
  BY <1>1, EntriesAre DEF OtherPairs, Left
<1>3. DOMAIN commonDomMap' = Left(phi, M, t) /\ Left(phi, M, t) \subseteq M
  BY <1>1, <1>2 DEF Left
<1>4. Upward(phi, Left(phi, M, t))
  <2>1. Left(phi, M, t) \subseteq Pairs(phi)
    BY DEF Left, MapIs, Upward
  <2>2. ASSUME NEW ij \in Left(phi, M, t), NEW xy \in Pairs(phi), Above(phi, xy, ij)
        PROVE  xy \in Left(phi, M, t)
    <3>1. ij \in M /\ ~SameBranch(phi, ij, t)
      BY DEF Left
    <3>2. xy \in M
      BY <2>2, <3>1 DEF MapIs, Upward
    <3>3. ASSUME SameBranch(phi, xy, t) PROVE FALSE
      <4>1. Above(phi, t, ij)
        BY <2>2, <3>3 DEF SameBranch, Above
      <4> QED
        BY <1>1, <3>1, <4>1 DEF Lowest
    <3> QED
      BY <3>2, <3>3 DEF Left
  <2> QED
    BY <2>1, <2>2 DEF Upward
<1>5. commonDomMap' = [ij \in DOMAIN commonDomMap' |-> Branch(phi, ij[1], ij[2])]
  <2>1. \A ij \in M : commonDomMap[ij] = Branch(phi, ij[1], ij[2])
    BY DEF MapIs
  <2> QED
    BY <1>1, <1>2, <1>3, <2>1
<1> QED
  BY <1>1, <1>3, <1>4, <1>5 DEF MapIs

LEMMA InitTypes == Init => MapIs /\ Types
<1> SUFFICES ASSUME Init PROVE MapIs /\ Types
  OBVIOUS
<1>1. /\ phi \in Phis /\ commonDomMap = [ij \in Pairs(phi) |-> Branch(phi, ij[1], ij[2])]
      /\ selectBasicBlock = [i \in {} |-> 0] /\ selects = <<>> /\ pc = "select"
  BY DEF Init
<1>2. MapIs
  BY <1>1 DEF Init, MapIs, Upward
<1>3. Types
  <2>1. selects \in Seq([cond : phi.g.block, then : Oper, els : Oper]) /\ Len(selects) = 0
    BY <1>1
  <2>2. selectBasicBlock \in [DOMAIN selectBasicBlock -> 1..Len(selects)] /\ DOMAIN selectBasicBlock = {}
    BY <1>1
  <2> QED
    BY <1>1, <2>1, <2>2 DEF Types
<1> QED
  BY <1>2, <1>3

LEMMA NextTypes == MapIs /\ Types /\ [Next]_vars => MapIs' /\ Types'
<1> SUFFICES ASSUME MapIs, Types, [Next]_vars PROVE MapIs' /\ Types'
  OBVIOUS
<1>1. CASE GenerateSelect
  <2>1. PICK t : Handles(t)
    BY <1>1, IterationIs
  <2>2. MapIs'
    BY <2>1, LeftIs
  <2> DEFINE n == Len(selects) + 1
  <2>3. /\ Len(selects') = n /\ n \in Nat
        /\ \A m \in 1..Len(selects) : selects'[m] = selects[m]
        /\ selects'[n] = [cond |-> Branch(phi, t[1], t[2]),
                          then |-> Operand(t[1]), els |-> Operand(t[2])]
        /\ selects' \in Seq([cond : phi.g.block, then : Oper, els : Oper])
        /\ DOMAIN selectBasicBlock' = DOMAIN selectBasicBlock \cup {t[1], t[2]}
        /\ selectBasicBlock' \in [DOMAIN selectBasicBlock' -> 1..n]
    BY <2>1, SelectForIs
  <2>4. phi' = phi /\ pc' = "select" /\ t[1] \in Incoming(phi) /\ t[2] \in Incoming(phi)
    BY <2>1 DEF Handles
  <2>5. Len(selects) \in Nat
    BY DEF Types
  <2>6. ASSUME NEW m \in 1..n, NEW o \in Operands(selects'[m])
        PROVE  o.of \in IF o.select THEN 1..(m - 1) ELSE Incoming(phi)
    <3>1. CASE m = n
      <4>1. o = Operand(t[1]) \/ o = Operand(t[2])
        BY <2>3, <3>1 DEF Operands
      <4>2. o.of \in IF o.select THEN 1..Len(selects) ELSE Incoming(phi)
        BY <2>4, <4>1, OperandIs
      <4> QED
        BY <2>5, <3>1, <4>2
    <3>2. CASE m # n
      <4>1. m \in 1..Len(selects) /\ selects'[m] = selects[m]
        BY <2>3, <2>5, <3>2
      <4> QED
        BY <4>1 DEF Types
    <3> QED
      BY <3>1, <3>2
  <2>7. DOMAIN selectBasicBlock' \subseteq Incoming(phi)
    BY <2>3, <2>4 DEF Types
  <2> HIDE DEF n
  <2> QED
    BY <2>2, <2>3, <2>4, <2>6, <2>7 DEF Types
<1>2. CASE ReplacePhi
  BY <1>2 DEF ReplacePhi, MapIs, Types
<1>3. CASE UNCHANGED vars
  BY <1>3 DEF vars, MapIs, Types, Upward, Operands
<1> QED
  BY <1>1, <1>2, <1>3 DEF Next, Halt
LEMMA SpecTypes == Spec => [](MapIs /\ Types)
BY InitTypes, NextTypes, PTL DEF Spec

\* The containers keep their types, and every select refers to earlier ones,
\* for every phi and every order of addresses (modifyPhis, generateSelect).
THEOREM TypeCorrect == Spec => []TypeOK
<1>1. ASSUME MapIs, Types PROVE TypeOK
  <2>1. ASSUME NEW ij \in DOMAIN commonDomMap
        PROVE  /\ ij \in Incoming(phi) \X Incoming(phi)
               /\ IsConditional(phi.g, commonDomMap[ij])
    <3>1. ij \in Pairs(phi) /\ commonDomMap[ij] = Branch(phi, ij[1], ij[2])
      BY <1>1 DEF MapIs, Upward
    <3>2. /\ ij \in Incoming(phi) \X Incoming(phi) /\ ij[1] \in Incoming(phi)
          /\ ij[2] \in Incoming(phi) /\ ij[1] # ij[2]
      BY <3>1 DEF Pairs, Incoming
    <3>3. IsConditional(phi.g, Branch(phi, ij[1], ij[2]))
      BY <1>1, <3>2, PhisAssumption DEF MapIs, Separated
    <3> QED
      BY <3>1, <3>2, <3>3
  <2> QED
    BY <1>1, <2>1 DEF Types, TypeOK
<1> QED
  BY <1>1, SpecTypes, PTL

\* The pass over the map ends with a pair whose branch is above no other's,
\* wherever it starts (lines 581-590).
THEOREM LowestFirst == Spec => []BottomUp
<1>1. ASSUME MapIs, Types PROVE BottomUp
  <2> SUFFICES ASSUME DOMAIN commonDomMap # {}, NEW ij \in DOMAIN commonDomMap,
                      Dominates(phi.g, commonDomMap[temp], commonDomMap[ij])
               PROVE  commonDomMap[ij] = commonDomMap[temp]
    BY DEF BottomUp
  <2>1. temp \in DOMAIN commonDomMap /\ Lowest(phi, DOMAIN commonDomMap, temp)
    BY <1>1, TempIs
  <2>2. SameBranch(phi, ij, temp)
    BY <1>1, <2>1, EntriesAre DEF Lowest
  <2> QED
    BY <1>1, <2>1, <2>2, EntriesAre
<1> QED
  BY <1>1, SpecTypes, PTL

-----------------------------------------------------------------------------
(* What becomes of the groups.                                                *)

With(i, j) == Together(DOMAIN commonDomMap, i, j)

LEMMA WithIs ==
  ASSUME MapIs
  PROVE  /\ \A i \in Incoming(phi) : With(i, i)
         /\ \A i, j \in Incoming(phi) : With(i, j) => With(j, i)
         /\ \A i, j, k \in Incoming(phi) : With(i, j) /\ With(j, k) => With(i, k)
<1>1. WellFormedPhi(phi) /\ Separated(phi) /\ Upward(phi, DOMAIN commonDomMap)
  BY PhisAssumption DEF MapIs
<1>2. \A i \in Incoming(phi) : With(i, i)
  BY <1>1, TogetherSelf DEF With
<1>3. \A i, j \in Incoming(phi) : With(i, j) => With(j, i)
  BY DEF With, Together
<1>4. \A i, j, k \in Incoming(phi) : With(i, j) /\ With(j, k) => With(i, k)
  BY <1>1, TogetherTransitive DEF With
<1> QED
  BY <1>2, <1>3, <1>4

\* The operands of the pair that is handled are apart, and so are those that
\* are with them: by its branch.
LEMMA ApartIs ==
  ASSUME MapIs, NEW t, Handles(t), NEW x \in Incoming(phi), NEW y \in Incoming(phi),
         With(x, t[1]), With(y, t[2])
  PROVE  /\ Branch(phi, x, y) = Branch(phi, t[1], t[2]) /\ Branch(phi, y, x) = Branch(phi, t[1], t[2])
         /\ x # y /\ ~With(x, y)
<1>1. WellFormedPhi(phi) /\ Separated(phi) /\ Upward(phi, DOMAIN commonDomMap)
  BY PhisAssumption DEF MapIs
<1>2. /\ t \in DOMAIN commonDomMap /\ t = <<t[1], t[2]>>
      /\ t[1] \in Incoming(phi) /\ t[2] \in Incoming(phi)
      /\ Lowest(phi, DOMAIN commonDomMap, t)
  BY DEF Handles
<1>3. Branch(phi, x, y) = Branch(phi, t[1], t[2]) /\ x # y
  BY <1>1, <1>2, Parted DEF With
<1>4. Branch(phi, y, x) = Branch(phi, x, y)
  BY <1>1, BranchSymmetric
<1>5. ~With(t[1], t[2])
  BY <1>2 DEF With, Together
<1>6. ~With(x, y)
  BY <1>2, <1>5, WithIs
<1> QED
  BY <1>3, <1>4, <1>6

\* Two operands with the same one have another branch.
LEMMA WithinGroup ==
  ASSUME MapIs, NEW t, Handles(t), NEW x \in Incoming(phi), NEW y \in Incoming(phi),
         x # y, With(x, y)
  PROVE  Branch(phi, x, y) # Branch(phi, t[1], t[2])
<1> SUFFICES ASSUME Branch(phi, x, y) = Branch(phi, t[1], t[2]) PROVE FALSE
  OBVIOUS
<1>1. WellFormedPhi(phi) /\ Upward(phi, DOMAIN commonDomMap)
  BY PhisAssumption DEF MapIs
<1>2. /\ t \in DOMAIN commonDomMap /\ t = <<t[1], t[2]>>
      /\ t[1] \in Incoming(phi) /\ t[2] \in Incoming(phi)
  BY DEF Handles
<1>3. Dominates(phi.g, Branch(phi, x, y), Branch(phi, t[1], t[2]))
  BY <1>1, <1>2, AboveSelf
<1>4. Together(DOMAIN commonDomMap, t[1], t[2])
  BY <1>1, <1>2, <1>3, TogetherBelow DEF With
<1> QED
  BY <1>2, <1>4 DEF Together

\* An iteration unites the groups of its two operands, and no others.
LEMMA GroupsUnite ==
  ASSUME MapIs, NEW t, Handles(t), NEW x \in Incoming(phi), NEW y \in Incoming(phi)
  PROVE  With(x, y)' <=> \/ With(x, y)
                         \/ With(x, t[1]) /\ With(y, t[2])
                         \/ With(x, t[2]) /\ With(y, t[1])
<1> DEFINE M == DOMAIN commonDomMap
           d == Branch(phi, t[1], t[2])
<1>1. WellFormedPhi(phi) /\ Separated(phi) /\ Upward(phi, M)
  BY PhisAssumption DEF MapIs
<1>2. /\ t \in M /\ t = <<t[1], t[2]>> /\ t[1] \in Incoming(phi) /\ t[2] \in Incoming(phi)
      /\ Lowest(phi, M, t)
  BY DEF Handles
<1>3. With(x, y)' <=> Together(Left(phi, M, t), x, y)
  BY LeftIs DEF With
<1>4. \A xy \in M : xy \in Left(phi, M, t) <=> Branch(phi, xy[1], xy[2]) # d
  BY DEF Left, SameBranch
<1>5. Left(phi, M, t) \subseteq M
  BY DEF Left
<1>6. With(x, y) => With(x, y)'
  BY <1>3, <1>5 DEF With, Together
<1>7. ASSUME NEW u \in Incoming(phi), NEW v \in Incoming(phi), With(u, t[1]), With(v, t[2])
      PROVE  Together(Left(phi, M, t), u, v)
  <2>1. Branch(phi, u, v) = d /\ Branch(phi, v, u) = d
    BY <1>7, ApartIs
  <2>2. <<u, v>> \notin Left(phi, M, t) /\ <<v, u>> \notin Left(phi, M, t)
    BY <1>4, <1>5, <2>1
  <2> QED
    BY <2>2 DEF Together
<1>8. With(x, t[2]) /\ With(y, t[1]) => Together(Left(phi, M, t), x, y)
  BY <1>7 DEF Together
<1>9. ASSUME With(x, y)', ~With(x, y)
      PROVE  (With(x, t[1]) /\ With(y, t[2])) \/ (With(x, t[2]) /\ With(y, t[1]))
  <2>1. PICK xy \in M : xy \notin Left(phi, M, t) /\ (xy = <<x, y>> \/ xy = <<y, x>>)
    BY <1>3, <1>9 DEF With, Together
  <2>2. Branch(phi, x, y) = d
    BY <1>1, <1>4, <2>1, BranchSymmetric
  <2>3. d \in phi.g.dom[phi.inc[x]] /\ d \in phi.g.dom[phi.inc[y]] /\ d \in phi.g.dom[phi.inc[t[1]]]
    BY <1>1, <1>2, <2>2, BranchIs
  <2>4. Dominates(phi.g, d, Branch(phi, x, t[1])) /\ Dominates(phi.g, d, Branch(phi, y, t[1]))
    BY <1>1, <1>2, <2>3, BranchIs DEF Dominates
  <2>5. (With(x, t[1]) \/ With(x, t[2])) /\ (With(y, t[1]) \/ With(y, t[2]))
    BY <1>1, <1>2, <2>4, OneOfTwo DEF With
  <2> QED
    BY <1>2, <1>9, <2>5, WithIs
<1> QED
  BY <1>3, <1>6, <1>7, <1>8, <1>9

\* If the sides come in turn, the operands with the first come before those
\* with the second.
LEMMA GroupsInTurn ==
  ASSUME MapIs, InTurn(phi), NEW t, Handles(t),
         NEW x \in Incoming(phi), NEW y \in Incoming(phi), With(x, t[1]), With(y, t[2])
  PROVE  x < y /\ <<x, y>> \in DOMAIN commonDomMap
<1> DEFINE i == t[1]
           j == t[2]
           d == Branch(phi, i, j)
<1>1. i \in Incoming(phi) /\ j \in Incoming(phi) /\ i < j
  BY DEF Handles
<1>2. x \in Nat /\ y \in Nat /\ i \in Nat /\ j \in Nat
  BY <1>1 DEF Incoming
<1>3. With(i, i) /\ With(j, j) /\ With(i, x)
  BY <1>1, WithIs
<1>4. /\ Branch(phi, x, y) = d /\ Branch(phi, y, x) = d /\ x # y /\ ~With(x, y)
      /\ Branch(phi, i, y) = d /\ Branch(phi, y, i) = d /\ i # y
  BY <1>1, <1>3, ApartIs
<1>5. y # j => Branch(phi, y, j) # d
  BY <1>1, WithinGroup
<1>6. x # i => Branch(phi, i, x) # d
  BY <1>1, <1>3, WithinGroup
<1>7. ASSUME y < x PROVE FALSE
  <2>1. CASE y < i
    <3>1. Branch(phi, y, j) = d
      BY <1>1, <1>4, <2>1 DEF InTurn
    <3> QED
      BY <1>1, <1>2, <1>5, <2>1, <3>1
  <2>2. CASE i < y
    <3>1. Branch(phi, i, x) = d
      BY <1>1, <1>4, <1>7, <2>2 DEF InTurn
    <3> QED
      BY <1>2, <1>6, <1>7, <2>2, <3>1
  <2> QED
    BY <1>2, <1>4, <2>1, <2>2
<1>8. x < y
  BY <1>2, <1>4, <1>7
<1>9. <<x, y>> \in DOMAIN commonDomMap
  <2>1. <<x, y>> \in DOMAIN commonDomMap \/ <<y, x>> \in DOMAIN commonDomMap
    BY <1>4 DEF With, Together
  <2>2. <<y, x>> \notin Pairs(phi)
    BY <1>2, <1>8 DEF Pairs
  <2> QED
    BY <2>1, <2>2 DEF MapIs, Upward
<1> QED
  BY <1>8, <1>9

\* Of its group, i has the highest address.
Top(i) == \A x \in Incoming(phi) : With(x, i) => addr[x] <= addr[i]

\* The pair that is handled is that of the highest of their groups.
LEMMA HandlesTops ==
  ASSUME MapIs, InTurn(phi), NEW t, Handles(t)
  PROVE  Top(t[1]) /\ Top(t[2])
<1> DEFINE i == t[1]
           j == t[2]
<1>1. /\ i \in Incoming(phi) /\ j \in Incoming(phi) /\ t = <<i, j>>
      /\ \A xy \in DOMAIN commonDomMap : SameBranch(phi, xy, t) => Key(xy) <= Key(t)
  BY DEF Handles
<1>2. Len(phi.inc) \in Nat \ {0}
  <2>1. Len(phi.inc) \in Nat
    BY PhisAssumption, PhiIs DEF MapIs
  <2> QED
    BY <1>1, <2>1 DEF Incoming
<1>3. With(i, i) /\ With(j, j)
  BY <1>1, WithIs
<1>4. addr[i] \in Int /\ addr[j] \in Int
  BY <1>1 DEF MapIs
<1>5. ASSUME NEW x \in Incoming(phi), With(x, i) PROVE addr[x] <= addr[i]
  <2>1. <<x, j>> \in DOMAIN commonDomMap /\ Branch(phi, x, j) = Branch(phi, i, j)
    BY <1>1, <1>3, <1>5, GroupsInTurn, ApartIs
  <2>2. Key(<<x, j>>) <= Key(t)
    BY <1>1, <2>1 DEF SameBranch
  <2> DEFINE n == Len(phi.inc)
             a == addr[x]
             b == addr[i]
             c == addr[j]
  <2>3. n * a + c <= n * b + c
    BY <1>1, <2>2 DEF Key
  <2>4. n \in Nat \ {0} /\ a \in Int /\ b \in Int /\ c \in Int
    BY <1>2, <1>4 DEF MapIs
  <2> HIDE DEF n, a, b, c
  <2>5. ~(a - b >= 1)
    <3>1. a - b >= 1 => n * (a - b) >= n
      BY <2>4
    <3>2. n * (a - b) <= 0
      BY <2>3, <2>4
    <3> QED
      BY <2>4, <3>1, <3>2
  <2> QED
    BY <2>4, <2>5 DEF a, b
<1>6. ASSUME NEW y \in Incoming(phi), With(y, j) PROVE addr[y] <= addr[j]
  <2>1. <<i, y>> \in DOMAIN commonDomMap /\ Branch(phi, i, y) = Branch(phi, i, j)
    BY <1>1, <1>3, <1>6, GroupsInTurn, ApartIs
  <2>2. Key(<<i, y>>) <= Key(t)
    BY <1>1, <2>1 DEF SameBranch
  <2>3. addr[y] \in Int
    BY DEF MapIs
  <2>4. Len(phi.inc) * addr[i] \in Int
    BY <1>2, <1>4
  <2> QED
    BY <1>1, <1>4, <2>2, <2>3, <2>4 DEF Key
<1> QED
  BY <1>5, <1>6 DEF Top

\* The operands of a group are those of selects, and the select that is not yet
\* an operand of another stands for the highest block of a group: the only one
\* that is asked for again.
Merged ==
  /\ \A i, j \in Incoming(phi) : i # j /\ With(i, j) => i \in DOMAIN selectBasicBlock
  /\ \A i \in DOMAIN selectBasicBlock :
       \E n \in 1..Len(selects) : Value(i) \in Operands(selects[n])
  /\ \A m \in 1..Len(selects) :
       \/ \E n \in (m + 1)..Len(selects) : Select(m) \in Operands(selects[n])
       \/ \E i \in DOMAIN selectBasicBlock : Top(i) /\ selectBasicBlock[i] = m
  /\ pc = "replaced" => selects # <<>>

LEMMA HandlesMerged ==
  ASSUME MapIs, Types, InTurn(phi), Merged, NEW t, Handles(t)
  PROVE  Merged'
<1> DEFINE n == Len(selects) + 1
<1>1. /\ Len(selects') = n /\ n \in Nat /\ Len(selects) \in Nat
      /\ \A m \in 1..Len(selects) : selects'[m] = selects[m]
      /\ Operands(selects'[n]) = {Operand(t[1]), Operand(t[2])}
      /\ DOMAIN selectBasicBlock' = DOMAIN selectBasicBlock \cup {t[1], t[2]}
      /\ selectBasicBlock'[t[1]] = n /\ selectBasicBlock'[t[2]] = n
      /\ \A k \in DOMAIN selectBasicBlock \ {t[1], t[2]} : selectBasicBlock'[k] = selectBasicBlock[k]
  <2>1. /\ Len(selects') = n /\ n \in Nat
        /\ \A m \in 1..Len(selects) : selects'[m] = selects[m]
        /\ selects'[n] = [cond |-> Branch(phi, t[1], t[2]),
                          then |-> Operand(t[1]), els |-> Operand(t[2])]
        /\ DOMAIN selectBasicBlock' = DOMAIN selectBasicBlock \cup {t[1], t[2]}
        /\ selectBasicBlock'[t[1]] = n /\ selectBasicBlock'[t[2]] = n
        /\ \A k \in DOMAIN selectBasicBlock \ {t[1], t[2]} : selectBasicBlock'[k] = selectBasicBlock[k]
    BY SelectForIs
  <2>2. Operands(selects'[n]) = {Operand(t[1]), Operand(t[2])}
    BY <2>1 DEF Operands
  <2>3. Len(selects) \in Nat
    BY DEF Types
  <2> QED
    BY <2>1, <2>2, <2>3
<1>2. /\ t[1] \in Incoming(phi) /\ t[2] \in Incoming(phi) /\ t[1] # t[2]
      /\ phi' = phi /\ addr' = addr /\ pc' = "select"
  BY DEF Handles, Incoming
<1>3. DOMAIN selectBasicBlock \subseteq Incoming(phi)
  BY DEF Types
<1>4. \A x, y \in Incoming(phi) :
        With(x, y)' <=> \/ With(x, y)
                        \/ With(x, t[1]) /\ With(y, t[2])
                        \/ With(x, t[2]) /\ With(y, t[1])
  BY GroupsUnite
<1>5. /\ \A i \in Incoming(phi) : With(i, i)
      /\ \A i, j \in Incoming(phi) : With(i, j) => With(j, i)
      /\ \A i, j, k \in Incoming(phi) : With(i, j) /\ With(j, k) => With(i, k)
  BY WithIs
<1>6. /\ \A i \in Incoming(phi) : addr[i] \in Int
      /\ \A i, j \in Incoming(phi) : addr[i] = addr[j] => i = j
  BY DEF MapIs
<1>7. Top(t[1]) /\ Top(t[2])
  BY HandlesTops
<1>8. /\ t[1] \in DOMAIN selectBasicBlock => Operand(t[1]) = Select(selectBasicBlock[t[1]])
      /\ t[1] \notin DOMAIN selectBasicBlock => Operand(t[1]) = Value(t[1])
      /\ t[2] \in DOMAIN selectBasicBlock => Operand(t[2]) = Select(selectBasicBlock[t[2]])
      /\ t[2] \notin DOMAIN selectBasicBlock => Operand(t[2]) = Value(t[2])
  BY <1>2, OperandIs
<1>9. ASSUME NEW i \in Incoming(phi), NEW j \in Incoming(phi), i # j, With(i, j)'
      PROVE  i \in DOMAIN selectBasicBlock'
  <2>1. \A k \in Incoming(phi) : With(i, k) => i \in DOMAIN selectBasicBlock \/ i = k
    BY DEF Merged
  <2> QED
    BY <1>1, <1>2, <1>4, <1>9, <2>1
<1>10. ASSUME NEW i \in DOMAIN selectBasicBlock'
       PROVE  \E m \in 1..n : Value(i) \in Operands(selects'[m])
  <2>1. CASE i \in DOMAIN selectBasicBlock
    <3>1. PICK m \in 1..Len(selects) : Value(i) \in Operands(selects[m])
      BY <2>1 DEF Merged
    <3>2. m \in 1..n /\ selects'[m] = selects[m]
      BY <1>1, <3>1
    <3> QED
      BY <3>1, <3>2
  <2>2. CASE i \notin DOMAIN selectBasicBlock
    <3>1. Value(i) \in Operands(selects'[n]) /\ n \in 1..n
      BY <1>1, <1>8, <1>10, <2>2
    <3> QED
      BY <3>1
  <2> QED
    BY <2>1, <2>2
<1>11. \E i \in DOMAIN selectBasicBlock' : Top(i)' /\ selectBasicBlock'[i] = n
  <2>1. PICK r \in {t[1], t[2]} : addr[t[1]] <= addr[r] /\ addr[t[2]] <= addr[r]
    <3>1. addr[t[1]] \in Int /\ addr[t[2]] \in Int
      BY <1>2, <1>6
    <3> QED
      BY <3>1
  <2>2. ASSUME NEW x \in Incoming(phi), With(x, r)' PROVE addr[x] <= addr[r]
    <3>1. With(x, t[1]) \/ With(x, t[2])
      BY <1>2, <1>4, <2>1, <2>2
    <3>2. addr[x] <= addr[t[1]] \/ addr[x] <= addr[t[2]]
      BY <1>7, <3>1 DEF Top
    <3>3. addr[x] \in Int /\ addr[t[1]] \in Int /\ addr[t[2]] \in Int /\ addr[r] \in Int
      BY <1>2, <1>6
    <3> QED
      BY <2>1, <3>2, <3>3
  <2>3. Top(r)'
    BY <1>2, <2>2 DEF Top
  <2> QED
    BY <1>1, <2>1, <2>3
<1>12. ASSUME NEW m \in 1..n
       PROVE  \/ \E k \in (m + 1)..n : Select(m) \in Operands(selects'[k])
              \/ \E i \in DOMAIN selectBasicBlock' : Top(i)' /\ selectBasicBlock'[i] = m
  <2>1. CASE m = n
    BY <1>11, <2>1
  <2>2. CASE m # n
    <3>1. m \in 1..Len(selects)
      BY <1>1, <2>2
    <3>2. CASE \E k \in (m + 1)..Len(selects) : Select(m) \in Operands(selects[k])
      <4>1. PICK k \in (m + 1)..Len(selects) : Select(m) \in Operands(selects[k])
        BY <3>2
      <4>2. k \in (m + 1)..n /\ selects'[k] = selects[k]
        BY <1>1, <3>1
      <4> QED
        BY <4>1, <4>2
    <3>3. CASE \E i \in DOMAIN selectBasicBlock : Top(i) /\ selectBasicBlock[i] = m
      <4>1. PICK i \in DOMAIN selectBasicBlock : Top(i) /\ selectBasicBlock[i] = m
        BY <3>3
      <4>2. CASE i \in {t[1], t[2]}
        <5>1. Select(m) \in Operands(selects'[n])
          BY <1>1, <1>8, <4>1, <4>2
        <5>2. n \in (m + 1)..n
          BY <1>1, <3>1
        <5> QED
          BY <5>1, <5>2
      <4>3. CASE i \notin {t[1], t[2]}
        <5>1. i \in Incoming(phi)
          BY <1>3
        <5>2. ASSUME NEW k \in {t[1], t[2]} PROVE ~With(i, k)
          <6>1. k \in Incoming(phi) /\ addr[k] \in Int /\ addr[i] \in Int /\ Top(k)
            BY <1>2, <1>6, <1>7, <5>1
          <6>2. With(i, k) => addr[i] = addr[k]
            BY <1>5, <4>1, <5>1, <6>1 DEF Top
          <6> QED
            BY <1>6, <4>3, <5>1, <6>1, <6>2
        <5>3. \A x \in Incoming(phi) : With(x, i)' => With(x, i)
          BY <1>4, <5>1, <5>2
        <5>4. Top(i)'
          BY <1>2, <4>1, <5>3 DEF Top
        <5> QED
          BY <1>1, <4>1, <4>3, <5>4
      <4> QED
        BY <4>2, <4>3
    <3> QED
      BY <3>1, <3>2, <3>3 DEF Merged
  <2> QED
    BY <2>1, <2>2
<1> QED
  <2>1. (\A i, j \in Incoming(phi) : i # j /\ With(i, j) => i \in DOMAIN selectBasicBlock)'
    BY <1>2, <1>9
  <2>2. (\A i \in DOMAIN selectBasicBlock :
          \E k \in 1..Len(selects) : Value(i) \in Operands(selects[k]))'
    BY <1>1, <1>10 DEF Operands, Value
  <2>3. (\A m \in 1..Len(selects) :
          \/ \E k \in (m + 1)..Len(selects) : Select(m) \in Operands(selects[k])
          \/ \E i \in DOMAIN selectBasicBlock : Top(i) /\ selectBasicBlock[i] = m)'
    BY <1>1, <1>12 DEF Operands, Select
  <2> QED
    BY <1>2, <2>1, <2>2, <2>3 DEF Merged

\* At first every operand is a group of its own.
LEMMA InitApart ==
  ASSUME DOMAIN commonDomMap = Pairs(phi), NEW i \in Incoming(phi), NEW j \in Incoming(phi), i # j
  PROVE  ~With(i, j)
<1>1. i < j \/ j < i
  BY DEF Incoming
<1> QED
  BY <1>1, PairIs DEF With, Together

\* In the end there is one group, and the last select stands for its highest
\* block.
LEMMA LastStands ==
  ASSUME MapIs, Types, Merged, pc = "replaced"
  PROVE  /\ Len(selects) \in Nat \ {0} /\ \A i, j : With(i, j)
         /\ \E r \in DOMAIN selectBasicBlock : Top(r) /\ selectBasicBlock[r] = Len(selects)
<1>1. Len(selects) \in Nat \ {0} /\ DOMAIN commonDomMap = {}
  BY DEF Types, Merged
<1>2. \A i, j : With(i, j)
  BY <1>1 DEF With, Together
<1>3. Len(selects) \in 1..Len(selects) /\ (Len(selects) + 1)..Len(selects) = {}
  BY <1>1
<1>4. \E r \in DOMAIN selectBasicBlock : Top(r) /\ selectBasicBlock[r] = Len(selects)
  BY <1>3 DEF Merged
<1> QED
  BY <1>1, <1>2, <1>4

\* No operand and no select is lost, however the blocks lie, when the sides
\* come in turn (lines 592-644).
THEOREM NothingIsLost == Spec => []NothingLost
<1> DEFINE I == MapIs /\ Types /\ (InTurn(phi) => Merged)
<1>1. Init => I
  <2> SUFFICES ASSUME Init, MapIs, Types PROVE Merged
    BY InitTypes
  <2>1. DOMAIN selectBasicBlock = {} /\ Len(selects) = 0 /\ pc = "select"
        /\ DOMAIN commonDomMap = Pairs(phi)
    BY DEF Init
  <2>2. \A i, j \in Incoming(phi) : i # j => ~With(i, j)
    BY <2>1, InitApart
  <2> QED
    BY <2>1, <2>2 DEF Merged
<1>2. I /\ [Next]_vars => I'
  <2> SUFFICES ASSUME I, [Next]_vars, MapIs', Types', InTurn(phi)' PROVE Merged'
    BY NextTypes
  <2>1. CASE GenerateSelect
    <3>1. PICK t : Handles(t)
      BY <2>1, IterationIs
    <3>2. phi' = phi
      BY <3>1 DEF Handles
    <3>3. InTurn(phi)
      BY <3>2 DEF InTurn
    <3> QED
      BY <3>1, <3>3, HandlesMerged
  <2>2. CASE ReplacePhi
    BY <2>2 DEF ReplacePhi, Merged, InTurn, Top, With, Operands
  <2>3. CASE UNCHANGED vars
    BY <2>3 DEF vars, Merged, InTurn, Top, With, Operands
  <2> QED
    BY <2>1, <2>2, <2>3 DEF Next, Halt
<1>3. I => NothingLost
  <2> SUFFICES ASSUME MapIs, Types, Merged, pc = "replaced"
               PROVE  /\ \A i \in Incoming(phi) :
                           \E n \in 1..Len(selects) : Value(i) \in Operands(selects[n])
                      /\ \A m \in 1..(Len(selects) - 1) :
                           \E n \in (m + 1)..Len(selects) : Select(m) \in Operands(selects[n])
    BY DEF NothingLost
  <2>1. Len(selects) \in Nat \ {0} /\ DOMAIN selectBasicBlock \subseteq Incoming(phi)
        /\ \A i, j : With(i, j)
    BY LastStands DEF Types
  <2>3. PICK r \in DOMAIN selectBasicBlock : Top(r) /\ selectBasicBlock[r] = Len(selects)
    BY LastStands
  <2>4. ASSUME NEW i \in Incoming(phi)
        PROVE  \E n \in 1..Len(selects) : Value(i) \in Operands(selects[n])
    <3>1. i \in DOMAIN selectBasicBlock
      BY <2>1, <2>3 DEF Merged
    <3> QED
      BY <3>1 DEF Merged
  <2>5. ASSUME NEW m \in 1..(Len(selects) - 1)
        PROVE  \E n \in (m + 1)..Len(selects) : Select(m) \in Operands(selects[n])
    <3>1. m \in 1..Len(selects) /\ m # Len(selects)
      BY <2>1
    <3>2. ASSUME NEW i \in DOMAIN selectBasicBlock, Top(i) PROVE i = r
      <4>1. i \in Incoming(phi) /\ r \in Incoming(phi)
        BY <2>1
      <4>2. addr[i] <= addr[r] /\ addr[r] <= addr[i]
        BY <2>1, <2>3, <3>2, <4>1 DEF Top
      <4>3. addr[i] \in Int /\ addr[r] \in Int
        BY <4>1 DEF MapIs
      <4> QED
        BY <4>1, <4>2, <4>3 DEF MapIs
    <3> QED
      BY <2>3, <3>1, <3>2 DEF Merged
  <2> QED
    BY <2>4, <2>5
<1> HIDE DEF I
<1> QED
  BY <1>1, <1>2, <1>3, PTL DEF Spec

-----------------------------------------------------------------------------
(* Executions, and the operand the phi takes.                                 *)

LEMMA FollowIs ==
  ASSUME NEW f, WellFormed(f), NEW env, NEW b \in f.block
  PROVE  /\ Follow(f, env, b) \in f.block
         /\ Follow(f, env, b) \in SuccSet(f, b) \/ Follow(f, env, b) = b
         /\ IsConditional(f, b) => Follow(f, env, b) = f.succ[b][IF env[b] THEN 1 ELSE 2]
         /\ Len(f.succ[b]) = 1 => Follow(f, env, b) = f.succ[b][1]
<1>1. CASE f.succ[b] = <<>>
  BY <1>1 DEF Follow, IsConditional
<1>2. CASE Len(f.succ[b]) = 1 /\ f.succ[b] # <<>>
  BY <1>2, Successors DEF Follow, IsConditional
<1>3. CASE Len(f.succ[b]) = 2 /\ f.succ[b] # <<>>
  <2>1. Follow(f, env, b) = f.succ[b][IF env[b] THEN 1 ELSE 2]
    BY <1>3 DEF Follow
  <2>2. Follow(f, env, b) \in {f.succ[b][1], f.succ[b][2]}
    BY <2>1
  <2> QED
    BY <1>3, <2>1, <2>2, Successors
<1> QED
  BY <1>1, <1>2, <1>3, Successors

\* at is an execution.
Runs(f, env, at) ==
  at \in [Nat -> f.block] /\ at[0] = f.entry /\ \A n \in Nat : at[n + 1] = Follow(f, env, at[n])

LEMMA ExecutionIs ==
  ASSUME NEW f, WellFormed(f), f.entry \in f.block, NEW env
  PROVE  Runs(f, env, Execution(f, env))
<1> DEFINE V == f.block
           G == [x \in Nat \X V |-> Follow(f, env, x[2])]
           at == CHOOSE s : s = [n \in Nat |-> IF n = 0 THEN f.entry ELSE Follow(f, env, s[n - 1])]
<1>1. G \in [Nat \X V -> V]
  BY FollowIs
<1>2. PICK r : Recursion(r, V, f.entry, G)
  <2> HIDE DEF V, G
  <2>1. f.entry \in V
    BY DEF V
  <2> QED
    BY <1>1, <2>1, RecursiveFunction
<1>3. \A n \in Nat \ {0} : r[n - 1] \in V /\ G[<<n, r[n - 1]>>] = Follow(f, env, r[n - 1])
  <2> SUFFICES ASSUME NEW n \in Nat \ {0}
               PROVE  r[n - 1] \in V /\ G[<<n, r[n - 1]>>] = Follow(f, env, r[n - 1])
    OBVIOUS
  <2>1. n - 1 \in Nat
    OBVIOUS
  <2>2. r[n - 1] \in V
    BY <1>2, <2>1 DEF Recursion
  <2> QED
    BY <2>2
<1>4. r = [n \in Nat |-> IF n = 0 THEN f.entry ELSE Follow(f, env, r[n - 1])]
  <2> HIDE DEF V, G
  <2> QED
    BY <1>2, <1>3 DEF Recursion
<1>5. at = [n \in Nat |-> IF n = 0 THEN f.entry ELSE Follow(f, env, at[n - 1])]
  BY <1>4
<1>6. Execution(f, env) = at
  BY DEF Execution
<1> HIDE DEF at
<1>7. ASSUME NEW n \in Nat PROVE at[n + 1] = Follow(f, env, at[n])
  <2>1. n + 1 \in Nat /\ n + 1 # 0 /\ (n + 1) - 1 = n
    OBVIOUS
  <2> QED
    BY <1>5, <2>1
<1>8. at[0] = f.entry
  BY <1>5
<1>9. \A n \in Nat : at[n] \in f.block
  <2> DEFINE S == {n \in Nat : at[n] \in f.block}
  <2>1. \A n \in Nat : n \in S => n + 1 \in S
    BY <1>7, FollowIs
  <2>2. 0 \in S
    BY <1>8
  <2>3. Nat \subseteq S
    <3> HIDE DEF S
    <3> QED
      BY <2>1, <2>2, NatInd
  <2> QED
    BY <2>3
<1>10. at \in [Nat -> f.block]
  BY <1>5, <1>9
<1> QED
  BY <1>6, <1>7, <1>8, <1>10 DEF Runs

\* Control enters the phi's block for the first time from that of operand k.
Enters(p, at, n, k) ==
  /\ n \in Nat /\ at[n] = p.inc[k] /\ at[n + 1] = p.join
  /\ \A m \in 0..n : at[m] # p.join

LEMMA EntryIsNotJoin ==
  ASSUME NEW p, WellFormedPhi(p), Incoming(p) # {}
  PROVE  p.g.entry \in p.g.block /\ p.g.entry # p.join
<1>1. PICK i \in Incoming(p) : TRUE
  OBVIOUS
<1>2. Tree(p.g) /\ p.inc[i] \in p.g.block
  BY PhiIs
<1>3. p.g.entry \in p.g.dom[p.inc[i]]
  BY <1>2, DomSelf
<1> QED
  BY <1>2, <1>3 DEF WellFormedPhi, Tree

LEMMA EntersIs ==
  ASSUME NEW p, WellFormedPhi(p), Incoming(p) # {}, NEW env,
         \/ PhiValue(p, env) # 0
         \/ \E n \in 0..Cardinality(p.g.block) : Execution(p.g, env)[n + 1] = p.join
  PROVE  /\ PhiValue(p, env) \in Incoming(p)
         /\ \E n : Enters(p, Execution(p.g, env), n, PhiValue(p, env))
<1> DEFINE at == Execution(p.g, env)
           enters == {n \in 0..Cardinality(p.g.block) : at[n + 1] = p.join}
           first == CHOOSE n \in enters : \A m \in enters : n <= m
<1>1. WellFormed(p.g) /\ p.g.entry \in p.g.block /\ p.g.entry # p.join
      /\ Cardinality(p.g.block) \in Nat
  BY EntryIsNotJoin, FS_CardinalityType DEF WellFormedPhi
<1>2. Runs(p.g, env, at)
  BY <1>1, ExecutionIs
<1>3. PhiValue(p, env) = IF enters = {} THEN 0 ELSE CHOOSE i \in Incoming(p) : p.inc[i] = at[first]
  BY DEF PhiValue
<1>4. enters # {} /\ enters \in SUBSET Nat
  BY <1>1, <1>3
<1> HIDE DEF at
<1>5. first \in enters /\ \A m \in enters : first <= m
  <2>1. \E n \in enters : \A m \in enters : n <= m
    <3> HIDE DEF enters
    <3> QED
      BY <1>4, LeastNat
  <2> HIDE DEF enters
  <2> QED
    BY <2>1
<1> HIDE DEF first
<1>6. first \in Nat /\ at[first + 1] = p.join /\ first <= Cardinality(p.g.block)
  BY <1>1, <1>5
<1>7. ASSUME NEW m \in 0..first PROVE at[m] # p.join
  <2>1. CASE m = 0
    BY <1>1, <1>2, <2>1 DEF Runs
  <2>2. CASE m # 0
    <3>1. m - 1 \in 0..Cardinality(p.g.block) /\ m - 1 < first /\ (m - 1) + 1 = m /\ ~(first <= m - 1)
      BY <1>1, <1>6, <2>2
    <3>2. m - 1 \notin enters
      BY <1>5, <3>1
    <3> QED
      BY <3>1, <3>2
  <2> QED
    BY <2>1, <2>2
<1>8. at[first] \in p.g.block /\ at[first] # p.join /\ Follow(p.g, env, at[first]) = p.join
  BY <1>2, <1>6, <1>7 DEF Runs
<1>9. p.join \in SuccSet(p.g, at[first])
  BY <1>1, <1>8, FollowIs
<1>10. \E i \in Incoming(p) : p.inc[i] = at[first]
  BY <1>8, <1>9 DEF WellFormedPhi, Preds
<1>11. PhiValue(p, env) \in Incoming(p) /\ at[first] = p.inc[PhiValue(p, env)]
  BY <1>3, <1>4, <1>10
<1>12. Enters(p, at, first, PhiValue(p, env))
  BY <1>6, <1>7, <1>11 DEF Enters
<1> QED
  BY <1>11, <1>12 DEF at

\* What dominates the block from which it does, control has been through.
LEMMA ComesBy ==
  ASSUME NEW f, Tree(f), WellFormed(f), NEW env, NEW at, Runs(f, env, at), NEW n \in Nat,
         NEW d \in f.dom[at[n]]
  PROVE  \E m \in 0..n : at[m] = d
<1> SUFFICES ASSUME \A m \in 0..n : at[m] # d PROVE FALSE
  OBVIOUS
<1>1. \A m \in Nat : at[m] \in f.block /\ at[m + 1] = Follow(f, env, at[m])
  BY DEF Runs
<1>2. d \in f.block /\ at[n] \notin Without(f, d)
  BY <1>1, DomIs
<1> DEFINE S == {m \in Nat : m <= n => at[m] \in Without(f, d)}
<1>3. 0 \in S
  BY <1>2, WithoutIs DEF Runs
<1>4. ASSUME NEW m \in Nat, m \in S PROVE m + 1 \in S
  <2> SUFFICES ASSUME m + 1 <= n PROVE at[m + 1] \in Without(f, d)
    OBVIOUS
  <2>1. at[m] \in Without(f, d) /\ m + 1 \in 0..n
    BY <1>4
  <2>2. at[m + 1] \in SuccSet(f, at[m]) \/ at[m + 1] = at[m]
    BY <1>1, FollowIs
  <2> QED
    BY <1>2, <2>1, <2>2, WithoutIs
<1>5. Nat \subseteq S
  <2> HIDE DEF S
  <2> QED
    BY <1>3, <1>4, NatInd
<1> QED
  BY <1>2, <1>5

\* The operand taken comes on the side that its branches take.
LEMMA SideTaken ==
  ASSUME NEW p, WellFormedPhi(p), NEW env, NEW k \in Incoming(p), NEW n, NEW at,
         Runs(p.g, env, at), Enters(p, at, n, k),
         NEW d \in p.g.dom[p.inc[k]], IsConditional(p.g, d)
  PROVE  k \in From(p, d, IF env[d] THEN 1 ELSE 2)
<1> DEFINE f == p.g
           side == IF env[d] THEN 1 ELSE 2
           R == ReachAvoiding(f, {f.succ[d][side]}, {p.join})
<1>1. /\ Tree(f) /\ WellFormed(f) /\ Graph(f) /\ d \in f.block /\ p.inc[k] \in f.block
      /\ \A m \in Nat : at[m] \in f.block /\ at[m + 1] = Follow(f, env, at[m])
  <2>1. Tree(f) /\ WellFormed(f) /\ p.inc[k] \in f.block
    BY PhiIs DEF WellFormedPhi
  <2>2. d \in f.block
    BY <2>1, DomIs
  <2> QED
    BY <2>1, <2>2 DEF Tree, Runs
<1>2. Follow(f, env, d) = f.succ[d][side]
  BY <1>1, FollowIs
<1>3. n \in Nat /\ at[n] = p.inc[k] /\ at[n + 1] = p.join /\ \A m \in 0..n : at[m] # p.join
  BY DEF Enters
<1>4. CASE p.inc[k] = d
  BY <1>1, <1>2, <1>3, <1>4 DEF From
<1>5. CASE p.inc[k] # d
  <2>1. PICK m \in 0..n : at[m] = d
    <3>1. Tree(f) /\ WellFormed(f) /\ Runs(f, env, at) /\ n \in Nat /\ d \in f.dom[at[n]]
      BY <1>1, <1>3
    <3> HIDE DEF f, side, R
    <3> QED
      BY <3>1, ComesBy
  <2>2. m \in Nat /\ m + 1 <= n /\ at[m + 1] = f.succ[d][side]
    BY <1>1, <1>2, <1>3, <1>5, <2>1
  <2>3. f.succ[d][side] \in f.block /\ f.succ[d][side] # p.join
    BY <1>1, <1>3, <2>2
  <2>4. f.succ[d][side] \in R /\ Closed(f, R, {p.join})
    <3> DEFINE x == f.succ[d][side]
    <3>1. x \in f.block /\ x \notin {p.join} /\ {x} \in SUBSET f.block
      BY <2>3
    <3> HIDE DEF x
    <3>2. x \in ReachAvoiding(f, {x}, {p.join}) /\ Closed(f, ReachAvoiding(f, {x}, {p.join}), {p.join})
      BY <1>1, <3>1, ReachIs
    <3> QED
      BY <3>2 DEF x
  <2> DEFINE S == {l \in Nat : (m + 1) + l <= n => at[(m + 1) + l] \in R}
  <2>5. 0 \in S
    BY <2>2, <2>4
  <2>6. ASSUME NEW l \in Nat, l \in S PROVE l + 1 \in S
    <3> SUFFICES ASSUME (m + 1) + (l + 1) <= n PROVE at[(m + 1) + (l + 1)] \in R
      OBVIOUS
    <3> DEFINE q == (m + 1) + l
    <3>1. q \in Nat /\ q + 1 = (m + 1) + (l + 1) /\ q <= n /\ q + 1 \in 0..n
      BY <1>3, <2>2
    <3> HIDE DEF q
    <3>2. at[q] \in R
      BY <2>6, <3>1 DEF q
    <3>3. (at[q + 1] \in SuccSet(f, at[q]) \/ at[q + 1] = at[q]) /\ at[q + 1] # p.join
      BY <1>1, <1>3, <3>1, FollowIs
    <3>4. at[q + 1] \in R
      BY <1>1, <2>4, <3>1, <3>2, <3>3 DEF Closed
    <3> QED
      BY <3>1, <3>4
  <2>7. Nat \subseteq S
    <3> HIDE DEF S
    <3> QED
      BY <2>5, <2>6, NatInd
  <2>8. at[n] \in R
    <3>1. n - (m + 1) \in Nat /\ (m + 1) + (n - (m + 1)) = n
      BY <1>3, <2>2
    <3>2. n - (m + 1) \in S
      BY <2>7, <3>1
    <3> QED
      BY <3>1, <3>2
  <2> QED
    BY <1>3, <1>5, <2>8 DEF From
<1> QED
  BY <1>4, <1>5

-----------------------------------------------------------------------------
(* What the selects come to.                                                  *)

LEMMA ThenFirstInTurn ==
  ASSUME NEW p, Separated(p), ThenFirst(p)
  PROVE  /\ InTurn(p)
         /\ \A i, j \in Incoming(p) : i < j =>
              LET d == Branch(p, i, j)
              IN  i \in From(p, d, 1) \ From(p, d, 2) /\ j \in From(p, d, 2) \ From(p, d, 1)
<1>1. ASSUME NEW i \in Incoming(p), NEW j \in Incoming(p), i < j
      PROVE  LET d == Branch(p, i, j)
             IN  i \in From(p, d, 1) \ From(p, d, 2) /\ j \in From(p, d, 2) \ From(p, d, 1)
  <2> DEFINE d == Branch(p, i, j)
  <2>1. i \in From(p, d, 1) /\ j \in From(p, d, 2) /\ i # j
    BY <1>1 DEF ThenFirst, Incoming
  <2>2. PICK s \in {1, 2}, u \in {1, 2} : /\ i \in From(p, d, s) \ From(p, d, u)
                                           /\ j \in From(p, d, u) \ From(p, d, s)
    BY <2>1 DEF Separated
  <2> HIDE DEF d
  <2>3. s = 1 /\ u = 2
    BY <2>1, <2>2
  <2> QED
    BY <2>2, <2>3 DEF d
<1>2. ASSUME NEW i \in Incoming(p), NEW j \in Incoming(p), NEW k \in Incoming(p),
             i < j, j < k, Branch(p, i, j) = Branch(p, j, k)
      PROVE  FALSE
  <2>1. j \in From(p, Branch(p, i, j), 2) \ From(p, Branch(p, i, j), 1)
    BY <1>1, <1>2
  <2>2. j \in From(p, Branch(p, j, k), 1) \ From(p, Branch(p, j, k), 2)
    BY <1>1, <1>2
  <2> QED
    BY <1>2, <2>1, <2>2
<1> QED
  BY <1>1, <1>2 DEF InTurn

\* The value of an operand where the selects have the values v.
Comes(v, o) == IF o.select THEN v[o.of] ELSE o.of

Taken(env, s) == IF env[s.cond] THEN s.then ELSE s.els

Solves(env, v, n) == \A m \in 1..n : v[m] = Comes(v, Taken(env, selects[m]))

\* What stands for the group of the operand the phi takes has its value.
Computes ==
  \A env \in Environments(phi.g) : \A k \in Incoming(phi) :
    PhiValue(phi, env) = k =>
      \A v : Solves(env, v, Len(selects)) =>
        \A i \in Incoming(phi) : Top(i) /\ With(k, i) => Comes(v, Operand(i)) = k

\* The branch of two operands goes to the side of the one that is taken.
LEMMA Chooses ==
  ASSUME NEW p, WellFormedPhi(p), Separated(p), ThenFirst(p),
         NEW env \in Environments(p.g), NEW i \in Incoming(p), NEW j \in Incoming(p), i < j
  PROVE  /\ PhiValue(p, env) = i => env[Branch(p, i, j)]
         /\ PhiValue(p, env) = j => ~env[Branch(p, i, j)]
<1> DEFINE d == Branch(p, i, j)
<1>1. Tree(p.g) /\ WellFormed(p.g) /\ p.g.entry \in p.g.block /\ i # j /\ i # 0 /\ j # 0
  BY PhiIs DEF WellFormedPhi, Tree, Incoming
<1>2. IsConditional(p.g, d) /\ d \in p.g.dom[p.inc[i]] /\ d \in p.g.dom[p.inc[j]] /\ d \in p.g.block
  BY <1>1, BranchIs DEF Separated
<1>3. env[d] \in BOOLEAN
  BY <1>2 DEF Environments
<1>4. i \in From(p, d, 1) \ From(p, d, 2) /\ j \in From(p, d, 2) \ From(p, d, 1)
  BY ThenFirstInTurn
<1> HIDE DEF d
<1>5. ASSUME NEW k \in {i, j}, PhiValue(p, env) = k
      PROVE  k \in From(p, d, IF env[d] THEN 1 ELSE 2)
  <2>1. PICK n : Enters(p, Execution(p.g, env), n, k)
    BY <1>1, <1>5, EntersIs
  <2>2. Runs(p.g, env, Execution(p.g, env))
    BY <1>1, ExecutionIs
  <2> QED
    BY <1>2, <1>5, <2>1, <2>2, SideTaken
<1>6. PhiValue(p, env) = i => env[d] = TRUE
  BY <1>3, <1>4, <1>5
<1>7. PhiValue(p, env) = j => env[d] = FALSE
  BY <1>3, <1>4, <1>5
<1> QED
  BY <1>6, <1>7 DEF d

LEMMA HandlesComputes ==
  ASSUME MapIs, Types, ThenFirst(phi), Merged, Computes, NEW t, Handles(t)
  PROVE  Computes'
<1> DEFINE n == Len(selects) + 1
           d == Branch(phi, t[1], t[2])
<1>1. WellFormedPhi(phi) /\ Separated(phi) /\ InTurn(phi)
  BY PhisAssumption, ThenFirstInTurn DEF MapIs
<1>2. /\ Len(selects') = n /\ n \in Nat /\ Len(selects) \in Nat
      /\ \A m \in 1..Len(selects) : selects'[m] = selects[m]
      /\ selects'[n] = [cond |-> d, then |-> Operand(t[1]), els |-> Operand(t[2])]
      /\ DOMAIN selectBasicBlock' = DOMAIN selectBasicBlock \cup {t[1], t[2]}
      /\ selectBasicBlock'[t[1]] = n /\ selectBasicBlock'[t[2]] = n
      /\ \A k \in DOMAIN selectBasicBlock \ {t[1], t[2]} : selectBasicBlock'[k] = selectBasicBlock[k]
  <2>1. Len(selects) \in Nat
    BY DEF Types
  <2> QED
    BY <2>1, SelectForIs
<1>3. /\ t[1] \in Incoming(phi) /\ t[2] \in Incoming(phi) /\ t[1] # t[2] /\ t[1] < t[2]
      /\ phi' = phi /\ addr' = addr
  BY DEF Handles, Incoming
<1>4. \A x, y \in Incoming(phi) :
        With(x, y)' <=> \/ With(x, y)
                        \/ With(x, t[1]) /\ With(y, t[2])
                        \/ With(x, t[2]) /\ With(y, t[1])
  BY GroupsUnite
<1>5. /\ \A i \in Incoming(phi) : With(i, i)
      /\ \A i, j \in Incoming(phi) : With(i, j) => With(j, i)
      /\ \A i, j, k \in Incoming(phi) : With(i, j) /\ With(j, k) => With(i, k)
  BY WithIs
<1>6. Top(t[1]) /\ Top(t[2])
  BY <1>1, HandlesTops
<1> SUFFICES ASSUME NEW env \in Environments(phi.g), NEW k \in Incoming(phi), PhiValue(phi, env) = k,
                    NEW v, Solves(env, v, Len(selects))', NEW i \in Incoming(phi), Top(i)', With(k, i)'
             PROVE  Comes(v, Operand(i)') = k
  BY <1>2, <1>3 DEF Computes, Comes
<1>7. Solves(env, v, Len(selects)) /\ v[n] = Comes(v, Taken(env, selects'[n]))
  <2>1. \A m \in 1..n : v[m] = Comes(v, Taken(env, selects'[m]))
    BY <1>2 DEF Solves, Comes, Taken
  <2>2. \A m \in 1..Len(selects) : m \in 1..n
    BY <1>2
  <2>3. n \in 1..n
    BY <1>2
  <2> QED
    BY <1>2, <2>1, <2>2, <2>3 DEF Solves
<1>8. \A j \in Incoming(phi) : Top(j) /\ With(k, j) => Comes(v, Operand(j)) = k
  BY <1>7 DEF Computes
<1>9. \A x \in Incoming(phi) : With(x, i)' => addr[x] <= addr[i]
  BY <1>3 DEF Top
<1>10. Top(i)
  BY <1>4, <1>9 DEF Top
<1>11. ASSUME NEW j \in {t[1], t[2]}, With(i, j)
       PROVE  i \in {t[1], t[2]}
  <2>1. addr[i] <= addr[j] /\ addr[j] <= addr[i] /\ addr[i] \in Int /\ addr[j] \in Int
    BY <1>3, <1>5, <1>6, <1>10, <1>11 DEF Top, MapIs
  <2>2. i = j
    BY <1>3, <2>1 DEF MapIs
  <2> QED
    BY <2>2
<1>12. CASE i \in {t[1], t[2]}
  <2>1. Operand(i)' = Select(n)
    BY <1>2, <1>12 DEF Operand, Select
  <2>2. Comes(v, Operand(i)') = v[n]
    BY <2>1 DEF Comes, Select
  <2>3. With(k, t[1]) \/ With(k, t[2])
    BY <1>3, <1>4, <1>5, <1>12
  <2>4. CASE With(k, t[1])
    <3>1. k < t[2] /\ Branch(phi, k, t[2]) = d
      BY <1>1, <1>3, <1>5, <2>4, GroupsInTurn, ApartIs
    <3>2. env[d]
      BY <1>1, <1>3, <3>1, Chooses
    <3>3. v[n] = Comes(v, Operand(t[1]))
      BY <1>2, <1>7, <3>2 DEF Taken
    <3> QED
      BY <1>3, <1>6, <1>8, <2>2, <2>4, <3>3
  <2>5. CASE With(k, t[2])
    <3>1. t[1] < k /\ Branch(phi, t[1], k) = d
      BY <1>1, <1>3, <1>5, <2>5, GroupsInTurn, ApartIs
    <3>2. ~env[d]
      BY <1>1, <1>3, <3>1, Chooses
    <3>3. v[n] = Comes(v, Operand(t[2]))
      BY <1>2, <1>7, <3>2 DEF Taken
    <3> QED
      BY <1>3, <1>6, <1>8, <2>2, <2>5, <3>3
  <2> QED
    BY <2>3, <2>4, <2>5
<1>13. CASE i \notin {t[1], t[2]}
  <2>1. ~With(i, t[1]) /\ ~With(i, t[2])
    BY <1>11, <1>13
  <2>2. With(k, i)
    BY <1>4, <2>1
  <2>3. Operand(i)' = Operand(i)
    BY <1>2, <1>13 DEF Operand, Select, Value
  <2> QED
    BY <1>8, <1>10, <2>2, <2>3
<1> QED
  BY <1>12, <1>13

\* The selects have values: each is made of those of earlier ones.
LEMMA ValuesThere ==
  ASSUME MapIs, Types, NEW env
  PROVE  \E v : DOMAIN v = 1..Len(selects) /\ Solves(env, v, Len(selects))
                /\ v = [n \in 1..Len(selects) |-> v[n]]
<1>1. Len(selects) \in Nat
  BY DEF Types
<1>2. \A m \in 1..Len(selects) :
        LET o == Taken(env, selects[m]) IN o.select => o.of \in 1..(m - 1)
  <2> SUFFICES ASSUME NEW m \in 1..Len(selects), Taken(env, selects[m]).select
               PROVE  Taken(env, selects[m]).of \in 1..(m - 1)
    OBVIOUS
  <2>1. Taken(env, selects[m]) \in Operands(selects[m])
    BY DEF Taken, Operands
  <2> QED
    BY <2>1 DEF Types
<1> DEFINE S == {n \in Nat : n <= Len(selects) => \E v : Solves(env, v, n)}
<1>3. 0 \in S
  BY DEF Solves
<1>4. ASSUME NEW n \in Nat, n \in S PROVE n + 1 \in S
  <2> SUFFICES ASSUME n + 1 <= Len(selects) PROVE \E w : Solves(env, w, n + 1)
    OBVIOUS
  <2>1. PICK v : Solves(env, v, n)
    BY <1>1, <1>4
  <2> DEFINE w == [m \in 1..(n + 1) |-> IF m = n + 1 THEN Comes(v, Taken(env, selects[n + 1])) ELSE v[m]]
  <2>2. \A m \in 1..n : w[m] = v[m]
    OBVIOUS
  <2>3. w[n + 1] = Comes(v, Taken(env, selects[n + 1]))
    OBVIOUS
  <2> HIDE DEF w
  <2>4. ASSUME NEW m \in 1..(n + 1) PROVE Comes(v, Taken(env, selects[m])) = Comes(w, Taken(env, selects[m]))
    <3> DEFINE o == Taken(env, selects[m])
    <3>1. o.select => o.of \in 1..(m - 1)
      BY <1>1, <1>2
    <3>2. \A l \in 1..(m - 1) : l \in 1..n
      OBVIOUS
    <3> HIDE DEF o
    <3>3. o.select => v[o.of] = w[o.of]
      BY <2>2, <3>1, <3>2
    <3> QED
      BY <3>3 DEF Comes, o
  <2>5. ASSUME NEW m \in 1..(n + 1) PROVE w[m] = Comes(v, Taken(env, selects[m]))
    <3>1. m = n + 1 \/ m \in 1..n
      OBVIOUS
    <3> QED
      BY <2>1, <2>2, <2>3, <3>1 DEF Solves
  <2>6. Solves(env, w, n + 1)
    BY <2>4, <2>5 DEF Solves
  <2> QED
    BY <2>6
<1>5. Nat \subseteq S
  <2> HIDE DEF S
  <2> QED
    BY <1>3, <1>4, NatInd
<1>6. PICK v : Solves(env, v, Len(selects))
  BY <1>1, <1>5
<1> DEFINE w == [n \in 1..Len(selects) |-> v[n]]
<1>7. \A m \in 1..Len(selects) : w[m] = v[m]
  OBVIOUS
<1> HIDE DEF w
<1>8. ASSUME NEW m \in 1..Len(selects) PROVE w[m] = Comes(w, Taken(env, selects[m]))
  <2> DEFINE o == Taken(env, selects[m])
  <2>1. o.select => o.of \in 1..(m - 1)
    BY <1>2
  <2>2. \A l \in 1..(m - 1) : l \in 1..Len(selects)
    BY <1>1
  <2>3. v[m] = Comes(v, o) /\ w[m] = v[m]
    BY <1>6, <1>7 DEF Solves
  <2> HIDE DEF o
  <2>4. o.select => v[o.of] = w[o.of]
    BY <1>7, <2>1, <2>2
  <2> QED
    BY <2>3, <2>4 DEF Comes, o
<1>9. Solves(env, w, Len(selects)) /\ DOMAIN w = 1..Len(selects) /\ w = [n \in 1..Len(selects) |-> w[n]]
  BY <1>8 DEF Solves, w
<1> QED
  BY <1>9

\* The value of the last select is that of a solution.
LEMMA SelectValueIs ==
  ASSUME MapIs, Types, NEW env
  PROVE  \E v : Solves(env, v, Len(selects)) /\ SelectValue(env) = v[Len(selects)]
<1> DEFINE operand(val, o) == IF o.select THEN val[o.of] ELSE o.of
           value == CHOOSE v : v = [n \in 1..Len(selects) |->
                      LET s == selects[n] IN operand(v, IF env[s.cond] THEN s.then ELSE s.els)]
<1>1. PICK w : Solves(env, w, Len(selects)) /\ w = [n \in 1..Len(selects) |-> w[n]]
  BY ValuesThere
<1>2. w = [n \in 1..Len(selects) |-> Comes(w, Taken(env, selects[n]))]
  BY <1>1 DEF Solves
<1>3. w = [n \in 1..Len(selects) |->
             LET s == selects[n] IN operand(w, IF env[s.cond] THEN s.then ELSE s.els)]
  BY <1>2 DEF Comes, Taken
<1>4. value = [n \in 1..Len(selects) |->
                 LET s == selects[n] IN operand(value, IF env[s.cond] THEN s.then ELSE s.els)]
  BY <1>3
<1>5. SelectValue(env) = value[Len(selects)]
  BY DEF SelectValue
<1> HIDE DEF value
<1>6. Solves(env, value, Len(selects))
  BY <1>4 DEF Solves, Comes, Taken
<1> QED
  BY <1>5, <1>6

-----------------------------------------------------------------------------
(* Some execution comes to the phi.                                           *)

LEMMA FollowSame ==
  ASSUME NEW f, WellFormed(f), NEW b \in f.block, NEW env, NEW other,
         IsConditional(f, b) => env[b] = other[b]
  PROVE  Follow(f, env, b) = Follow(f, other, b)
<1>1. CASE f.succ[b] = <<>>
  BY <1>1 DEF Follow
<1>2. CASE Len(f.succ[b]) = 1 /\ f.succ[b] # <<>>
  BY <1>2 DEF Follow
<1>3. CASE Len(f.succ[b]) = 2 /\ f.succ[b] # <<>>
  BY <1>3 DEF Follow, IsConditional
<1> QED
  BY <1>1, <1>2, <1>3, Successors

\* w is a walk of n steps to x.
Walks(f, env, w, n, x) ==
  w[n] = x /\ \A m \in 0..n : w[m] \in f.block /\ (m < n => w[m + 1] = Follow(f, env, w[m]))

\* A block before one from which there is a walk: the walk passes it already,
\* or its branch can be made to lead to it.
LEMMA WalkBack ==
  ASSUME NEW f, WellFormed(f), NEW x, NEW a \in f.block, NEW s \in SuccSet(f, a),
         NEW env \in Environments(f), NEW w, NEW n \in Nat, Walks(f, env, w, n, x), w[0] = s
  PROVE  \E other \in Environments(f), l \in Nat : \E v : Walks(f, other, v, l, x) /\ v[0] = a
<1>1. CASE \E m \in 0..n : w[m] = a
  <2>1. PICK m \in 0..n : w[m] = a
    BY <1>1
  <2> DEFINE v == [l \in 0..(n - m) |-> w[m + l]]
             k == n - m
  <2>2. k \in Nat /\ m + k = n /\ v[0] = a /\ v[k] = w[n]
    BY <2>1
  <2>3. ASSUME NEW l \in 0..k
        PROVE  v[l] \in f.block /\ (l < k => v[l + 1] = Follow(f, env, v[l]))
    <3>1. m + l \in 0..n /\ v[l] = w[m + l]
      BY <2>1
    <3>2. l < k => v[l + 1] = w[(m + l) + 1] /\ m + l < n
      BY <2>1
    <3> QED
      BY <3>1, <3>2 DEF Walks
  <2> HIDE DEF v, k
  <2>4. Walks(f, env, v, k, x)
    BY <2>2, <2>3 DEF Walks
  <2> QED
    BY <2>2, <2>4
<1>2. CASE \A m \in 0..n : w[m] # a
  <2> DEFINE other == IF IsConditional(f, a) THEN [env EXCEPT ![a] = (f.succ[a][1] = s)] ELSE env
             v == [m \in 0..(n + 1) |-> IF m = 0 THEN a ELSE w[m - 1]]
  <2>1. /\ other \in Environments(f)
        /\ IsConditional(f, a) => other[a] = (f.succ[a][1] = s)
        /\ \A b \in f.block : IsConditional(f, b) /\ b # a => other[b] = env[b]
    BY DEF Environments
  <2>2. v[0] = a /\ \A m \in 0..n : v[m + 1] = w[m]
    OBVIOUS
  <2> HIDE DEF other, v
  <2>3. Follow(f, other, a) = s
    <3>1. CASE Len(f.succ[a]) = 1
      <4>1. SuccSet(f, a) = {f.succ[a][1]}
        BY <3>1, Successors
      <4> QED
        BY <3>1, <4>1, FollowIs
    <3>2. CASE IsConditional(f, a)
      <4>1. s = f.succ[a][1] \/ s = f.succ[a][2]
        BY <3>2, Successors DEF IsConditional
      <4>2. Follow(f, other, a) = f.succ[a][IF other[a] THEN 1 ELSE 2]
        BY <3>2, FollowIs
      <4> QED
        BY <2>1, <3>2, <4>1, <4>2
    <3> QED
      BY <3>1, <3>2, Successors DEF IsConditional
  <2>4. \A m \in 0..n : w[m] \in f.block /\ (m < n => w[m + 1] = Follow(f, other, w[m]))
    <3> SUFFICES ASSUME NEW m \in 0..n
                 PROVE  w[m] \in f.block /\ (m < n => w[m + 1] = Follow(f, other, w[m]))
      OBVIOUS
    <3>1. w[m] \in f.block /\ w[m] # a /\ (m < n => w[m + 1] = Follow(f, env, w[m]))
      BY <1>2 DEF Walks
    <3>2. Follow(f, other, w[m]) = Follow(f, env, w[m])
      BY <2>1, <3>1, FollowSame
    <3> QED
      BY <3>1, <3>2
  <2>5. ASSUME NEW m \in 0..(n + 1)
        PROVE  v[m] \in f.block /\ (m < n + 1 => v[m + 1] = Follow(f, other, v[m]))
    <3>1. CASE m = 0
      BY <2>2, <2>3, <3>1
    <3>2. CASE m # 0
      <4> DEFINE l == m - 1
      <4>1. l \in 0..n /\ l + 1 = m
        BY <3>2
      <4> HIDE DEF l
      <4>2. v[m] = w[l] /\ w[l] \in f.block
        BY <2>2, <2>4, <4>1
      <4>3. m < n + 1 => l < n /\ m \in 0..n
        BY <4>1
      <4>4. m < n + 1 => v[m + 1] = w[m] /\ w[m] = Follow(f, other, w[l])
        BY <2>2, <2>4, <4>1, <4>3
      <4> QED
        BY <4>2, <4>4
    <3> QED
      BY <3>1, <3>2
  <2>6. Walks(f, other, v, n + 1, x)
    <3>1. n \in 0..n
      OBVIOUS
    <3> QED
      BY <2>2, <2>5, <3>1 DEF Walks
  <2> QED
    BY <2>1, <2>2, <2>6
<1> QED
  BY <1>1, <1>2

LEMMA WalkThere ==
  ASSUME NEW f, Tree(f), WellFormed(f), NEW x \in f.block
  PROVE  \E env \in Environments(f), n \in Nat : \E w : Walks(f, env, w, n, x) /\ w[0] = f.entry
<1> DEFINE From0(b) == \E env \in Environments(f), n \in Nat : \E w : Walks(f, env, w, n, x) /\ w[0] = b
           T == {b \in f.block : ~From0(b)}
<1>1. From0(x)
  <2> DEFINE env == [b \in {c \in f.block : IsConditional(f, c)} |-> TRUE]
             w == [m \in 0..0 |-> x]
  <2>1. env \in Environments(f)
    BY DEF Environments
  <2>2. w[0] = x /\ \A m \in 0..0 : w[m] = x /\ ~(m < 0)
    OBVIOUS
  <2> HIDE DEF env, w
  <2>3. Walks(f, env, w, 0, x)
    BY <2>2 DEF Walks
  <2> QED
    BY <2>1, <2>2, <2>3
<1>2. ASSUME NEW b \in T, NEW s \in SuccSet(f, b) PROVE s \in T
  <2>1. b \in f.block /\ s \in f.block
    BY DEF Tree, Graph
  <2>2. From0(s) => From0(b)
    <3> SUFFICES ASSUME NEW env \in Environments(f), NEW n \in Nat, NEW w,
                        Walks(f, env, w, n, x), w[0] = s
                 PROVE  From0(b)
      OBVIOUS
    <3> QED
      BY <2>1, WalkBack
  <2> QED
    BY <2>1, <2>2
<1>3. f.entry \notin T
  <2> SUFFICES ASSUME f.entry \in T PROVE FALSE
    OBVIOUS
  <2>1. f.block \subseteq T
    <3> HIDE DEF T
    <3> QED
      BY <1>2, AllBlocks
  <2> QED
    BY <1>1, <2>1
<1> QED
  BY <1>3 DEF Tree

\* The first time control comes to a block, it has not been twice in another.
LEMMA FirstTime ==
  ASSUME NEW f, Tree(f), WellFormed(f), NEW env, NEW at, Runs(f, env, at), NEW n \in Nat
  PROVE  \E h \in Nat : at[h] = at[n] /\ h + 1 <= Cardinality(f.block)
<1> DEFINE H == {h \in Nat : at[h] = at[n]}
<1>1. H \in SUBSET Nat /\ H # {}
  OBVIOUS
<1>2. PICK h \in H : \A g \in H : h <= g
  <2> HIDE DEF H
  <2> QED
    BY <1>1, LeastNat
<1>3. h \in Nat /\ at[h] = at[n]
  OBVIOUS
<1>4. \A m \in Nat : at[m] \in f.block /\ at[m + 1] = Follow(f, env, at[m])
  BY DEF Runs
<1>5. ASSUME NEW a \in Nat, NEW b \in Nat, a < b, b <= h, at[a] = at[b] PROVE FALSE
  <2> DEFINE S == {m \in Nat : at[a + m] = at[b + m]}
  <2>1. 0 \in S
    BY <1>5
  <2>2. ASSUME NEW m \in Nat, m \in S PROVE m + 1 \in S
    <3>1. a + m \in Nat /\ b + m \in Nat /\ (a + m) + 1 = a + (m + 1) /\ (b + m) + 1 = b + (m + 1)
      OBVIOUS
    <3>2. at[(a + m) + 1] = at[(b + m) + 1]
      BY <1>4, <2>2, <3>1
    <3> QED
      BY <3>1, <3>2
  <2>3. Nat \subseteq S
    <3> HIDE DEF S
    <3> QED
      BY <2>1, <2>2, NatInd
  <2>4. h - b \in Nat /\ b + (h - b) = h /\ a + (h - b) \in Nat /\ ~(h <= a + (h - b))
    BY <1>3, <1>5
  <2>5. at[a + (h - b)] = at[h]
    BY <2>3, <2>4
  <2> QED
    BY <1>2, <1>3, <2>4, <2>5
<1>6. h + 1 <= Cardinality(f.block)
  <2> SUFFICES ASSUME ~(h + 1 <= Cardinality(f.block)) PROVE FALSE
    OBVIOUS
  <2>1. IsFiniteSet(f.block) /\ Cardinality(f.block) \in Nat
    BY FS_CardinalityType DEF Tree, Graph
  <2>2. IsFiniteSet(0..h) /\ Cardinality(0..h) = h + 1
    BY <1>3, FS_Interval
  <2> DEFINE w == [m \in 0..h |-> at[m]]
  <2>3. w \in [0..h -> f.block]
    BY <1>3, <1>4
  <2>4. \E y, z \in 0..h : y # z /\ w[y] = w[z]
    <3> HIDE DEF w
    <3> QED
      BY <1>3, <2>1, <2>2, <2>3, FS_PigeonHole
  <2>5. PICK y \in 0..h, z \in 0..h : y < z /\ at[y] = at[z]
    BY <1>3, <2>4
  <2> QED
    BY <1>3, <1>5, <2>5
<1> QED
  BY <1>3, <1>6

LEMMA SomeValue ==
  ASSUME NEW p, WellFormedPhi(p), Incoming(p) # {}
  PROVE  \E env \in Environments(p.g) : PhiValue(p, env) \in Incoming(p)
<1> DEFINE f == p.g
<1>1. Tree(f) /\ WellFormed(f) /\ p.join \in f.block /\ f.entry \in f.block /\ f.entry # p.join
  BY PhiIs, EntryIsNotJoin DEF WellFormedPhi
<1>2. PICK env \in Environments(f), n \in Nat :
        \E v : Walks(f, env, v, n, p.join) /\ v[0] = f.entry
  BY <1>1, WalkThere
<1>2a. PICK w : Walks(f, env, w, n, p.join) /\ w[0] = f.entry
  BY <1>2
<1> DEFINE at == Execution(f, env)
<1>3. Runs(f, env, at)
  BY <1>1, ExecutionIs
<1> HIDE DEF at
<1>4. at[n] = p.join
  <2> DEFINE S == {m \in Nat : m <= n => at[m] = w[m]}
  <2>1. 0 \in S
    BY <1>2a, <1>3 DEF Runs
  <2>2. ASSUME NEW m \in Nat, m \in S PROVE m + 1 \in S
    <3> SUFFICES ASSUME m + 1 <= n PROVE at[m + 1] = w[m + 1]
      OBVIOUS
    <3>1. m \in 0..n /\ m < n /\ at[m] = w[m]
      BY <2>2
    <3> QED
      BY <1>2a, <1>3, <3>1 DEF Runs, Walks
  <2>3. Nat \subseteq S
    <3> HIDE DEF S
    <3> QED
      BY <2>1, <2>2, NatInd
  <2> QED
    BY <1>2a, <2>3 DEF Walks
<1>5. PICK h \in Nat : at[h] = p.join /\ h + 1 <= Cardinality(f.block)
  BY <1>1, <1>3, <1>4, FirstTime
<1>6. Cardinality(f.block) \in Nat
  BY <1>1, FS_CardinalityType DEF Tree, Graph
<1>7. h # 0
  BY <1>1, <1>3, <1>5 DEF Runs
<1>8. h - 1 \in 0..Cardinality(f.block) /\ at[(h - 1) + 1] = p.join
  BY <1>5, <1>6, <1>7
<1>9. PhiValue(p, env) \in Incoming(p)
  BY <1>8, EntersIs DEF at
<1> QED
  BY <1>9

-----------------------------------------------------------------------------
(* The selects of a phi of two operands.                                      *)

OfTwo ==
  Len(phi.inc) = 2 =>
    \/ selectBasicBlock = [i \in {} |-> 0] /\ selects = <<>>
    \/ /\ DOMAIN commonDomMap = {}
       /\ selects = <<[cond |-> Branch(phi, 1, 2), then |-> Value(1), els |-> Value(2)]>>

LEMMA HandlesOfTwo ==
  ASSUME MapIs, Types, OfTwo, NEW t, Handles(t)
  PROVE  OfTwo'
<1>1. phi' = phi /\ t \in DOMAIN commonDomMap /\ t[1] \in Incoming(phi) /\ t[2] \in Incoming(phi)
      /\ t[1] < t[2]
  BY DEF Handles
<1> SUFFICES ASSUME Len(phi.inc) = 2
             PROVE  /\ DOMAIN commonDomMap' = {}
                    /\ selects' = <<[cond |-> Branch(phi, 1, 2), then |-> Value(1), els |-> Value(2)]>>
  BY <1>1 DEF OfTwo, Value
<1>2. selectBasicBlock = [i \in {} |-> 0] /\ selects = <<>>
  BY <1>1 DEF OfTwo
<1>3. t[1] = 1 /\ t[2] = 2
  BY <1>1 DEF Incoming
<1>4. selects' = Append(selects, [cond |-> commonDomMap[t], then |-> Operand(t[1]), els |-> Operand(t[2])])
  BY DEF Handles, SelectFor
<1>5. commonDomMap[t] = Branch(phi, 1, 2)
  BY <1>1, <1>3 DEF MapIs
<1>6. Operand(1) = Value(1) /\ Operand(2) = Value(2)
  BY <1>2 DEF Operand
<1>7. \A xy \in DOMAIN commonDomMap : xy[1] = 1 /\ xy[2] = 2
  BY DEF MapIs, Upward, Pairs, Incoming
<1>8. DOMAIN commonDomMap' = {}
  <2>1. DOMAIN commonDomMap' = Left(phi, DOMAIN commonDomMap, t)
    BY LeftIs
  <2> QED
    BY <1>3, <1>7, <2>1 DEF Left, SameBranch
<1> QED
  BY <1>2, <1>3, <1>4, <1>5, <1>6, <1>8

\* The one select of two operands has the value of the phi only if the first
\* operand is that of the true side.
LEMMA OtherOrderDiffers ==
  ASSUME MapIs, Types, OfTwo, selects # <<>>, Len(phi.inc) = 2,
         \A env \in Environments(phi.g) :
           PhiValue(phi, env) # 0 => SelectValue(env) = PhiValue(phi, env)
  PROVE  ThenFirst(phi)
<1> DEFINE d == Branch(phi, 1, 2)
<1>1. WellFormedPhi(phi) /\ Separated(phi) /\ Incoming(phi) = {1, 2}
  BY PhisAssumption DEF MapIs, Incoming
<1>2. Len(selects) = 1 /\ selects[1] = [cond |-> d, then |-> Value(1), els |-> Value(2)]
  BY DEF OfTwo
<1>3. IsConditional(phi.g, d) /\ \E s, t \in {1, 2} : /\ 1 \in From(phi, d, s) \ From(phi, d, t)
                                                      /\ 2 \in From(phi, d, t) \ From(phi, d, s)
  BY <1>1 DEF Separated
<1>4. d \in phi.g.block /\ d \in phi.g.dom[phi.inc[1]] /\ d \in phi.g.dom[phi.inc[2]]
  BY <1>1, BranchIs
<1> HIDE DEF d
<1>5. PICK env \in Environments(phi.g) : PhiValue(phi, env) \in Incoming(phi)
  BY <1>1, SomeValue
<1> DEFINE k == PhiValue(phi, env)
<1>6. env[d] \in BOOLEAN
  BY <1>3, <1>4, <1>5 DEF Environments
<1>7. k = IF env[d] THEN 1 ELSE 2
  <2>1. PICK v : Solves(env, v, 1) /\ SelectValue(env) = v[1]
    BY <1>2, SelectValueIs
  <2>2. v[1] = Comes(v, IF env[d] THEN Value(1) ELSE Value(2))
    BY <1>2, <2>1 DEF Solves, Taken
  <2>3. v[1] = IF env[d] THEN 1 ELSE 2
    BY <2>2 DEF Comes, Value
  <2> QED
    BY <1>1, <1>5, <2>1, <2>3
<1>8. k \in From(phi, d, IF env[d] THEN 1 ELSE 2)
  <2>1. WellFormed(phi.g) /\ phi.g.entry \in phi.g.block
    BY <1>1 DEF WellFormedPhi, WellFormed
  <2>2. Runs(phi.g, env, Execution(phi.g, env))
    BY <2>1, ExecutionIs
  <2>3. k # 0 /\ k \in {1, 2}
    BY <1>1, <1>5
  <2>4. PICK n : Enters(phi, Execution(phi.g, env), n, k)
    BY <1>1, <2>3, EntersIs
  <2>5. d \in phi.g.dom[phi.inc[k]]
    BY <1>4, <2>3
  <2> HIDE DEF k
  <2> QED
    BY <1>1, <1>3, <2>2, <2>3, <2>4, <2>5, SideTaken
<1>9. 1 \in From(phi, d, 1) /\ 2 \in From(phi, d, 2)
  <2> HIDE DEF k
  <2>1. (k = 1 /\ 1 \in From(phi, d, 1)) \/ (k = 2 /\ 2 \in From(phi, d, 2))
    <3>1. CASE env[d] = TRUE
      BY <1>7, <1>8, <3>1
    <3>2. CASE env[d] = FALSE
      BY <1>7, <1>8, <3>2
    <3> QED
      BY <1>6, <3>1, <3>2
  <2>2. PICK s \in {1, 2}, t \in {1, 2} : /\ 1 \in From(phi, d, s) \ From(phi, d, t)
                                          /\ 2 \in From(phi, d, t) \ From(phi, d, s)
    BY <1>3
  <2> QED
    BY <2>1, <2>2
<1> QED
  BY <1>1, <1>9 DEF ThenFirst, d

\* The last select computes the phi if its operands come in the order of the
\* branches' sides, and of two operands in no other order, for every function
\* and however the blocks lie (modifyPhis, generateSelect).
THEOREM SelectsCompute == Spec => []SelectsAgree
<1> DEFINE I == /\ MapIs /\ Types /\ OfTwo
                /\ InTurn(phi) => Merged
                /\ ThenFirst(phi) => Computes
<1>1. ASSUME MapIs PROVE /\ WellFormedPhi(phi) /\ Separated(phi)
                         /\ ThenFirst(phi) => InTurn(phi)
                         /\ Len(phi.inc) = 2 => InTurn(phi)
  <2>1. WellFormedPhi(phi) /\ Separated(phi)
    BY <1>1, PhisAssumption DEF MapIs
  <2>2. Len(phi.inc) = 2 => InTurn(phi)
    BY DEF InTurn, Incoming
  <2> QED
    BY <2>1, <2>2, ThenFirstInTurn
<1>2. Init => I
  <2> SUFFICES ASSUME Init PROVE I
    OBVIOUS
  <2>1. MapIs /\ Types /\ DOMAIN selectBasicBlock = {} /\ Len(selects) = 0 /\ pc = "select"
        /\ DOMAIN commonDomMap = Pairs(phi) /\ OfTwo
    BY InitTypes DEF Init, OfTwo
  <2>2. \A i, j \in Incoming(phi) : i # j => ~With(i, j)
    BY <2>1, InitApart
  <2>3. Merged
    BY <2>1, <2>2 DEF Merged
  <2>4. Computes
    <3>1. \A i \in Incoming(phi) : Operand(i) = Value(i)
      BY <2>1 DEF Operand
    <3> QED
      BY <2>2, <3>1 DEF Computes, Comes, Value
  <2> QED
    BY <2>1, <2>3, <2>4
<1>3. I /\ [Next]_vars => I'
  <2> SUFFICES ASSUME I, [Next]_vars, MapIs', Types' PROVE I'
    BY NextTypes
  <2>1. CASE GenerateSelect
    <3>1. PICK t : Handles(t)
      BY <2>1, IterationIs
    <3>2. phi' = phi
      BY <3>1 DEF Handles
    <3>3. OfTwo'
      BY <3>1, HandlesOfTwo
    <3>4. InTurn(phi)' => Merged'
      BY <3>1, <3>2, HandlesMerged
    <3>5. ThenFirst(phi)' => Computes'
      BY <1>1, <3>1, <3>2, HandlesComputes
    <3> QED
      BY <3>3, <3>4, <3>5
  <2>2. CASE pc' # "select" /\ UNCHANGED <<phi, addr, commonDomMap, selectBasicBlock, selects>>
             /\ (pc' = "replaced" => selects # <<>>)
    BY <2>2 DEF Merged, OfTwo, Computes, Solves, Comes, Taken, Operand, Top, With
  <2>3. CASE UNCHANGED vars
    BY <2>3 DEF vars, Merged, OfTwo, Computes, Solves, Comes, Taken, Operand, Top, With
  <2> QED
    BY <2>1, <2>2, <2>3 DEF Next, Halt, ReplacePhi
<1>4. I => SelectsAgree
  <2> DEFINE agree == \A env \in Environments(phi.g) :
                        PhiValue(phi, env) # 0 => SelectValue(env) = PhiValue(phi, env)
  <2> SUFFICES ASSUME I, pc = "replaced"
               PROVE  /\ ThenFirst(phi) => agree
                      /\ agree /\ Len(phi.inc) = 2 => ThenFirst(phi)
    BY DEF SelectsAgree
  <2>1. ASSUME ThenFirst(phi), NEW env \in Environments(phi.g), PhiValue(phi, env) # 0
        PROVE  SelectValue(env) = PhiValue(phi, env)
    <3>1. Merged /\ Computes
      BY <1>1, <2>1
    <3>2. /\ \A i, j : With(i, j) /\ DOMAIN selectBasicBlock \subseteq Incoming(phi)
          /\ \E r \in DOMAIN selectBasicBlock : Top(r) /\ selectBasicBlock[r] = Len(selects)
      BY <3>1, LastStands DEF Types
    <3>3. PICK r \in DOMAIN selectBasicBlock : Top(r) /\ selectBasicBlock[r] = Len(selects)
      BY <3>2
    <3>4. Operand(r) = Select(Len(selects)) /\ r \in Incoming(phi)
      BY <3>2, <3>3 DEF Operand
    <3>5. PICK v : Solves(env, v, Len(selects)) /\ SelectValue(env) = v[Len(selects)]
      BY SelectValueIs
    <3>6. PhiValue(phi, env) \in Incoming(phi)
      BY <1>1, <2>1, <3>4, EntersIs
    <3>7. Comes(v, Operand(r)) = PhiValue(phi, env)
      BY <3>1, <3>2, <3>3, <3>4, <3>5, <3>6 DEF Computes
    <3> QED
      BY <3>4, <3>5, <3>7 DEF Comes, Select
  <2>2. ASSUME agree, Len(phi.inc) = 2 PROVE ThenFirst(phi)
    <3>1. selects # <<>>
      BY <1>1, <2>2 DEF Merged
    <3> QED
      BY <2>2, <3>1, OtherOrderDiffers
  <2> HIDE DEF agree
  <2> QED
    BY <2>1, <2>2 DEF agree
<1> HIDE DEF I
<1> QED
  BY <1>2, <1>3, <1>4, PTL DEF Spec
=============================================================================
