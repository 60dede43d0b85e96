------------------------- MODULE DuplicateBBProofs -------------------------
(* RIV is exact for every function, every dominator tree and every order of  *)
(* the worklist, alone and inside DuplicateBB; DuplicateBB keeps what every  *)
(* function does, whichever blocks and values are chosen; and every value is *)
(* there where the duplicated function uses it, unless an invoke's result    *)
(* was chosen for a block that the invoke unwinds to.                        *)
EXTENDS DuplicateBB, SequenceTheorems, Facts

Waiting(b) == \E i \in 1..Len(BBsToProcess) : BBsToProcess[i] = b

\* Blocks that wait have their entry, and those of other blocks were handed
\* on to the children.
RIVInv ==
  /\ F \in RIVFunctions
  /\ DOMAIN ResultMap \subseteq Reachable(F)
  /\ F.entry \in DOMAIN ResultMap
  /\ BBsToProcess \in Seq(DOMAIN ResultMap)
  /\ \A b \in DOMAIN ResultMap : ResultMap[b] = ReachableIntegers(b)
  /\ \A b \in DOMAIN ResultMap : Waiting(b) \/ Children(F, b) \subseteq DOMAIN ResultMap

\* What the strict dominators of a child define: what the parent's define,
\* and the parent.
LEMMA ChildIntegers ==
  ASSUME NEW b, NEW c \in Children(F, b), b \in F.dom[b]
  PROVE  ReachableIntegers(c) = ReachableIntegers(b) \cup F.ints[b]
<1>1. F.dom[c] \ {c} = (F.dom[b] \ {b}) \cup {b}
  BY DEF Children
<1>. QED
  BY <1>1 DEF ReachableIntegers

\* The worklist starts at the entry.
LEMMA InitRIVInv == RIVInit => RIVInv
<1>. SUFFICES ASSUME RIVInit PROVE RIVInv
  OBVIOUS
<1>1. /\ F \in RIVFunctions /\ BBsToProcess = <<F.entry>> /\ DOMAIN ResultMap = {F.entry}
      /\ ResultMap[F.entry] = F.params \cup F.globals
      /\ F.entry \in Reachable(F) /\ F.dom[F.entry] = {F.entry}
  BY TreeAssumption DEF RIVInit
<1>2. ReachableIntegers(F.entry) = F.params \cup F.globals
  BY <1>1 DEF ReachableIntegers
<1>3. Waiting(F.entry)
  BY <1>1 DEF Waiting
<1>. QED
  BY <1>1, <1>2, <1>3 DEF RIVInv

\* What is left of a sequence without its last element.
LEMMA Popped ==
  ASSUME NEW S, NEW q \in Seq(S), Len(q) \in Nat \ {0}
  PROVE  /\ SubSeq(q, 1, Len(q) - 1) \in Seq(S)
         /\ Len(SubSeq(q, 1, Len(q) - 1)) = Len(q) - 1
         /\ \A n \in 1..(Len(q) - 1) : SubSeq(q, 1, Len(q) - 1)[n] = q[n]
<1>. DEFINE m == Len(q) - 1
<1>1. m \in Nat /\ m \in Int /\ \A n \in 1..m : n \in 1..Len(q)
  OBVIOUS
<1>2. \A n \in 1..m : q[n] \in S
  BY <1>1, ElementOfSeq
<1>. HIDE DEF m
<1>3. /\ SubSeq(q, 1, m) \in Seq(S)
      /\ Len(SubSeq(q, 1, m)) = IF 1 <= m THEN m - 1 + 1 ELSE 0
      /\ \A n \in 1..(m - 1 + 1) : SubSeq(q, 1, m)[n] = q[1 + n - 1]
  BY <1>1, <1>2, SubSeqProperties
<1>4. (IF 1 <= m THEN m - 1 + 1 ELSE 0) = m /\ m - 1 + 1 = m
  BY <1>1
<1>5. \A n \in 1..m : 1 + n - 1 = n
  BY <1>1
<1>6. \A n \in 1..m : SubSeq(q, 1, m)[n] = q[n]
  BY <1>3, <1>4, <1>5
<1>. QED
  BY <1>3, <1>4, <1>6 DEF m

\* Two sequences one after the other.
LEMMA Joined ==
  ASSUME NEW S, NEW p \in Seq(S), NEW q \in Seq(S)
  PROVE  /\ p \o q \in Seq(S)
         /\ Len(p \o q) = Len(p) + Len(q) /\ Len(q) \in Nat
         /\ \A i \in 1..Len(p) : (p \o q)[i] = p[i]
         /\ \A i \in 1..Len(q) : (p \o q)[Len(p) + i] = q[i]
<1>1. Len(p) \in Nat /\ Len(q) \in Nat
  BY LenProperties
<1>2. p \o q \in Seq(S) /\ Len(p \o q) = Len(p) + Len(q)
  BY ConcatProperties
<1>3. \A i \in 1..(Len(p) + Len(q)) : (p \o q)[i] = IF i <= Len(p) THEN p[i] ELSE q[i - Len(p)]
  BY ConcatProperties
<1>. QED
  BY <1>1, <1>2, <1>3

\* A sequence over a set is one over a larger set.
LEMMA SeqMonotone ==
  ASSUME NEW S, NEW T, S \subseteq T, NEW q \in Seq(S)
  PROVE  q \in Seq(T)
<1>1. Len(q) \in Nat /\ q \in [1..Len(q) -> T]
  BY LenProperties
<1>. QED
  BY <1>1, SeqDef

\* A block that is taken from the worklist hands its values on.
LEMMA StepRIVInv == RIVInv /\ ProcessParent => RIVInv'
<1>. SUFFICES ASSUME RIVInv, ProcessParent PROVE RIVInv'
  OBVIOUS
<1>. DEFINE l == Len(BBsToProcess)
            kids == Children(F, Parent)
            D == DOMAIN ResultMap
            D2 == D \cup kids
            rest == SubSeq(BBsToProcess, 1, l - 1)
<1>1. /\ BBsToProcess \in Seq(D) /\ BBsToProcess # <<>> /\ F' = F /\ F \in RIVFunctions
      /\ DOMAIN ResultMap' = D2
      /\ \A b \in D2 : ResultMap'[b] = IF b \in kids THEN Before(b) \cup ParentValues
                                       ELSE ResultMap[b]
  BY DEF RIVInv, ProcessParent
<1>2. PICK order \in Orders(kids) : BBsToProcess' = rest \o order
  BY DEF ProcessParent
<1>3. l \in Nat \ {0} /\ Parent \in D /\ Parent \in Reachable(F)
  BY <1>1, LenProperties, EmptySeq, ElementOfSeq DEF Parent, RIVInv
<1>4. kids \subseteq Reachable(F) /\ kids \subseteq F.block
  BY <1>1, TreeAssumption DEF Children
<1>5. /\ order \in Seq(kids)
      /\ \A c \in kids : \E i \in 1..Len(order) : order[i] = c
  <2>1. IsFiniteSet(kids)
    BY <1>1, <1>4, TreeAssumption, FS_Subset
  <2>2. Cardinality(kids) \in Nat
    BY <2>1, FS_CardinalityType
  <2>3. order \in [1..Cardinality(kids) -> kids] /\ \A c \in kids : \E i \in DOMAIN order : order[i] = c
    BY <1>2 DEF Orders
  <2>4. order \in Seq(kids) /\ Len(order) = Cardinality(kids)
    BY <2>2, <2>3, SeqDef, LenProperties
  <2>. QED
    BY <2>3, <2>4
<1>6. /\ rest \in Seq(D) /\ Len(rest) = l - 1
      /\ \A i \in 1..(l - 1) : rest[i] = BBsToProcess[i]
  BY <1>1, <1>3, Popped
<1>7. /\ BBsToProcess' \in Seq(D2)
      /\ Len(BBsToProcess') = (l - 1) + Len(order) /\ Len(order) \in Nat
      /\ \A i \in 1..(l - 1) : BBsToProcess'[i] = rest[i]
      /\ \A i \in 1..Len(order) : BBsToProcess'[(l - 1) + i] = order[i]
  <2>1. rest \in Seq(D2) /\ order \in Seq(D2)
    BY <1>5, <1>6, SeqMonotone
  <2>. HIDE DEF rest, D2
  <2>2. /\ rest \o order \in Seq(D2)
        /\ Len(rest \o order) = Len(rest) + Len(order) /\ Len(order) \in Nat
        /\ \A i \in 1..Len(rest) : (rest \o order)[i] = rest[i]
        /\ \A i \in 1..Len(order) : (rest \o order)[Len(rest) + i] = order[i]
    BY <2>1, Joined
  <2>. QED
    BY <1>2, <1>6, <2>2
<1>8. \A b \in D2 : ResultMap'[b] = ReachableIntegers(b)
  <2>1. SUFFICES ASSUME NEW b \in D2 PROVE ResultMap'[b] = ReachableIntegers(b)
    OBVIOUS
  <2>2. CASE b \in kids
    <3>1. Parent \in F.dom[Parent]
      BY <1>1, <1>3, TreeAssumption
    <3>2. ReachableIntegers(b) = ReachableIntegers(Parent) \cup F.ints[Parent]
      BY <2>2, <3>1, ChildIntegers
    <3>3. ResultMap[Parent] = ReachableIntegers(Parent)
      BY <1>3 DEF RIVInv
    <3>4. Before(b) \subseteq ReachableIntegers(b)
      BY DEF RIVInv, Before
    <3>. QED
      BY <1>1, <2>2, <3>2, <3>3, <3>4 DEF ParentValues
  <2>3. CASE b \notin kids
    BY <1>1, <2>3 DEF RIVInv
  <2>. QED
    BY <2>2, <2>3
<1>9. ASSUME NEW b \in D2 PROVE Waiting(b)' \/ Children(F, b) \subseteq D2
  <2>1. CASE b \in kids
    <3>1. PICK i \in 1..Len(order) : order[i] = b
      BY <1>5, <2>1
    <3>2. (l - 1) + i \in 1..Len(BBsToProcess')
      BY <1>3, <1>7
    <3>. QED
      BY <1>7, <3>1, <3>2 DEF Waiting
  <2>2. CASE b = Parent
    BY <2>2
  <2>3. CASE b \in D /\ b # Parent /\ Waiting(b)
    <3>1. PICK i \in 1..l : BBsToProcess[i] = b
      BY <2>3 DEF Waiting
    <3>2. i \in 1..(l - 1)
      BY <1>3, <2>3, <3>1 DEF Parent
    <3>3. i \in 1..Len(BBsToProcess')
      BY <1>3, <1>7, <3>2
    <3>. QED
      BY <1>6, <1>7, <3>1, <3>2, <3>3 DEF Waiting
  <2>4. CASE b \in D /\ ~Waiting(b)
    BY <2>4 DEF RIVInv
  <2>. QED
    BY <2>1, <2>2, <2>3, <2>4
<1>. QED
  BY <1>1, <1>3, <1>4, <1>7, <1>8, <1>9 DEF RIVInv, ReachableIntegers

\* An empty worklist: every reachable block has its entry.
LEMMA InvExact == RIVInv => RIVExact
<1>. SUFFICES ASSUME RIVInv PROVE RIVExact
  OBVIOUS
<1>1. ASSUME RIVBuilt PROVE DOMAIN ResultMap = Reachable(F)
  <2>1. \A b \in DOMAIN ResultMap : ~Waiting(b)
    BY <1>1, EmptySeq DEF RIVBuilt, Waiting
  <2>. QED
    BY <2>1, TreeAssumption DEF RIVInv
<1>. QED
  BY <1>1 DEF RIVInv, RIVExact

\* buildRIV (RIV.cpp:57) gives no block a value that may not have been
\* computed before it, and every reachable block all that have: whatever the
\* order of the deque and of the tree's children.
THEOREM Exact == RIVSpec => []RIVExact
<1>1. RIVInv /\ [ProcessParent]_rivVars => RIVInv'
  <2>1. RIVInv /\ UNCHANGED rivVars => RIVInv'
    BY DEF RIVInv, rivVars, Waiting, ReachableIntegers
  <2>. QED
    BY <2>1, StepRIVInv
<1>2. RIVSpec => []RIVInv
  BY <1>1, InitRIVInv, PTL DEF RIVSpec
<1>. QED
  BY <1>2, InvExact, PTL

\* A step of DuplicateBB is one of RIV's or leaves its state alone.
LEMMA DuplicateStepRIV == [DuplicateNext]_duplicateVars => [ProcessParent]_rivVars
<1> SUFFICES ASSUME [DuplicateNext]_duplicateVars PROVE [ProcessParent]_rivVars
  OBVIOUS
<1>1. CASE BuildRIV
  BY <1>1 DEF BuildRIV
<1>2. CASE ChooseTarget \/ Chosen \/ Split \/ CloneVoid \/ CloneValue \/ Purge \/ Duplicated
  BY <1>2 DEF ChooseTarget, Chosen, Split, CloneVoid, CloneValue, Purge, Duplicated
<1>3. CASE DuplicateHalt \/ UNCHANGED duplicateVars
  BY <1>3 DEF DuplicateHalt, duplicateVars
<1> QED
  BY <1>1, <1>2, <1>3 DEF DuplicateNext

\* DuplicateBB asks for exactly what RIV promises: the values it chooses from
\* are those that reach the block in the function as RIV was given it.
THEOREM ExactInDuplicate == DuplicateSpec => []RIVExact
<1>1. RIVInv /\ [ProcessParent]_rivVars => RIVInv'
  <2>1. RIVInv /\ UNCHANGED rivVars => RIVInv'
    BY DEF RIVInv, rivVars, Waiting, ReachableIntegers
  <2>. QED
    BY <2>1, StepRIVInv
<1>2. DuplicateInit => RIVInit
  BY DEF DuplicateInit
<1> QED
  BY <1>1, <1>2, DuplicateStepRIV, InitRIVInv, InvExact, PTL DEF DuplicateSpec

-----------------------------------------------------------------------------
(* What DuplicateBB has made of the function so far.                        *)

Body(b) == F.code[b].body

\* The branches of the block as it was.
Leaves(b) == [k \in DOMAIN F.succ[b] |-> bb(F.succ[b][k])]

\* The blocks that were split.
Cut == {b \in F.block : <<"tail", b>> \in DOMAIN M.code}

\* How many of the instructions of a split block have clones.
Cloned(b) == IF pc = "clone" /\ b = BB THEN IIT - 1 ELSE Len(Body(b))

MeanAll(vs) == [k \in DOMAIN vs |-> Means(vs[k])]

\* A phi that has taken the place of an instruction of b.
ClonePhi(v, b) ==
  /\ \E k \in 1..Len(Body(b)) : v = <<"phi", Body(b)[k][2]>>
  /\ v \in DOMAIN M.uses /\ M.uses[v] = << <<"then", v[2]>>, <<"else", v[2]>> >>
  /\ v \in DOMAIN M.from /\ M.from[v] = << <<"then", b>>, <<"else", b>> >>

\* A block that was not split.
Whole(b) ==
  /\ M.code[bb(b)] = F.code[b] /\ M.succ[bb(b)] = Leaves(b)
  /\ \A k \in 1..Len(Body(b)) : Body(b)[k] \in DOMAIN M.uses

CloneSide(side, b) ==
  /\ <<side, b>> \in DOMAIN M.code
  /\ M.code[<<side, b>>] = [phis |-> <<>>, term |-> <<"br", b>>,
                            body |-> [k \in 1..Cloned(b) |-> <<side, Body(b)[k][2]>>]]
  /\ M.succ[<<side, b>>] = << <<"tail", b>> >>
  /\ \A k \in 1..Cloned(b) : <<side, Body(b)[k][2]>> \in DOMAIN M.uses

\* A block that was.
Halves(b) ==
  /\ M.code[bb(b)].phis = F.code[b].phis
  /\ M.succ[bb(b)] = << <<"then", b>>, <<"else", b>> >>
  /\ M.code[<<"tail", b>>] = [phis |-> M.code[<<"tail", b>>].phis, term |-> F.code[b].term,
                              body |-> M.code[<<"tail", b>>].body]
  /\ M.succ[<<"tail", b>>] = Leaves(b)
  /\ CloneSide("then", b) /\ CloneSide("else", b)
  /\ (pc = "clone" /\ b = BB) \/ \A v \in ToSet(M.code[<<"tail", b>>].phis) : ClonePhi(v, b)

\* The instructions of the tail that is being worked on: those before IIT have
\* clones, and a phi in their place unless they have no value.
Working ==
  pc = "clone" =>
    LET tail == M.code[Tail_].body
    IN  /\ Len(tail) = Len(Body(BB)) /\ DOMAIN tail = 1..Len(Body(BB))
        /\ IIT \in 1..(Len(Body(BB)) + 1)
        /\ \A k \in IIT..Len(Body(BB)) : tail[k] = Body(BB)[k] /\ tail[k] \in DOMAIN M.uses
        /\ \A k \in 1..(IIT - 1) : tail[k] \in ToRemove \/ ClonePhi(tail[k], BB)
        /\ \A v \in ToRemove : \E k \in 1..Len(Body(BB)) : v = Body(BB)[k]

\* An instruction or a clone computes on what the original does.
Computing ==
  \A v \in DOMAIN M.uses :
    v[1] \in {"inst", "then", "else"} =>
      Means(v) \in DOMAIN F.uses /\ MeanAll(M.uses[v]) = F.uses[Means(v)]

\* Blocks are never removed, and phis and terminators never replaced.
HeadsThere ==
  /\ DOMAIN M.succ = DOMAIN M.code
  /\ \A b \in F.block :
       /\ bb(b) \in DOMAIN M.code /\ F.code[b].term \in DOMAIN M.uses
       /\ \A k \in DOMAIN F.code[b].phis : F.code[b].phis[k] \in DOMAIN M.uses

FromEnds ==
  \A p \in DOMAIN F.from :
    p \in DOMAIN M.from /\ M.from[p] = [i \in DOMAIN F.from[p] |-> EndOf(F.from[p][i])]

KeepsMeaning(vmap) == \A v \in DOMAIN vmap : Means(vmap[v]) = Means(v)

\* Every block is chosen once at most, and those before next were split.
Choice ==
  /\ \E V : Targets \in Seq(F.block \X V)
  /\ \A i, j \in 1..Len(Targets) : Targets[i][1] = Targets[j][1] => i = j
  /\ next \in Nat \ {0}
  /\ pc = "choose" => /\ Cut = {}
                      /\ \A i \in 1..Len(Targets) : \E m \in 1..(next - 1) :
                           m \in 1..Len(F.order) /\ Targets[i][1] = F.order[m]
  /\ pc = "split" => \A b \in Cut : \E i \in 1..(next - 1) : i <= Len(Targets) /\ b = Targets[i][1]
  /\ pc = "clone" => /\ next <= Len(Targets) /\ BB \in Cut
                     /\ \A b \in Cut : \E i \in 1..next : b = Targets[i][1]

DupInv ==
  /\ F \in RIVFunctions
  /\ M = [code |-> M.code, uses |-> M.uses, from |-> M.from, succ |-> M.succ]
  /\ pc \in {"choose", "split", "clone", "done"}
  /\ Choice
  /\ \A b \in F.block : IF b \in Cut THEN Halves(b) ELSE Whole(b)
  /\ Working /\ Computing /\ HeadsThere /\ FromEnds
  /\ KeepsMeaning(ThenVMap) /\ KeepsMeaning(ElseVMap) /\ KeepsMeaning(TailVMap)

-----------------------------------------------------------------------------
(* What is known of the function and of names.                              *)

LEMMA FunctionIs ==
  ASSUME F \in RIVFunctions
  PROVE  /\ F.order \in Seq(F.block) /\ IsInjective(F.order)
         /\ \A v \in DOMAIN F.uses : v[1] = "inst" /\ v = <<"inst", v[2]>>
         /\ \A v \in DOMAIN F.uses : MeanAll(F.uses[v]) = F.uses[v]
         /\ \A p \in DOMAIN F.from : p \in DOMAIN F.uses
<1>1. WellFormedCode(F)
  BY CodeAssumption
<1>2. F.order \in Seq(F.block) /\ IsInjective(F.order) /\ DOMAIN F.from \subseteq DOMAIN F.uses
  BY <1>1 DEF WellFormedCode
<1>3. DOMAIN F.uses \subseteq {"inst"} \X Nat
  BY <1>1 DEF WellFormedCode
<1>4. ASSUME NEW v \in DOMAIN F.uses PROVE MeanAll(F.uses[v]) = F.uses[v]
  <2> DEFINE S == {"arg", "global", "inst"} \X Nat
  <2>1. F.uses[v] \in Seq(S)
    BY <1>1 DEF WellFormedCode
  <2>2. PICK u : u = F.uses[v]
    OBVIOUS
  <2>3. u \in [1..Len(u) -> S]
    BY <2>1, <2>2, LenProperties
  <2>4. \A w \in S : Means(w) = w
    BY DEF Means
  <2> HIDE DEF S
  <2>5. MeanAll(u) = u
    BY <2>3, <2>4 DEF MeanAll
  <2> QED
    BY <2>2, <2>5
<1> QED
  BY <1>2, <1>3, <1>4

LEMMA BlockIs ==
  ASSUME F \in RIVFunctions, NEW b \in F.block
  PROVE  /\ F.code[b] = [phis |-> F.code[b].phis, body |-> Body(b), term |-> F.code[b].term]
         /\ Len(Body(b)) \in Nat /\ DOMAIN Body(b) = 1..Len(Body(b))
         /\ \A k \in 1..Len(Body(b)) : Body(b)[k] \in DOMAIN F.uses
         /\ F.code[b].term \in DOMAIN F.uses
         /\ DOMAIN F.code[b].phis = 1..Len(F.code[b].phis)
         /\ \A k \in DOMAIN F.code[b].phis : F.code[b].phis[k] \in DOMAIN F.from
<1> DEFINE inst == DOMAIN F.uses
<1>1. WellFormedCode(F)
  BY CodeAssumption
<1>2. F.code[b] \in [phis : Seq(inst), body : Seq(inst), term : inst]
  BY <1>1 DEF WellFormedCode
<1>3. F.code[b].phis \in Seq(inst) /\ Body(b) \in Seq(inst) /\ F.code[b].term \in inst
  BY <1>2 DEF Body
<1>4. ToSet(F.code[b].phis) \subseteq DOMAIN F.from
  BY <1>1 DEF WellFormedCode
<1>5. \A k \in 1..Len(Body(b)) : Body(b)[k] \in inst
  BY <1>3, ElementOfSeq
<1>6. DOMAIN Body(b) = 1..Len(Body(b)) /\ Len(Body(b)) \in Nat
      /\ DOMAIN F.code[b].phis = 1..Len(F.code[b].phis)
  BY <1>3, LenProperties
<1>7. \A k \in DOMAIN F.code[b].phis : F.code[b].phis[k] \in DOMAIN F.from
  BY <1>4 DEF ToSet
<1>8. F.code[b] = [phis |-> F.code[b].phis, body |-> Body(b), term |-> F.code[b].term]
  BY <1>2 DEF Body
<1> QED
  BY <1>3, <1>5, <1>6, <1>7, <1>8

LEMMA BlockSeqs ==
  ASSUME F \in RIVFunctions, NEW b \in F.block
  PROVE  /\ \E f : F.code[b].phis = [k \in DOMAIN F.code[b].phis |-> f[k]]
         /\ \E f : Body(b) = [k \in DOMAIN Body(b) |-> f[k]]
<1> DEFINE inst == DOMAIN F.uses
<1>1. WellFormedCode(F)
  BY CodeAssumption
<1>2. F.code[b] \in [phis : Seq(inst), body : Seq(inst), term : inst]
  BY <1>1 DEF WellFormedCode
<1>3. PICK p, q : p = F.code[b].phis /\ q = Body(b)
  OBVIOUS
<1>4. p \in Seq(inst) /\ q \in Seq(inst)
  BY <1>2, <1>3 DEF Body
<1>5. p \in [1..Len(p) -> inst] /\ q \in [1..Len(q) -> inst]
  BY <1>4, LenProperties
<1>6. p = [k \in DOMAIN p |-> p[k]] /\ q = [k \in DOMAIN q |-> q[k]]
  BY <1>5
<1> QED
  BY <1>3, <1>6

\* An instruction of a body is nowhere else.
LEMMA OnePlaceEach ==
  ASSUME F \in RIVFunctions, NEW b \in F.block, NEW k \in 1..Len(Body(b)), NEW c \in F.block
  PROVE  /\ Body(b)[k] # F.code[c].term
         /\ \A v \in ToSet(F.code[c].phis) : Body(b)[k] # v
         /\ \A i \in 1..Len(Body(c)) : Body(c)[i] = Body(b)[k] => c = b /\ i = k
<1>1. WellFormedCode(F)
  BY CodeAssumption
<1>2. k \in DOMAIN F.code[b].body /\ DOMAIN F.code[c].body = 1..Len(Body(c))
  BY BlockIs DEF Body
<1>3. /\ F.code[b].body[k] \notin ToSet(F.code[c].phis) /\ F.code[b].body[k] # F.code[c].term
      /\ \A i \in DOMAIN F.code[c].body : F.code[c].body[i] = F.code[b].body[k] => c = b /\ i = k
  BY <1>1, <1>2 DEF WellFormedCode
<1> QED
  BY <1>2, <1>3 DEF Body

-----------------------------------------------------------------------------
(* The maps.                                                                *)

LEMMA PutKeeps ==
  ASSUME NEW map, KeepsMeaning(map), NEW x, NEW y, Means(y) = Means(x)
  PROVE  KeepsMeaning(Put(map, x, y))
<1>1. PICK m : m = Put(map, x, y)
  OBVIOUS
<1>2. DOMAIN m = DOMAIN map \cup {x} /\ m[x] = y
  BY <1>1 DEF Put
<1>3. \A v \in DOMAIN map : v # x => m[v] = map[v]
  BY <1>1 DEF Put
<1>4. KeepsMeaning(m)
  BY <1>2, <1>3 DEF KeepsMeaning
<1> QED
  BY <1>1, <1>4

\* A map that follows its key.
LEMMA FollowedKeeps ==
  ASSUME NEW map, KeepsMeaning(map), NEW old, NEW new, Means(new) = Means(old)
  PROVE  KeepsMeaning(Followed(map, old, new))
<1> DEFINE rest == [v \in DOMAIN map \ {old} |-> map[v]]
<1>1. KeepsMeaning(rest)
  BY DEF KeepsMeaning
<1>2. ASSUME old \in DOMAIN map PROVE Means(map[old]) = Means(new)
  BY <1>2 DEF KeepsMeaning
<1> HIDE DEF rest
<1>3. old \in DOMAIN map => KeepsMeaning(Put(rest, new, map[old]))
  BY <1>1, <1>2, PutKeeps
<1> QED
  BY <1>3 DEF Followed, rest

LEMMA RemappedMeans ==
  ASSUME NEW map, KeepsMeaning(map), NEW s
  PROVE  MeanAll(Remapped(s, map)) = MeanAll(s)
<1>1. DOMAIN Remapped(s, map) = DOMAIN s
  BY DEF Remapped
<1>2. ASSUME NEW k \in DOMAIN s PROVE Means(Remapped(s, map)[k]) = Means(s[k])
  BY DEF Remapped, KeepsMeaning
<1> QED
  BY <1>1, <1>2 DEF MeanAll

-----------------------------------------------------------------------------
(* The steps.                                                               *)

\* Before a block is chosen the function is the one that came.
LEMMA InitDup == DuplicateInit => DupInv
<1> SUFFICES ASSUME DuplicateInit PROVE DupInv
  OBVIOUS
<1> DEFINE heads == {bb(b) : b \in F.block}
<1>1. /\ F \in RIVFunctions /\ pc = "choose" /\ next = 1 /\ Targets = <<>>
      /\ M = [code |-> [x \in heads |-> F.code[x[2]]],
              uses |-> F.uses,
              from |-> [p \in DOMAIN F.from |-> [k \in DOMAIN F.from[p] |-> bb(F.from[p][k])]],
              succ |-> [x \in heads |-> [k \in DOMAIN F.succ[x[2]] |-> bb(F.succ[x[2]][k])]]]
      /\ ThenVMap = NoMap /\ ElseVMap = NoMap /\ TailVMap = NoMap
  BY DEF DuplicateInit, RIVInit
<1>2. \A b \in F.block : bb(b) \in heads /\ <<"tail", b>> \notin heads /\ bb(b)[2] = b
  BY DEF bb
<1>3. DOMAIN M.code = heads /\ DOMAIN M.succ = heads
  BY <1>1
<1>4. Cut = {}
  BY <1>2, <1>3 DEF Cut
<1>5. ASSUME NEW b \in F.block PROVE Whole(b)
  BY <1>1, <1>2, BlockIs DEF Whole, Leaves
<1>6. Choice
  <2>1. Targets \in Seq(F.block \X {}) /\ Len(Targets) = 0
    BY <1>1
  <2> QED
    BY <1>1, <1>4, <2>1 DEF Choice
<1>7. Computing
  BY <1>1, FunctionIs DEF Computing, Means
<1>8. HeadsThere
  BY <1>1, <1>2, <1>3, BlockIs, FunctionIs DEF HeadsThere
<1>9. FromEnds
  <2>1. ASSUME NEW p \in DOMAIN F.from, NEW i \in DOMAIN F.from[p]
        PROVE  EndOf(F.from[p][i]) = bb(F.from[p][i])
    BY <1>3 DEF EndOf, bb
  <2> QED
    BY <1>1, <2>1 DEF FromEnds
<1>10. KeepsMeaning(NoMap)
  BY DEF KeepsMeaning, NoMap
<1> QED
  BY <1>1, <1>4, <1>5, <1>6, <1>7, <1>8, <1>9, <1>10 DEF DupInv, Working

\* A step that leaves the function alone, between two blocks.
LEMMA QuietKeeps ==
  ASSUME DupInv, pc # "clone", pc' \in {"choose", "split", "done"}, Choice',
         UNCHANGED <<F, M, ThenVMap, ElseVMap, TailVMap>>
  PROVE  DupInv'
<1>1. Cut' = Cut /\ \A b \in F.block : b \in Cut <=> b \in Cut'
  BY DEF Cut
<1>2. \A b : Cloned(b) = Cloned(b)'
  BY DEF Cloned, Body
<1>3. ASSUME NEW b \in F.block, b \in Cut PROVE Halves(b)'
  <2>1. Halves(b)
    BY <1>3 DEF DupInv
  <2>2. \A v : ClonePhi(v, b) => ClonePhi(v, b)'
    BY DEF ClonePhi, Body
  <2>3. (CloneSide("then", b) /\ CloneSide("else", b))'
    BY <2>1, <1>2 DEF Halves, CloneSide, Body
  <2> QED
    BY <2>1, <2>2, <2>3 DEF Halves, Leaves
<1>4. ASSUME NEW b \in F.block, b \notin Cut PROVE Whole(b)'
  <2>1. Whole(b)
    BY <1>4 DEF DupInv
  <2> QED
    BY <2>1 DEF Whole, Leaves, Body
<1>5. Computing' /\ HeadsThere'
  BY DEF DupInv, Computing, HeadsThere, MeanAll
<1>6. FromEnds'
  BY DEF DupInv, FromEnds, EndOf
<1>7. (KeepsMeaning(ThenVMap) /\ KeepsMeaning(ElseVMap) /\ KeepsMeaning(TailVMap))'
  BY DEF DupInv, KeepsMeaning
<1> QED
  BY <1>1, <1>3, <1>4, <1>5, <1>6, <1>7 DEF DupInv, Working

\* A step of RIV, or none.
LEMMA StutterKeeps ==
  ASSUME DupInv, UNCHANGED <<F, pc, next, Targets, M, cloneVars>>
  PROVE  DupInv'
<1>1. UNCHANGED <<ThenVMap, ElseVMap, TailVMap, IIT, ToRemove>>
  BY DEF cloneVars
<1>2. Choice'
  BY DEF DupInv, Choice, Cut, BB
<1>3. CASE pc # "clone"
  <2>1. pc' \in {"choose", "split", "done"}
    BY <1>3 DEF DupInv
  <2> QED
    BY <1>1, <1>2, <1>3, <2>1, QuietKeeps
<1>4. CASE pc = "clone"
  <2>1. \A v, b : ClonePhi(v, b) => ClonePhi(v, b)'
    BY DEF ClonePhi, Body
  <2>2. ASSUME NEW b \in F.block, b \in Cut PROVE Halves(b)'
    <3>1. Halves(b)
      BY <2>2 DEF DupInv
    <3>2. BB' = BB /\ Cloned(b)' = Cloned(b)
      BY <1>1 DEF Cloned, Body, BB
    <3>3. (CloneSide("then", b) /\ CloneSide("else", b))'
      BY <3>1, <3>2 DEF Halves, CloneSide, Body
    <3> QED
      BY <2>1, <3>1, <3>2, <3>3 DEF Halves, Leaves
  <2>3. \A b \in F.block : b \notin Cut => Whole(b)'
    BY DEF DupInv, Whole, Body, Leaves
  <2>4. \A b \in F.block : b \in Cut <=> b \in Cut'
    BY DEF Cut
  <2>5. Working'
    <3>1. PICK tail, B, n : tail = M.code[Tail_].body /\ B = BB /\ n = Len(Body(BB))
      OBVIOUS
    <3>2. /\ Len(tail) = n /\ DOMAIN tail = 1..n /\ IIT \in 1..(n + 1)
          /\ \A k \in IIT..n : tail[k] = Body(B)[k] /\ tail[k] \in DOMAIN M.uses
          /\ \A k \in 1..(IIT - 1) : tail[k] \in ToRemove \/ ClonePhi(tail[k], B)
          /\ \A v \in ToRemove : \E k \in 1..n : v = Body(B)[k]
      BY <1>4, <3>1 DEF DupInv, Working
    <3>3. M'.code[Tail_'].body = tail /\ BB' = B /\ Body(BB)' = Body(B) /\ Len(Body(B)) = n
      BY <3>1 DEF Body, BB, Tail_
    <3>4. \A v : ClonePhi(v, B) => ClonePhi(v, BB)'
      BY <3>3 DEF ClonePhi, Body
    <3> QED
      BY <1>1, <3>2, <3>3, <3>4 DEF Working
  <2>6. (Computing /\ HeadsThere /\ FromEnds)'
    <3>1. Computing'
      BY DEF DupInv, Computing
    <3>2. HeadsThere'
      BY DEF DupInv, HeadsThere
    <3>3. FromEnds'
      BY DEF DupInv, FromEnds, EndOf
    <3> QED
      BY <3>1, <3>2, <3>3
  <2>7. (KeepsMeaning(ThenVMap) /\ KeepsMeaning(ElseVMap) /\ KeepsMeaning(TailVMap))'
    BY <1>1 DEF DupInv, KeepsMeaning
  <2> QED
    BY <1>2, <2>2, <2>3, <2>4, <2>5, <2>6, <2>7 DEF DupInv
<1> QED
  BY <1>3, <1>4

LEMMA ChooseTargetKeeps == DupInv /\ ChooseTarget => DupInv'
<1> SUFFICES ASSUME DupInv, ChooseTarget PROVE DupInv'
  OBVIOUS
<1> DEFINE b == F.order[next]
<1>1. /\ pc = "choose" /\ pc' = "choose" /\ next <= Len(F.order) /\ next' = next + 1
      /\ UNCHANGED <<F, M, ThenVMap, ElseVMap, TailVMap>>
      /\ Targets' = Targets \/ \E v : Targets' = Append(Targets, <<b, v>>)
  BY DEF ChooseTarget, rivVars, cloneVars
<1>2. /\ F.order \in Seq(F.block) /\ IsInjective(F.order) /\ next \in Nat \ {0} /\ Cut' = {}
      /\ Len(F.order) \in Nat /\ DOMAIN F.order = 1..Len(F.order) /\ F'.order = F.order
      /\ F'.block = F.block
  <2>1. F.order \in Seq(F.block) /\ IsInjective(F.order)
    BY FunctionIs DEF DupInv
  <2> QED
    BY <1>1, <2>1, LenProperties DEF DupInv, Choice, Cut
<1>3. b \in F.block /\ next \in 1..Len(F.order)
  <2>1. next \in 1..Len(F.order)
    BY <1>1, <1>2
  <2> QED
    BY <1>2, <2>1, ElementOfSeq
<1>4. PICK V : Targets \in Seq(F.block \X V)
  BY DEF DupInv, Choice
<1>5. Len(Targets) \in Nat
  BY <1>4, LenProperties
<1>6. \A i \in 1..Len(Targets) : \E m \in 1..(next - 1) :
        m \in 1..Len(F.order) /\ Targets[i][1] = F.order[m]
  BY <1>1 DEF DupInv, Choice
<1>7. \A i, j \in 1..Len(Targets) : Targets[i][1] = Targets[j][1] => i = j
  BY DEF DupInv, Choice
<1>8. CASE Targets' = Targets
  <2>1. \A i \in 1..Len(Targets') : \E m \in 1..(next' - 1) :
          m \in 1..Len(F'.order) /\ Targets'[i][1] = F'.order[m]
    BY <1>1, <1>2, <1>6, <1>8
  <2>2. Choice'
    BY <1>1, <1>2, <1>4, <1>7, <1>8, <2>1 DEF Choice
  <2> QED
    BY <1>1, <2>2, QuietKeeps
<1>9. CASE \E v : Targets' = Append(Targets, <<b, v>>)
  <2>1. PICK v : Targets' = Append(Targets, <<b, v>>)
    BY <1>9
  <2> DEFINE S == F.block \X (V \cup {v})
             l == Len(Targets)
  <2>2. Targets \in Seq(S)
    <3>1. F.block \X V \subseteq S
      OBVIOUS
    <3> HIDE DEF S
    <3> QED
      BY <1>4, <3>1, SeqMonotone
  <2>3. <<b, v>> \in S
    BY <1>3
  <2> HIDE DEF S
  <2>4. /\ Targets' \in Seq(S) /\ Len(Targets') = l + 1
        /\ \A i \in 1..l : Targets'[i] = Targets[i]
        /\ Targets'[l + 1] = <<b, v>>
    BY <2>1, <2>2, <2>3, AppendProperties
  <2>5. ASSUME NEW i \in 1..l PROVE Targets[i][1] # b
    <3>1. PICK m \in 1..(next - 1) : m \in 1..Len(F.order) /\ Targets[i][1] = F.order[m]
      BY <1>6
    <3>2. m # next
      BY <1>2, <3>1
    <3> QED
      BY <1>2, <1>3, <3>1, <3>2 DEF IsInjective
  <2>6. \A i \in 1..(l + 1) : i \in 1..l \/ i = l + 1
    BY <1>5
  <2>7. \A i, j \in 1..(l + 1) : Targets'[i][1] = Targets'[j][1] => i = j
    BY <1>7, <2>4, <2>5, <2>6
  <2>8. \A i \in 1..(l + 1) : \E m \in 1..(next' - 1) :
          m \in 1..Len(F'.order) /\ Targets'[i][1] = F'.order[m]
    <3>1. \A m \in 1..(next - 1) : m \in 1..(next' - 1)
      BY <1>1, <1>2
    <3>2. next \in 1..(next' - 1)
      BY <1>1, <1>2
    <3> QED
      BY <1>2, <1>3, <1>6, <2>4, <2>6, <3>1, <3>2
  <2>9. next' \in Nat \ {0} /\ pc' = "choose" /\ Len(Targets') = l + 1
    BY <1>1, <1>2, <2>4
  <2>10. \E W : Targets' \in Seq(F'.block \X W)
    BY <1>2, <2>4 DEF S
  <2>11. Choice'
    BY <1>2, <2>7, <2>8, <2>9, <2>10 DEF Choice
  <2> QED
    BY <1>1, <2>11, QuietKeeps
<1> QED
  BY <1>1, <1>8, <1>9

LEMMA OthersKeep == DupInv /\ (BuildRIV \/ Chosen \/ Duplicated \/ DuplicateHalt \/ UNCHANGED duplicateVars) => DupInv'
<1> SUFFICES ASSUME DupInv, BuildRIV \/ Chosen \/ Duplicated \/ DuplicateHalt \/ UNCHANGED duplicateVars
             PROVE  DupInv'
  OBVIOUS
<1>1. CASE BuildRIV \/ DuplicateHalt \/ UNCHANGED duplicateVars
  <2>1. UNCHANGED <<F, pc, next, Targets, M, cloneVars>>
    BY <1>1 DEF BuildRIV, ProcessParent, DuplicateHalt, duplicateVars, rivVars, cloneVars
  <2> QED
    BY <2>1, StutterKeeps
<1>2. CASE Chosen
  <2>1. /\ pc = "choose" /\ pc' = "split" /\ next' = 1
        /\ UNCHANGED <<F, Targets, M, ThenVMap, ElseVMap, TailVMap>>
    BY <1>2 DEF Chosen, rivVars, cloneVars
  <2>2. Choice'
    BY <2>1 DEF DupInv, Choice, Cut
  <2> QED
    BY <2>1, <2>2, QuietKeeps
<1>3. CASE Duplicated
  <2>1. /\ pc = "split" /\ pc' = "done"
        /\ UNCHANGED <<F, next, Targets, M, ThenVMap, ElseVMap, TailVMap>>
    BY <1>3 DEF Duplicated, rivVars, cloneVars
  <2>2. Choice'
    BY <2>1 DEF DupInv, Choice
  <2> QED
    BY <2>1, <2>2, QuietKeeps
<1> QED
  BY <1>1, <1>2, <1>3

\* The block that is worked on, and how it is before it is split.
LEMMA BlockChosen ==
  ASSUME DupInv, pc \in {"split", "clone"}, next <= Len(Targets)
  PROVE  /\ BB \in F.block /\ next \in 1..Len(Targets)
         /\ pc = "split" => BB \notin Cut
<1>1. PICK V : Targets \in Seq(F.block \X V)
  BY DEF DupInv, Choice
<1>2. next \in Nat \ {0} /\ Len(Targets) \in Nat /\ next \in 1..Len(Targets)
  BY <1>1, LenProperties DEF DupInv, Choice
<1>3. Targets[next] \in F.block \X V
  BY <1>1, <1>2, ElementOfSeq
<1>4. BB \in F.block
  BY <1>3 DEF BB
<1>5. ASSUME pc = "split", BB \in Cut PROVE FALSE
  <2>1. PICK i \in 1..(next - 1) : i <= Len(Targets) /\ BB = Targets[i][1]
    BY <1>5 DEF DupInv, Choice
  <2>2. i \in 1..Len(Targets) /\ i # next
    BY <1>2, <2>1
  <2> QED
    BY <1>2, <2>1, <2>2 DEF DupInv, Choice, BB
<1> QED
  BY <1>2, <1>4, <1>5

LEMMA PairStays ==
  ASSUME NEW a, NEW b, NEW s, s = <<a, b>>, NEW old, NEW new, a # old, b # old
  PROVE  [k \in DOMAIN s |-> IF s[k] = old THEN new ELSE s[k]] = s
OBVIOUS

LEMMA SplitKeeps == DupInv /\ Split => DupInv'
<1> SUFFICES ASSUME DupInv, Split PROVE DupInv'
  OBVIOUS
<1> DEFINE head == bb(BB)
           then == <<"then", BB>>
           else == <<"else", BB>>
           tail == <<"tail", BB>>
           test == <<"isnull", BB>>
           new  == {then, else, tail, head}
<1>1. /\ pc = "split" /\ pc' = "clone" /\ next <= Len(Targets) /\ IIT' = 1 /\ ToRemove' = {}
      /\ F' = F /\ next' = next /\ Targets' = Targets /\ BB' = BB
      /\ ThenVMap' = NoMap /\ ElseVMap' = NoMap /\ TailVMap' = NoMap
  BY DEF Split, rivVars, BB
<1>2. BB \in F.block /\ next \in 1..Len(Targets) /\ BB \notin Cut /\ F \in RIVFunctions
  BY <1>1, BlockChosen DEF DupInv
<1>3. /\ Whole(BB) /\ M.code[head] = F.code[BB] /\ M.succ[head] = Leaves(BB)
      /\ \A k \in 1..Len(Body(BB)) : Body(BB)[k] \in DOMAIN M.uses
  BY <1>2 DEF DupInv, Whole
<1>4. \A b \in F.block : bb(b) \in DOMAIN M.code /\ bb(b) \in DOMAIN M.succ
  BY DEF DupInv, HeadsThere
<1>5. /\ M'.code = Put(Put(Put(Put(M.code, then, Branching), else, Branching),
                            tail, [M.code[head] EXCEPT !.phis = <<>>]),
                        head, [phis |-> M.code[head].phis, body |-> <<test>>, term |-> <<"test", BB>>])
      /\ M'.uses = Put(Put(Put(M.uses, <<"br", BB>>, <<>>), <<"test", BB>>, <<test>>),
                       test, <<CurrentContext>>)
      /\ M'.from = Renamed(M.from, head, tail)
      /\ M'.succ = Put(Put(Put(Put(M.succ, tail, M.succ[head]), else, <<tail>>), then, <<tail>>),
                       head, <<then, else>>)
      /\ M' = [code |-> M'.code, uses |-> M'.uses, from |-> M'.from, succ |-> M'.succ]
  BY DEF Split
<1>6. \A b, c : /\ bb(b) # <<"then", c>> /\ bb(b) # <<"else", c>> /\ bb(b) # <<"tail", c>>
                /\ bb(b) = bb(c) => b = c
  BY DEF bb
<1>7. then # else /\ then # tail /\ else # tail /\ head # then /\ head # else /\ head # tail
  BY <1>6
<1>8. /\ DOMAIN M'.code = DOMAIN M.code \cup new
      /\ M'.code[then] = Branching /\ M'.code[else] = Branching
      /\ M'.code[tail] = [M.code[head] EXCEPT !.phis = <<>>]
      /\ M'.code[head] = [phis |-> M.code[head].phis, body |-> <<test>>, term |-> <<"test", BB>>]
      /\ \A x \in DOMAIN M.code : x \notin new => M'.code[x] = M.code[x]
  <2>1. PICK c, r, br : /\ c = [M.code[head] EXCEPT !.phis = <<>>] /\ br = Branching
                       /\ r = [phis |-> M.code[head].phis, body |-> <<test>>, term |-> <<"test", BB>>]
    OBVIOUS
  <2>2. M'.code = Put(Put(Put(Put(M.code, then, br), else, br), tail, c), head, r)
    BY <1>5, <2>1
  <2> HIDE DEF head, then, else, tail, test
  <2>3. /\ DOMAIN M'.code = DOMAIN M.code \cup new
        /\ M'.code[then] = br /\ M'.code[else] = br /\ M'.code[tail] = c /\ M'.code[head] = r
    BY <1>7, <2>2 DEF Put
  <2>4. \A x \in DOMAIN M.code : x \notin new => M'.code[x] = M.code[x]
    BY <2>2 DEF Put
  <2> QED
    BY <2>1, <2>3, <2>4
<1>9. /\ DOMAIN M'.succ = DOMAIN M.succ \cup new
      /\ M'.succ[then] = <<tail>> /\ M'.succ[else] = <<tail>>
      /\ M'.succ[tail] = Leaves(BB) /\ M'.succ[head] = <<then, else>>
      /\ \A x \in DOMAIN M.succ : x \notin new => M'.succ[x] = M.succ[x]
  <2> HIDE DEF head, then, else, tail, test
  <2> QED
    BY <1>3, <1>5, <1>7 DEF Put
<1>10. /\ DOMAIN M'.uses = DOMAIN M.uses \cup {<<"br", BB>>, <<"test", BB>>, test}
       /\ \A v \in DOMAIN M.uses : v \notin {<<"br", BB>>, <<"test", BB>>, test} => M'.uses[v] = M.uses[v]
  <2> HIDE DEF head, then, else, tail, test
  <2> QED
    BY <1>5 DEF Put
<1>11. /\ DOMAIN M'.from = DOMAIN M.from
       /\ \A p \in DOMAIN M.from : M'.from[p] = [k \in DOMAIN M.from[p] |->
                                               IF M.from[p][k] = head THEN tail ELSE M.from[p][k]]
  BY <1>5 DEF Renamed
<1>12. \A b : b \in Cut' <=> b \in Cut \/ b = BB
  BY <1>1, <1>2, <1>8 DEF Cut, bb
<1>13. \A v, b : ClonePhi(v, b) => ClonePhi(v, b)'
  <2> SUFFICES ASSUME NEW v, NEW b, ClonePhi(v, b) PROVE ClonePhi(v, b)'
    OBVIOUS
  <2>1. /\ \E k \in 1..Len(Body(b)) : v = <<"phi", Body(b)[k][2]>>
        /\ v \in DOMAIN M.uses /\ M.uses[v] = << <<"then", v[2]>>, <<"else", v[2]>> >>
        /\ v \in DOMAIN M.from /\ M.from[v] = << <<"then", b>>, <<"else", b>> >>
    BY DEF ClonePhi
  <2>2. v \in DOMAIN M'.uses /\ M'.uses[v] = M.uses[v]
    BY <1>10, <2>1
  <2>3. M'.from[v] = M.from[v]
    <3>1. <<"then", b>> # head /\ <<"else", b>> # head
      BY <1>6
    <3>2. PICK s, r : s = M.from[v] /\ r = M'.from[v]
      OBVIOUS
    <3> HIDE DEF head, tail
    <3>3. r = [k \in DOMAIN s |-> IF s[k] = head THEN tail ELSE s[k]]
      BY <1>11, <2>1, <3>2
    <3> QED
      BY <2>1, <3>1, <3>2, <3>3, PairStays
  <2> QED
    BY <1>1, <1>11, <2>1, <2>2, <2>3 DEF ClonePhi, Body
<1>14. ASSUME NEW b \in F.block, b \in Cut PROVE Halves(b)'
  <2>1. Halves(b) /\ b # BB /\ Cloned(b) = Cloned(b)' /\ bb(b) \in DOMAIN M.code
        /\ <<"tail", b>> \in DOMAIN M.code /\ DOMAIN M.succ = DOMAIN M.code
    BY <1>1, <1>2, <1>14 DEF DupInv, Cloned, Body, HeadsThere, Cut
  <2>2. bb(b) \notin new /\ <<"tail", b>> \notin new /\ <<"then", b>> \notin new /\ <<"else", b>> \notin new
    BY <1>6, <2>1 DEF bb
  <2>3. /\ M'.code[bb(b)] = M.code[bb(b)] /\ M'.code[<<"tail", b>>] = M.code[<<"tail", b>>]
        /\ M'.succ[bb(b)] = M.succ[bb(b)] /\ M'.succ[<<"tail", b>>] = M.succ[<<"tail", b>>]
    BY <1>8, <1>9, <2>1, <2>2
  <2>4. ASSUME NEW side \in {"then", "else"}, CloneSide(side, b) PROVE CloneSide(side, b)'
    <3>1. <<side, b>> \in DOMAIN M.code /\ <<side, b>> \notin new
      BY <2>2, <2>4 DEF CloneSide
    <3>2. /\ <<side, b>> \in DOMAIN M'.code /\ M'.code[<<side, b>>] = M.code[<<side, b>>]
          /\ M'.succ[<<side, b>>] = M.succ[<<side, b>>]
      BY <1>8, <1>9, <2>1, <3>1
    <3>3. \A v \in DOMAIN M.uses : v \in DOMAIN M'.uses
      BY <1>10
    <3> QED
      BY <1>1, <2>1, <2>4, <3>2, <3>3 DEF CloneSide, Body
  <2>5. (CloneSide("then", b) /\ CloneSide("else", b))'
    BY <2>1, <2>4 DEF Halves
  <2>6. \A v \in ToSet(M.code[<<"tail", b>>].phis) : ClonePhi(v, b)
    BY <1>1, <2>1 DEF Halves
  <2> QED
    BY <1>1, <1>13, <2>1, <2>3, <2>5, <2>6 DEF Halves, Leaves
<1>15. Halves(BB)'
  <2>1. F.code[BB] = [phis |-> F.code[BB].phis, body |-> Body(BB), term |-> F.code[BB].term]
    BY <1>2, BlockIs
  <2>2. M'.code[tail] = [phis |-> <<>>, body |-> Body(BB), term |-> F.code[BB].term]
    BY <1>3, <1>8, <2>1
  <2>3. Cloned(BB)' = 0
    BY <1>1 DEF Cloned
  <2>4. ASSUME NEW side \in {"then", "else"} PROVE CloneSide(side, BB)'
    <3>1. /\ <<side, BB>> \in DOMAIN M'.code /\ M'.code[<<side, BB>>] = Branching
          /\ M'.succ[<<side, BB>>] = <<tail>>
      BY <1>8, <1>9
    <3>2. [k \in 1..Cloned(BB)' |-> <<side, Body(BB)[k][2]>>] = <<>>
      BY <2>3
    <3> QED
      BY <1>1, <2>3, <3>1, <3>2 DEF CloneSide, Branching, Body
  <2> QED
    BY <1>1, <1>3, <1>8, <1>9, <2>2, <2>4 DEF Halves, Leaves
<1>16. ASSUME NEW b \in F.block, b \notin Cut, b # BB PROVE Whole(b)'
  <2>1. Whole(b) /\ bb(b) \in DOMAIN M.code /\ bb(b) \in DOMAIN M.succ /\ bb(b) \notin new
    BY <1>4, <1>6, <1>16 DEF DupInv
  <2>2. M'.code[bb(b)] = M.code[bb(b)] /\ M'.succ[bb(b)] = M.succ[bb(b)]
    BY <1>8, <1>9, <2>1
  <2> QED
    BY <1>1, <1>10, <2>1, <2>2 DEF Whole, Leaves, Body
<1>17. Choice'
  <2>1. BB' \in Cut'
    BY <1>1, <1>12
  <2>2. ASSUME NEW b \in Cut' PROVE \E i \in 1..next : b = Targets[i][1]
    <3>1. CASE b = BB
      BY <1>2, <3>1 DEF BB
    <3>2. CASE b \in Cut
      <4>1. PICK i \in 1..(next - 1) : b = Targets[i][1]
        BY <1>1, <3>2 DEF DupInv, Choice
      <4>2. i \in 1..next
        BY <1>2
      <4> QED
        BY <4>1, <4>2
    <3> QED
      BY <1>12, <2>2, <3>1, <3>2
  <2> QED
    BY <1>1, <2>1, <2>2 DEF DupInv, Choice
<1>18. Working'
  <2>1. Len(Body(BB)) \in Nat /\ DOMAIN Body(BB) = 1..Len(Body(BB))
    BY <1>2, BlockIs
  <2>2. M'.code[tail].body = Body(BB)
    BY <1>3, <1>8 DEF Body
  <2> DEFINE n == Len(Body(BB))
  <2>3. \A k \in 1..n : Body(BB)[k] \in DOMAIN M'.uses
    BY <1>3, <1>10
  <2> QED
    BY <1>1, <2>1, <2>2, <2>3 DEF Working, Tail_, Body
<1>19. Computing'
  BY <1>1, <1>10 DEF DupInv, Computing, MeanAll
<1>20. HeadsThere'
  BY <1>1, <1>8, <1>9, <1>10 DEF DupInv, HeadsThere
<1>21. FromEnds'
  <2>1. ASSUME NEW b PROVE EndOf(b)' = IF EndOf(b) = head THEN tail ELSE EndOf(b)
    <3>1. CASE b = BB
      BY <1>2, <1>8, <3>1 DEF EndOf, Cut
    <3>2. CASE b # BB
      BY <1>6, <1>8, <3>2 DEF EndOf, bb
    <3> QED
      BY <3>1, <3>2
  <2>2. ASSUME NEW p \in DOMAIN F.from
        PROVE  p \in DOMAIN M'.from /\ M'.from[p] = [i \in DOMAIN F.from[p] |-> EndOf(F.from[p][i])']
    <3>1. p \in DOMAIN M.from /\ M.from[p] = [i \in DOMAIN F.from[p] |-> EndOf(F.from[p][i])]
      BY DEF DupInv, FromEnds
    <3>2. M'.from[p] = [k \in DOMAIN M.from[p] |-> IF M.from[p][k] = head THEN tail ELSE M.from[p][k]]
      BY <1>11, <3>1
    <3>3. DOMAIN M.from[p] = DOMAIN F.from[p]
      BY <3>1
    <3>4. \A i \in DOMAIN F.from[p] : M.from[p][i] = EndOf(F.from[p][i])
      BY <3>1
    <3> HIDE DEF head, tail
    <3>5. ASSUME NEW i \in DOMAIN F.from[p] PROVE M'.from[p][i] = EndOf(F.from[p][i])'
      <4>1. PICK e : e = F.from[p][i]
        OBVIOUS
      <4>2. EndOf(F.from[p][i])' = EndOf(e)' /\ EndOf(F.from[p][i]) = EndOf(e)
        BY <1>1, <4>1
      <4> QED
        BY <2>1, <3>2, <3>3, <3>4, <4>2
    <3>6. M'.from[p] = [i \in DOMAIN F.from[p] |-> M'.from[p][i]]
      BY <3>2, <3>3
    <3> QED
      BY <1>11, <3>1, <3>5, <3>6
  <2> QED
    BY <1>1, <2>2 DEF FromEnds
<1>22. (KeepsMeaning(ThenVMap) /\ KeepsMeaning(ElseVMap) /\ KeepsMeaning(TailVMap))'
  BY <1>1 DEF KeepsMeaning, NoMap
<1> QED
  BY <1>1, <1>2, <1>5, <1>12, <1>14, <1>15, <1>16, <1>17, <1>18, <1>19, <1>20, <1>21, <1>22 DEF DupInv

LEMMA AppendedIs ==
  ASSUME NEW n \in Nat, NEW f, NEW s, s = [k \in 1..n |-> f[k]]
  PROVE  Append(s, f[n + 1]) = [k \in 1..(n + 1) |-> f[k]]
<1> DEFINE S == {f[k] : k \in 1..(n + 1)}
<1>1. s \in Seq(S) /\ f[n + 1] \in S
  <2>1. \A k \in 1..n : k \in 1..(n + 1)
    OBVIOUS
  <2>2. s \in [1..n -> S]
    BY <2>1
  <2> QED
    BY <2>2, SeqDef
<1>2. Len(s) = n
  BY <1>1, LenProperties
<1> HIDE DEF S
<1>3. /\ Append(s, f[n + 1]) \in Seq(S) /\ Len(Append(s, f[n + 1])) = n + 1
      /\ \A i \in 1..n : Append(s, f[n + 1])[i] = s[i]
      /\ Append(s, f[n + 1])[n + 1] = f[n + 1]
  BY <1>1, <1>2, AppendProperties
<1>4. PICK r : r = Append(s, f[n + 1])
  OBVIOUS
<1>5. r \in [1..(n + 1) -> S]
  BY <1>3, <1>4, LenProperties
<1>6. \A i \in 1..(n + 1) : i \in 1..n \/ i = n + 1
  OBVIOUS
<1>7. \A i \in 1..(n + 1) : r[i] = f[i]
  BY <1>3, <1>4, <1>6
<1> QED
  BY <1>4, <1>5, <1>7

\* The instruction at IIT is the block's own, and untouched.
AtWork ==
  /\ BB \in F.block /\ BB \in Cut /\ Halves(BB)
  /\ IIT \in 1..Len(Body(BB)) /\ Len(Body(BB)) \in Nat
  /\ Len(M.code[Tail_].body) = Len(Body(BB)) /\ DOMAIN M.code[Tail_].body = 1..Len(Body(BB))
  /\ Instr = Body(BB)[IIT] /\ Instr = <<"inst", Instr[2]>>
  /\ Instr \in DOMAIN F.uses /\ Instr \in DOMAIN M.uses

LEMMA IsAtWork ==
  ASSUME DupInv, pc = "clone", IIT <= Len(M.code[Tail_].body)
  PROVE  AtWork
<1>1. next <= Len(Targets) /\ BB \in Cut
  BY DEF DupInv, Choice
<1>2. BB \in F.block /\ F \in RIVFunctions
  BY <1>1, BlockChosen DEF DupInv
<1>3. Halves(BB)
  BY <1>1, <1>2 DEF DupInv
<1>4. /\ Len(Body(BB)) \in Nat
      /\ \A k \in 1..Len(Body(BB)) : Body(BB)[k] \in DOMAIN F.uses
  BY <1>2, BlockIs
<1>5. /\ Len(M.code[Tail_].body) = Len(Body(BB)) /\ DOMAIN M.code[Tail_].body = 1..Len(Body(BB))
      /\ IIT \in 1..(Len(Body(BB)) + 1)
      /\ \A k \in IIT..Len(Body(BB)) : M.code[Tail_].body[k] = Body(BB)[k] /\ M.code[Tail_].body[k] \in DOMAIN M.uses
  BY DEF DupInv, Working
<1>6. IIT \in 1..Len(Body(BB)) /\ IIT \in IIT..Len(Body(BB))
  BY <1>4, <1>5
<1>7. Instr = Body(BB)[IIT] /\ Instr \in DOMAIN M.uses /\ Instr \in DOMAIN F.uses
  BY <1>4, <1>5, <1>6 DEF Instr
<1>8. Instr = <<"inst", Instr[2]>>
  BY <1>2, <1>7, FunctionIs
<1> QED
  BY <1>1, <1>2, <1>3, <1>4, <1>5, <1>6, <1>7, <1>8 DEF AtWork

ThenClone == <<"then", Instr[2]>>
ElseClone == <<"else", Instr[2]>>

\* W is the present function with the clones of Instr.
WithBoth(W) ==
  /\ W = [code |-> W.code, uses |-> W.uses, from |-> M.from, succ |-> M.succ]
  /\ DOMAIN W.code = DOMAIN M.code
  /\ \A x \in DOMAIN M.code : x \notin {Then, Else} => W.code[x] = M.code[x]
  /\ W.code[Then] = [phis |-> <<>>, term |-> <<"br", BB>>,
                     body |-> [k \in 1..IIT |-> <<"then", Body(BB)[k][2]>>]]
  /\ W.code[Else] = [phis |-> <<>>, term |-> <<"br", BB>>,
                     body |-> [k \in 1..IIT |-> <<"else", Body(BB)[k][2]>>]]
  /\ DOMAIN W.uses = DOMAIN M.uses \cup {ThenClone, ElseClone}
  /\ W.uses[ThenClone] = Remapped(M.uses[Instr], ThenVMap)
  /\ W.uses[ElseClone] = Remapped(M.uses[Instr], ElseVMap)
  /\ \A v \in DOMAIN M.uses : v \notin {ThenClone, ElseClone} => W.uses[v] = M.uses[v]
  /\ \A v \in DOMAIN W.uses : v[1] \in {"inst", "then", "else"} =>
       Means(v) \in DOMAIN F.uses /\ MeanAll(W.uses[v]) = F.uses[Means(v)]

LEMMA ClonesAre ==
  ASSUME DupInv, pc = "clone", AtWork
  PROVE  WithBoth(WithClones)
<1> DEFINE then == ThenClone
           else == ElseClone
           uses == Put(Put(M.uses, else, Remapped(M.uses[Instr], ElseVMap)),
                       then, Remapped(M.uses[Instr], ThenVMap))
<1>1. PICK W : W = WithClones
  OBVIOUS
<1>2. Then # Else /\ then # else
  BY DEF Then, Else, ThenClone, ElseClone
<1>3. M = [code |-> M.code, uses |-> M.uses, from |-> M.from, succ |-> M.succ]
  BY DEF DupInv
<1>4. Then \in DOMAIN M.code /\ Else \in DOMAIN M.code /\ Cloned(BB) = IIT - 1 /\ IIT \in Nat \ {0}
  BY DEF AtWork, Halves, CloneSide, Then, Else, Cloned
<1>5. W = [M EXCEPT !.code = [[M.code EXCEPT ![Then].body = Append(@, then)]
                                        EXCEPT ![Else].body = Append(@, else)],
                    !.uses = uses]
  BY <1>1, <1>2, <1>3, <1>4 DEF WithClones, ThenClone, ElseClone
<1>6. W = [code |-> W.code, uses |-> W.uses, from |-> M.from, succ |-> M.succ] /\ W.uses = uses
  BY <1>3, <1>5
<1>7. W.code = [[M.code EXCEPT ![Then].body = Append(@, then)] EXCEPT ![Else].body = Append(@, else)]
  BY <1>3, <1>5
<1>8. ASSUME NEW side \in {"then", "else"}
      PROVE  [M.code[<<side, BB>>] EXCEPT !.body = Append(@, <<side, Instr[2]>>)]
               = [phis |-> <<>>, term |-> <<"br", BB>>,
                  body |-> [k \in 1..IIT |-> <<side, Body(BB)[k][2]>>]]
  <2>1. M.code[<<side, BB>>] = [phis |-> <<>>, term |-> <<"br", BB>>,
                               body |-> [k \in 1..(IIT - 1) |-> <<side, Body(BB)[k][2]>>]]
    BY <1>4 DEF AtWork, Halves, CloneSide
  <2> DEFINE f == [k \in 1..Len(Body(BB)) |-> <<side, Body(BB)[k][2]>>]
             s == [k \in 1..(IIT - 1) |-> f[k]]
  <2>2. PICK n \in Nat : n = IIT - 1
    BY <1>4
  <2>3. n + 1 = IIT /\ \A k \in 1..(n + 1) : k \in 1..Len(Body(BB))
    BY <1>4, <2>2 DEF AtWork
  <2>4. /\ f[n + 1] = <<side, Instr[2]>>
        /\ s = [k \in 1..(IIT - 1) |-> <<side, Body(BB)[k][2]>>]
        /\ [k \in 1..(n + 1) |-> f[k]] = [k \in 1..IIT |-> <<side, Body(BB)[k][2]>>]
    BY <2>2, <2>3 DEF AtWork
  <2>5. s = [k \in 1..n |-> f[k]]
    BY <2>2
  <2> HIDE DEF f, s
  <2>6. Append(s, f[n + 1]) = [k \in 1..(n + 1) |-> f[k]]
    BY <2>5, AppendedIs
  <2>7. M.code[<<side, BB>>] = [phis |-> <<>>, term |-> <<"br", BB>>, body |-> s]
    BY <2>1, <2>4
  <2>8. PICK m, e, r : /\ m = M.code[<<side, BB>>] /\ e = <<side, Instr[2]>>
                      /\ r = [k \in 1..IIT |-> <<side, Body(BB)[k][2]>>]
    OBVIOUS
  <2>9. m = [phis |-> <<>>, term |-> <<"br", BB>>, body |-> s] /\ Append(s, e) = r
    BY <2>4, <2>6, <2>7, <2>8
  <2>10. [m EXCEPT !.body = Append(@, e)] = [phis |-> <<>>, term |-> <<"br", BB>>, body |-> r]
    <3>1. m.body = s
      BY <2>9
    <3>2. [m EXCEPT !.body = Append(@, e)] = [m EXCEPT !.body = r]
      BY <2>9, <3>1, Zenon
    <3> QED
      BY <2>9, <3>2
  <2> QED
    BY <2>8, <2>10
<1>9. /\ DOMAIN W.code = DOMAIN M.code
      /\ \A x \in DOMAIN M.code : x \notin {Then, Else} => W.code[x] = M.code[x]
      /\ W.code[Then] = [M.code[Then] EXCEPT !.body = Append(@, then)]
      /\ W.code[Else] = [M.code[Else] EXCEPT !.body = Append(@, else)]
  BY <1>2, <1>4, <1>7
<1>10. /\ W.code[Then] = [phis |-> <<>>, term |-> <<"br", BB>>,
                          body |-> [k \in 1..IIT |-> <<"then", Body(BB)[k][2]>>]]
       /\ W.code[Else] = [phis |-> <<>>, term |-> <<"br", BB>>,
                          body |-> [k \in 1..IIT |-> <<"else", Body(BB)[k][2]>>]]
  BY <1>8, <1>9 DEF Then, Else, ThenClone, ElseClone
<1>11. /\ DOMAIN W.uses = DOMAIN M.uses \cup {then, else}
       /\ W.uses[then] = Remapped(M.uses[Instr], ThenVMap)
       /\ W.uses[else] = Remapped(M.uses[Instr], ElseVMap)
       /\ \A v \in DOMAIN M.uses : v \notin {then, else} => W.uses[v] = M.uses[v]
  <2>1. PICK a, b : a = Remapped(M.uses[Instr], ThenVMap) /\ b = Remapped(M.uses[Instr], ElseVMap)
    OBVIOUS
  <2>2. W.uses = Put(Put(M.uses, else, b), then, a)
    BY <1>6, <2>1
  <2> HIDE DEF then, else
  <2> QED
    BY <1>2, <2>1, <2>2 DEF Put
<1>12. /\ Means(Instr) = Instr /\ Means(then) = Instr /\ Means(else) = Instr
       /\ then # Instr /\ else # Instr
  BY DEF AtWork, Means, ThenClone, ElseClone
<1>13. MeanAll(M.uses[Instr]) = F.uses[Instr] /\ Instr \in DOMAIN F.uses
  <2>1. Instr \in DOMAIN M.uses /\ Instr[1] = "inst" /\ Instr \in DOMAIN F.uses
    BY DEF AtWork
  <2> QED
    BY <1>12, <2>1 DEF DupInv, Computing
<1>14. KeepsMeaning(ThenVMap) /\ KeepsMeaning(ElseVMap)
  BY DEF DupInv
<1>15. MeanAll(W.uses[then]) = F.uses[Instr] /\ MeanAll(W.uses[else]) = F.uses[Instr]
  BY <1>11, <1>13, <1>14, RemappedMeans
<1>16. ASSUME NEW v \in DOMAIN W.uses, v[1] \in {"inst", "then", "else"}
       PROVE  Means(v) \in DOMAIN F.uses /\ MeanAll(W.uses[v]) = F.uses[Means(v)]
  <2>1. CASE v \in {then, else}
    BY <1>12, <1>13, <1>15, <2>1
  <2>2. CASE v \notin {then, else}
    BY <1>11, <1>16, <2>2 DEF DupInv, Computing
  <2> QED
    BY <2>1, <2>2
<1>17. WithBoth(W)
  BY <1>6, <1>9, <1>10, <1>11, <1>16 DEF WithBoth
<1> QED
  BY <1>1, <1>17

\* What a step of the clone loop does to the blocks.
CloneFrame ==
  /\ F' = F /\ pc = "clone" /\ pc' = "clone" /\ next' = next /\ Targets' = Targets /\ BB' = BB
  /\ IIT' = IIT + 1
  /\ M' = [code |-> M'.code, uses |-> M'.uses, from |-> M'.from, succ |-> M.succ]
  /\ DOMAIN M'.code = DOMAIN M.code
  /\ \A x \in DOMAIN M.code : x \notin {Then, Else, Tail_} => M'.code[x] = M.code[x]
  /\ M'.code[Then] = [phis |-> <<>>, term |-> <<"br", BB>>,
                      body |-> [k \in 1..IIT |-> <<"then", Body(BB)[k][2]>>]]
  /\ M'.code[Else] = [phis |-> <<>>, term |-> <<"br", BB>>,
                      body |-> [k \in 1..IIT |-> <<"else", Body(BB)[k][2]>>]]
  /\ M'.code[Tail_] = [phis |-> M.code[Tail_].phis, body |-> M'.code[Tail_].body,
                       term |-> M.code[Tail_].term]
  /\ ThenClone \in DOMAIN M'.uses /\ ElseClone \in DOMAIN M'.uses
  /\ \A v \in DOMAIN M.uses : v # Instr => v \in DOMAIN M'.uses
  /\ \A v \in DOMAIN M.from : v[1] = "inst" => v \in DOMAIN M'.from /\ M'.from[v] = M.from[v]
  /\ \A v : \A b \in F.block : ClonePhi(v, b) => ClonePhi(v, b)'

LEMMA FrameKeeps ==
  ASSUME DupInv, AtWork, CloneFrame, Working', Computing',
         (KeepsMeaning(ThenVMap) /\ KeepsMeaning(ElseVMap) /\ KeepsMeaning(TailVMap))'
  PROVE  DupInv'
<1>1. /\ F' = F /\ pc = "clone" /\ pc' = "clone" /\ next' = next /\ Targets' = Targets /\ BB' = BB
      /\ IIT' = IIT + 1 /\ DOMAIN M'.code = DOMAIN M.code /\ M'.succ = M.succ
      /\ M' = [code |-> M'.code, uses |-> M'.uses, from |-> M'.from, succ |-> M'.succ]
      /\ F \in RIVFunctions /\ BB \in F.block /\ IIT \in 1..Len(Body(BB)) /\ Len(Body(BB)) \in Nat
  BY DEF CloneFrame, DupInv, AtWork
<1>2. \A b : b \in Cut' <=> b \in Cut
  BY <1>1 DEF Cut
<1>3. Choice'
  BY <1>1, <1>2 DEF DupInv, Choice
<1>4. \A x \in DOMAIN M.code : x \notin {Then, Else, Tail_} => M'.code[x] = M.code[x]
  BY DEF CloneFrame
<1>5. \A b, c : /\ bb(b) # <<"then", c>> /\ bb(b) # <<"else", c>> /\ bb(b) # <<"tail", c>>
  BY DEF bb
<1>6. /\ \A v \in DOMAIN M.uses : v # Instr => v \in DOMAIN M'.uses
      /\ \A v : \A b \in F.block : ClonePhi(v, b) => ClonePhi(v, b)'
  BY DEF CloneFrame
<1>7. \A v, b : <<"then", v>> # Instr /\ <<"else", v>> # Instr
  BY DEF AtWork
<1>8. Instr = Body(BB)[IIT]
  BY DEF AtWork
<1>9. ASSUME NEW b \in F.block, b \in Cut, b # BB PROVE Halves(b)'
  <2>1. Halves(b) /\ Cloned(b) = Cloned(b)' /\ bb(b) \in DOMAIN M.code /\ <<"tail", b>> \in DOMAIN M.code
    BY <1>1, <1>9 DEF DupInv, Cloned, Body, HeadsThere, Cut
  <2>2. /\ M'.code[bb(b)] = M.code[bb(b)] /\ M'.code[<<"tail", b>>] = M.code[<<"tail", b>>]
    BY <1>4, <1>5, <1>9, <2>1 DEF Then, Else, Tail_
  <2>3. ASSUME NEW side \in {"then", "else"}, CloneSide(side, b) PROVE CloneSide(side, b)'
    <3>1. <<side, b>> \in DOMAIN M.code /\ <<side, b>> \notin {Then, Else, Tail_}
      BY <1>9, <2>3 DEF CloneSide, Then, Else, Tail_
    <3>2. M'.code[<<side, b>>] = M.code[<<side, b>>]
      BY <1>4, <3>1
    <3>3. \A k \in 1..Cloned(b) : <<side, Body(b)[k][2]>> \in DOMAIN M'.uses
      BY <1>6, <1>7, <2>3 DEF CloneSide
    <3> QED
      BY <1>1, <2>1, <2>3, <3>1, <3>2, <3>3 DEF CloneSide, Body
  <2>4. (CloneSide("then", b) /\ CloneSide("else", b))'
    BY <2>1, <2>3 DEF Halves
  <2>5. \A v \in ToSet(M.code[<<"tail", b>>].phis) : ClonePhi(v, b)
    BY <1>9, <2>1 DEF Halves
  <2> QED
    BY <1>1, <1>6, <2>1, <2>2, <2>4, <2>5 DEF Halves, Leaves
<1>10. Halves(BB)'
  <2>1. Halves(BB) /\ bb(BB) \in DOMAIN M.code /\ Cloned(BB) = IIT - 1 /\ Cloned(BB)' = IIT
    BY <1>1 DEF AtWork, DupInv, Cloned, HeadsThere
  <2>2. M'.code[bb(BB)] = M.code[bb(BB)]
    BY <1>4, <1>5, <2>1 DEF Then, Else, Tail_
  <2>3. M'.code[Tail_] = [phis |-> M'.code[Tail_].phis, body |-> M'.code[Tail_].body, term |-> F.code[BB].term]
    BY <2>1 DEF CloneFrame, Halves, Tail_
  <2>4. ASSUME NEW side \in {"then", "else"} PROVE CloneSide(side, BB)'
    <3>1. CloneSide(side, BB)
      BY <2>1 DEF Halves
    <3>2. M'.code[<<side, BB>>] = [phis |-> <<>>, term |-> <<"br", BB>>,
                                  body |-> [k \in 1..IIT |-> <<side, Body(BB)[k][2]>>]]
      BY DEF CloneFrame, Then, Else
    <3>3. ASSUME NEW k \in 1..IIT PROVE <<side, Body(BB)[k][2]>> \in DOMAIN M'.uses
      <4>1. CASE k = IIT
        BY <1>8, <4>1 DEF CloneFrame, ThenClone, ElseClone
      <4>2. CASE k # IIT
        <5>1. k \in 1..Cloned(BB)
          BY <1>1, <2>1, <4>2
        <5> QED
          BY <1>6, <1>7, <3>1, <5>1 DEF CloneSide
      <4> QED
        BY <4>1, <4>2
    <3> QED
      BY <1>1, <2>1, <3>1, <3>2, <3>3 DEF CloneSide, Body
  <2> QED
    BY <1>1, <2>1, <2>2, <2>3, <2>4 DEF Halves, Leaves, Tail_
<1>11. ASSUME NEW b \in F.block, b \notin Cut PROVE Whole(b)'
  <2>1. Whole(b) /\ bb(b) \in DOMAIN M.code /\ b # BB
    BY <1>11 DEF DupInv, HeadsThere, AtWork
  <2>2. M'.code[bb(b)] = M.code[bb(b)]
    BY <1>4, <1>5, <2>1 DEF Then, Else, Tail_
  <2>3. ASSUME NEW k \in 1..Len(Body(b)) PROVE Body(b)[k] # Instr
    BY <1>1, <1>8, <1>11, <2>1, <2>3, OnePlaceEach
  <2>4. \A k \in 1..Len(Body(b)) : Body(b)[k] \in DOMAIN M'.uses
    BY <1>6, <2>1, <2>3 DEF Whole
  <2> QED
    BY <1>1, <2>1, <2>2, <2>4 DEF Whole, Leaves, Body
<1>12. HeadsThere'
  <2>1. ASSUME NEW b \in F.block PROVE Instr # F.code[b].term
    BY <1>1, <1>8, OnePlaceEach
  <2>2. ASSUME NEW b \in F.block, NEW k \in DOMAIN F.code[b].phis PROVE Instr # F.code[b].phis[k]
    <3>1. F.code[b].phis[k] \in ToSet(F.code[b].phis)
      BY DEF ToSet
    <3> QED
      BY <1>1, <1>8, <3>1, OnePlaceEach
  <2> QED
    BY <1>1, <1>6, <2>1, <2>2 DEF HeadsThere, DupInv
<1>13. FromEnds'
  <2>1. \A p \in DOMAIN F.from : p[1] = "inst"
    BY <1>1, FunctionIs
  <2>2. \A b : EndOf(b)' = EndOf(b)
    BY <1>1 DEF EndOf
  <2>3. \A v \in DOMAIN M.from : v[1] = "inst" => v \in DOMAIN M'.from /\ M'.from[v] = M.from[v]
    BY DEF CloneFrame
  <2>4. ASSUME NEW p \in DOMAIN F.from, NEW i \in DOMAIN F.from[p]
        PROVE  EndOf(F.from[p][i])' = EndOf(F.from[p][i])
    <3>1. PICK e : e = F.from[p][i]
      OBVIOUS
    <3>2. EndOf(F.from[p][i])' = EndOf(e)' /\ EndOf(F.from[p][i]) = EndOf(e)
      BY <1>1, <3>1
    <3> QED
      BY <2>2, <3>2
  <2>5. \A p \in DOMAIN F.from :
          p \in DOMAIN M.from /\ M.from[p] = [i \in DOMAIN F.from[p] |-> EndOf(F.from[p][i])]
    BY DEF DupInv, FromEnds
  <2> QED
    BY <1>1, <2>1, <2>3, <2>4, <2>5 DEF FromEnds
<1> QED
  BY <1>1, <1>2, <1>3, <1>9, <1>10, <1>11, <1>12, <1>13 DEF DupInv

\* Working after a step, in terms of what the tail's body is then.
WorkingOn(tail, B, n) ==
  /\ pc' = "clone" /\ IIT' = IIT + 1 /\ n \in Nat /\ IIT \in 1..n
  /\ M'.code[Tail_'].body = tail /\ BB' = B /\ Len(Body(B)') = n
  /\ \A k \in 1..n : Body(B)'[k] = Body(B)[k]
  /\ Len(tail) = n /\ DOMAIN tail = 1..n
  /\ \A k \in (IIT + 1)..n : tail[k] = Body(B)[k] /\ tail[k] \in DOMAIN M'.uses
  /\ \A k \in 1..((IIT + 1) - 1) : tail[k] \in ToRemove' \/ ClonePhi(tail[k], B)'
  /\ \A v \in ToRemove' : \E k \in 1..n : v = Body(B)[k]

LEMMA WorkingThen ==
  ASSUME NEW tail, NEW B, NEW n, WorkingOn(tail, B, n)
  PROVE  Working'
<1> USE DEF WorkingOn
<1>1. PICK i \in Nat : i = IIT + 1
  OBVIOUS
<1>2. i \in 1..(n + 1) /\ \A k \in i..n : k \in 1..n
  BY <1>1
<1>3. Body(BB)' = Body(B)'
  BY DEF Body
<1>4. \A k \in i..n : tail[k] = Body(B)'[k] /\ tail[k] \in DOMAIN M'.uses
  BY <1>1, <1>2
<1>5. ASSUME NEW k \in 1..(i - 1) PROVE tail[k] \in ToRemove' \/ ClonePhi(tail[k], BB)'
  <2>1. ClonePhi(tail[k], B)' => ClonePhi(tail[k], BB)'
    BY <1>3 DEF ClonePhi
  <2> QED
    BY <1>1, <2>1
<1> QED
  BY <1>1, <1>2, <1>3, <1>4, <1>5 DEF Working

LEMMA CloneVoidKeeps == DupInv /\ CloneVoid => DupInv'
<1> SUFFICES ASSUME DupInv, CloneVoid PROVE DupInv'
  OBVIOUS
<1>1. /\ pc = "clone" /\ pc' = "clone" /\ IIT <= Len(M.code[Tail_].body) /\ IIT' = IIT + 1
      /\ F' = F /\ next' = next /\ Targets' = Targets /\ BB' = BB /\ M' = WithClones
      /\ TailVMap' = TailVMap /\ ToRemove' = ToRemove \cup {Instr}
      /\ ThenVMap' = Put(ThenVMap, Instr, ThenClone) /\ ElseVMap' = Put(ElseVMap, Instr, ElseClone)
  BY DEF CloneVoid, rivVars, BB, ThenClone, ElseClone
<1>2. AtWork
  BY <1>1, IsAtWork
<1>3. WithBoth(M')
  BY <1>1, <1>2, ClonesAre
<1>4. \A v, b : ClonePhi(v, b) => ClonePhi(v, b)'
  <2> SUFFICES ASSUME NEW v, NEW b, ClonePhi(v, b) PROVE ClonePhi(v, b)'
    OBVIOUS
  <2>1. v \in DOMAIN M.uses /\ v \notin {ThenClone, ElseClone}
    BY DEF ClonePhi, ThenClone, ElseClone
  <2>2. v \in DOMAIN M'.uses /\ M'.uses[v] = M.uses[v] /\ M'.from = M.from
    BY <1>3, <2>1 DEF WithBoth
  <2> QED
    BY <1>1, <2>2 DEF ClonePhi, Body
<1>5. Tail_ \in DOMAIN M.code /\ Tail_ \notin {Then, Else}
  BY <1>2 DEF AtWork, Cut, Tail_, Then, Else
<1>6. M'.code[Tail_] = M.code[Tail_]
  BY <1>3, <1>5 DEF WithBoth
<1>7. CloneFrame
  <2>1. M.code[Tail_] = [phis |-> M.code[Tail_].phis, body |-> M.code[Tail_].body, term |-> M.code[Tail_].term]
    BY <1>2 DEF AtWork, Halves, Tail_
  <2>2. \A v \in DOMAIN M.uses : v \in DOMAIN M'.uses
    BY <1>3 DEF WithBoth
  <2> QED
    BY <1>1, <1>3, <1>4, <1>6, <2>1, <2>2 DEF CloneFrame, WithBoth
<1>8. Working'
  <2>1. PICK tail, B, n : tail = M.code[Tail_].body /\ B = BB /\ n = Len(Body(BB))
    OBVIOUS
  <2>2. /\ Len(tail) = n /\ DOMAIN tail = 1..n /\ n \in Nat /\ IIT \in 1..n
        /\ \A k \in IIT..n : tail[k] = Body(B)[k] /\ tail[k] \in DOMAIN M.uses
        /\ \A k \in 1..(IIT - 1) : tail[k] \in ToRemove \/ ClonePhi(tail[k], B)
        /\ \A v \in ToRemove : \E k \in 1..n : v = Body(B)[k]
    BY <1>1, <1>2, <2>1 DEF DupInv, Working, AtWork
  <2>3. /\ M'.code[Tail_'].body = tail /\ BB' = B /\ Len(Body(B)') = n
        /\ \A k \in 1..n : Body(B)'[k] = Body(B)[k]
    BY <1>1, <1>6, <2>1 DEF Tail_, Body
  <2>4. tail[IIT] = Instr /\ Instr = Body(B)[IIT]
    BY <1>2, <2>1 DEF AtWork, Instr
  <2>5. \A k \in (IIT + 1)..n : tail[k] = Body(B)[k] /\ tail[k] \in DOMAIN M'.uses
    BY <1>3, <2>2 DEF WithBoth
  <2>6. ASSUME NEW k \in 1..((IIT + 1) - 1) PROVE tail[k] \in ToRemove' \/ ClonePhi(tail[k], B)'
    <3>1. CASE k = IIT
      BY <1>1, <2>4, <3>1
    <3>2. CASE k # IIT
      <4>1. k \in 1..(IIT - 1)
        BY <2>2, <3>2
      <4>2. ClonePhi(tail[k], B) => ClonePhi(tail[k], B)'
        BY <1>4
      <4> QED
        BY <1>1, <2>2, <4>1, <4>2
    <3> QED
      BY <3>1, <3>2
  <2>7. \A v \in ToRemove' : \E k \in 1..n : v = Body(B)[k]
    BY <1>1, <2>2, <2>4
  <2>8. WorkingOn(tail, B, n)
    BY <1>1, <2>2, <2>3, <2>5, <2>6, <2>7 DEF WorkingOn
  <2> QED
    BY <2>8, WorkingThen
<1>9. Computing'
  BY <1>1, <1>3 DEF Computing, WithBoth, MeanAll
<1>10. Means(Instr) = Instr /\ Means(ThenClone) = Instr /\ Means(ElseClone) = Instr
  BY <1>2 DEF AtWork, Means, ThenClone, ElseClone
<1>11. (KeepsMeaning(ThenVMap) /\ KeepsMeaning(ElseVMap) /\ KeepsMeaning(TailVMap))'
  <2>1. KeepsMeaning(ThenVMap) /\ KeepsMeaning(ElseVMap) /\ KeepsMeaning(TailVMap)
    BY DEF DupInv
  <2>2. KeepsMeaning(ThenVMap') /\ KeepsMeaning(ElseVMap')
    BY <1>1, <1>10, <2>1, PutKeeps
  <2>3. KeepsMeaning(TailVMap')
    BY <1>1, <2>1
  <2> QED
    BY <2>2, <2>3 DEF KeepsMeaning
<1> QED
  BY <1>2, <1>7, <1>8, <1>9, <1>11, FrameKeeps

\* The length of a sequence is in its domain.
LEMMA LenIs ==
  ASSUME NEW s, NEW n \in Nat, DOMAIN s = 1..n, \E f : s = [k \in 1..n |-> f[k]]
  PROVE  Len(s) = n
<1>1. PICK f : s = [k \in 1..n |-> f[k]]
  OBVIOUS
<1> DEFINE S == {f[k] : k \in 1..n}
<1>2. s \in [1..n -> S]
  BY <1>1
<1>3. s \in Seq(S)
  BY <1>2, SeqDef
<1> HIDE DEF S
<1> QED
  BY <1>3, LenProperties

\* A map of one value.
LEMMA OneMapped ==
  ASSUME NEW s, NEW old, NEW new
  PROVE  Remapped(s, Put(NoMap, old, new)) = [k \in DOMAIN s |-> IF s[k] = old THEN new ELSE s[k]]
<1>1. PICK m : m = Put(NoMap, old, new)
  OBVIOUS
<1>2. DOMAIN m = {old} /\ m[old] = new
  BY <1>1 DEF Put, NoMap
<1>3. Remapped(s, m) = [k \in DOMAIN s |-> IF s[k] = old THEN new ELSE s[k]]
  BY <1>2 DEF Remapped
<1> QED
  BY <1>1, <1>3

LEMMA CloneValueKeeps == DupInv /\ CloneValue => DupInv'
<1> SUFFICES ASSUME DupInv, CloneValue PROVE DupInv'
  OBVIOUS
<1>1. PICK phi, one, W : /\ phi = <<"phi", Instr[2]>> /\ one = Put(NoMap, Instr, phi)
                        /\ W = WithClones
  OBVIOUS
<1> DEFINE uses == Put(W.uses, phi, <<ThenClone, ElseClone>>)
<1>2. /\ pc = "clone" /\ pc' = "clone" /\ IIT <= Len(M.code[Tail_].body) /\ IIT' = IIT + 1
      /\ F' = F /\ next' = next /\ Targets' = Targets /\ BB' = BB /\ ToRemove' = ToRemove
      /\ M' = [W EXCEPT !.code[Tail_].body[IIT] = phi,
                        !.uses = [v \in DOMAIN uses \ {Instr} |-> Remapped(uses[v], one)],
                        !.from = Put(@, phi, <<Then, Else>>)]
      /\ ThenVMap' = Followed(Put(ThenVMap, Instr, ThenClone), Instr, phi)
      /\ ElseVMap' = Followed(Put(ElseVMap, Instr, ElseClone), Instr, phi)
      /\ TailVMap' = Followed(Put(TailVMap, Instr, phi), Instr, phi)
  BY <1>1 DEF CloneValue, rivVars, BB, ThenClone, ElseClone
<1>3. AtWork
  BY <1>2, IsAtWork
<1>4. WithBoth(W)
  BY <1>1, <1>2, <1>3, ClonesAre
<1>5. /\ Instr[1] = "inst" /\ phi # Instr /\ phi[1] = "phi" /\ phi[2] = Instr[2]
      /\ phi \notin {ThenClone, ElseClone} /\ ThenClone # Instr /\ ElseClone # Instr
      /\ Means(phi) = Instr /\ Means(Instr) = Instr /\ Means(ThenClone) = Instr /\ Means(ElseClone) = Instr
  BY <1>1, <1>3 DEF AtWork, ThenClone, ElseClone, Means
<1>6. Tail_ \in DOMAIN M.code /\ Tail_ \notin {Then, Else}
  BY <1>3 DEF AtWork, Cut, Tail_, Then, Else
<1>7. /\ W = [code |-> W.code, uses |-> W.uses, from |-> M.from, succ |-> M.succ]
      /\ DOMAIN W.code = DOMAIN M.code /\ W.code[Tail_] = M.code[Tail_]
      /\ \A x \in DOMAIN M.code : x \notin {Then, Else} => W.code[x] = M.code[x]
  BY <1>4, <1>6 DEF WithBoth
<1>8. PICK code, newuses, from : /\ code = [W.code EXCEPT ![Tail_].body[IIT] = phi]
                     /\ newuses = [v \in DOMAIN uses \ {Instr} |-> Remapped(uses[v], one)]
                     /\ from = Put(M.from, phi, <<Then, Else>>)
  OBVIOUS
<1>9. M' = [code |-> code, uses |-> newuses, from |-> from, succ |-> M.succ]
  <2>1. PICK wc, wu, mf, ms : W = [code |-> wc, uses |-> wu, from |-> mf, succ |-> ms]
                             /\ wc = W.code /\ wu = W.uses /\ mf = M.from /\ ms = M.succ
    BY <1>7
  <2>2. M' = [[[W EXCEPT !.code = code] EXCEPT !.uses = newuses] EXCEPT !.from = from]
    <3> HIDE DEF uses
    <3>1. [W EXCEPT !.code[Tail_].body[IIT] = phi] = [W EXCEPT !.code = code]
      BY <1>8, <2>1
    <3>2. W.from = M.from
      BY <2>1
    <3> QED
      BY <1>2, <1>8, <2>1, <3>1, <3>2
  <2>3. M' = [code |-> code, uses |-> newuses, from |-> from, succ |-> ms]
    BY <2>1, <2>2
  <2> QED
    BY <2>1, <2>3
<1>9a. /\ M'.code = code /\ M'.uses = newuses /\ M'.from = from /\ M'.succ = M.succ
       /\ M' = [code |-> M'.code, uses |-> M'.uses, from |-> M'.from, succ |-> M.succ]
  BY <1>9
<1>9b. F' = F /\ BB' = BB /\ pc' = "clone" /\ IIT' = IIT + 1 /\ ToRemove' = ToRemove
  BY <1>2
<1>10. /\ DOMAIN code = DOMAIN M.code
       /\ \A x \in DOMAIN M.code : x # Tail_ => code[x] = W.code[x]
       /\ code[Tail_] = [M.code[Tail_] EXCEPT !.body = [@ EXCEPT ![IIT] = phi]]
  BY <1>6, <1>7, <1>8
<1>11. PICK tail, B, n, tail2 : /\ tail = M.code[Tail_].body /\ B = BB /\ n = Len(Body(BB))
                              /\ tail2 = [tail EXCEPT ![IIT] = phi]
  OBVIOUS
<1>12. /\ Len(tail) = n /\ DOMAIN tail = 1..n /\ n \in Nat /\ IIT \in 1..n
       /\ \A k \in IIT..n : tail[k] = Body(B)[k] /\ tail[k] \in DOMAIN M.uses
       /\ \A k \in 1..(IIT - 1) : tail[k] \in ToRemove \/ ClonePhi(tail[k], B)
       /\ \A v \in ToRemove : \E k \in 1..n : v = Body(B)[k]
       /\ Instr = Body(B)[IIT] /\ B \in F.block /\ F \in RIVFunctions
  BY <1>2, <1>3, <1>11 DEF DupInv, Working, AtWork
<1>13. code[Tail_] = [phis |-> M.code[Tail_].phis, body |-> tail2, term |-> M.code[Tail_].term]
  <2>1. M.code[Tail_] = [phis |-> M.code[Tail_].phis, body |-> tail, term |-> M.code[Tail_].term]
    BY <1>3, <1>11 DEF AtWork, Halves, Tail_
  <2> QED
    BY <1>10, <1>11, <2>1
<1>14. /\ DOMAIN newuses = (DOMAIN W.uses \cup {phi}) \ {Instr}
       /\ \A v \in DOMAIN newuses : newuses[v] =
            Remapped(IF v = phi THEN <<ThenClone, ElseClone>> ELSE W.uses[v], one)
  BY <1>8 DEF Put
<1>15. /\ DOMAIN from = DOMAIN M.from \cup {phi} /\ from[phi] = <<Then, Else>>
       /\ \A v \in DOMAIN M.from : v # phi => from[v] = M.from[v]
  BY <1>8 DEF Put
<1>16. ASSUME NEW a, NEW b, a # Instr, b # Instr PROVE Remapped(<<a, b>>, one) = <<a, b>>
  BY <1>1, <1>16, OneMapped, PairStays
<1>17. phi \in DOMAIN newuses /\ newuses[phi] = <<ThenClone, ElseClone>>
  BY <1>5, <1>14, <1>16
<1>18. ClonePhi(phi, B)'
  <2>1. \E k \in 1..Len(Body(B)) : phi = <<"phi", Body(B)[k][2]>>
    BY <1>1, <1>11, <1>12
  <2>2. M'.uses[phi] = << <<"then", phi[2]>>, <<"else", phi[2]>> >> /\ phi \in DOMAIN M'.uses
    BY <1>5, <1>9, <1>17 DEF ThenClone, ElseClone
  <2>3. phi \in DOMAIN M'.from /\ M'.from[phi] = << <<"then", B>>, <<"else", B>> >>
    BY <1>9, <1>11, <1>15 DEF Then, Else
  <2> QED
    BY <1>2, <2>1, <2>2, <2>3 DEF ClonePhi, Body
<1>19. ASSUME NEW v, NEW b, b \in F.block, ClonePhi(v, b) PROVE ClonePhi(v, b)'
  <2>1. PICK k \in 1..Len(Body(b)) : v = <<"phi", Body(b)[k][2]>>
    BY <1>19 DEF ClonePhi
  <2>2. CASE v = phi
    <3>1. Body(b)[k] = <<"inst", Body(b)[k][2]>> /\ Instr = <<"inst", Instr[2]>>
      BY <1>3, <1>12, <1>19, BlockIs, FunctionIs DEF AtWork
    <3>2. Body(b)[k][2] = Instr[2]
      BY <1>1, <2>1, <2>2
    <3>3. Body(b)[k] = Body(B)[IIT]
      BY <1>12, <3>1, <3>2
    <3>4. b = B
      BY <1>11, <1>12, <1>19, <3>3, OnePlaceEach
    <3> QED
      BY <1>18, <2>2, <3>4
  <2>3. CASE v # phi
    <3>1. /\ v \in DOMAIN M.uses /\ M.uses[v] = << <<"then", v[2]>>, <<"else", v[2]>> >>
          /\ v \in DOMAIN M.from /\ M.from[v] = << <<"then", b>>, <<"else", b>> >>
      BY <1>19 DEF ClonePhi
    <3>2. v \notin {ThenClone, ElseClone} /\ v # Instr
      BY <1>3, <2>1 DEF ThenClone, ElseClone, AtWork
    <3>3. W.uses[v] = M.uses[v] /\ v \in DOMAIN W.uses
      BY <1>4, <3>1, <3>2 DEF WithBoth
    <3>4. v \in DOMAIN newuses /\ newuses[v] = Remapped(M.uses[v], one)
      BY <1>14, <2>3, <3>2, <3>3
    <3>5. <<"then", v[2]>> # Instr /\ <<"else", v[2]>> # Instr
      BY <1>3 DEF AtWork
    <3>6. newuses[v] = M.uses[v]
      BY <1>16, <3>1, <3>4, <3>5
    <3>7. v \in DOMAIN from /\ from[v] = M.from[v]
      BY <1>15, <2>3, <3>1
    <3>8. M'.uses = newuses /\ M'.from = from /\ Body(b)' = Body(b)
      BY <1>9a, <1>9b DEF Body
    <3>9. /\ v \in DOMAIN M'.uses /\ M'.uses[v] = << <<"then", v[2]>>, <<"else", v[2]>> >>
          /\ v \in DOMAIN M'.from /\ M'.from[v] = << <<"then", b>>, <<"else", b>> >>
      BY <3>1, <3>4, <3>6, <3>7, <3>8
    <3> HIDE DEF uses
    <3> QED
      BY <2>1, <3>8, <3>9 DEF ClonePhi
  <2> QED
    BY <2>2, <2>3
<1>20. CloneFrame
  <2>1. \A x \in DOMAIN M.code : x \notin {Then, Else, Tail_} => code[x] = M.code[x]
    BY <1>7, <1>10
  <2>2. Then \in DOMAIN M.code /\ Else \in DOMAIN M.code /\ Then # Tail_ /\ Else # Tail_
    BY <1>3, <1>6 DEF AtWork, Halves, CloneSide, Then, Else
  <2>3. code[Then] = W.code[Then] /\ code[Else] = W.code[Else]
    BY <1>10, <2>2
  <2>4. ThenClone \in DOMAIN newuses /\ ElseClone \in DOMAIN newuses
    BY <1>4, <1>5, <1>14 DEF WithBoth
  <2>5. \A v \in DOMAIN M.uses : v # Instr => v \in DOMAIN newuses
    BY <1>4, <1>14 DEF WithBoth
  <2>6. \A v \in DOMAIN M.from : v[1] = "inst" => v \in DOMAIN from /\ from[v] = M.from[v]
    BY <1>5, <1>15
  <2>7. code[Tail_] = [phis |-> M.code[Tail_].phis, body |-> code[Tail_].body, term |-> M.code[Tail_].term]
    BY <1>13
  <2>8. /\ code[Then] = [phis |-> <<>>, term |-> <<"br", BB>>,
                         body |-> [k \in 1..IIT |-> <<"then", Body(BB)[k][2]>>]]
        /\ code[Else] = [phis |-> <<>>, term |-> <<"br", BB>>,
                         body |-> [k \in 1..IIT |-> <<"else", Body(BB)[k][2]>>]]
    BY <1>4, <2>3 DEF WithBoth
  <2> HIDE DEF uses
  <2> QED
    BY <1>2, <1>10, <1>19, <2>1, <2>4, <2>5, <2>6, <2>7, <2>8, <1>9a DEF CloneFrame
<1>21. Working'
  <2>1. /\ M'.code[Tail_'].body = tail2 /\ BB' = B /\ Len(Body(B)') = n
        /\ \A k \in 1..n : Body(B)'[k] = Body(B)[k]
    BY <1>9a, <1>9b, <1>11, <1>13 DEF Tail_, Body
  <2>2. Len(tail2) = n /\ DOMAIN tail2 = 1..n
    <3>1. DOMAIN tail2 = 1..n /\ tail2 = [k \in 1..n |-> tail2[k]]
      BY <1>11, <1>12
    <3> QED
      BY <1>12, <3>1, LenIs
  <2>3. ASSUME NEW k \in (IIT + 1)..n PROVE tail2[k] = Body(B)[k] /\ tail2[k] \in DOMAIN M'.uses
    <3>1. k \in 1..n /\ k # IIT /\ k \in IIT..n
      BY <1>12
    <3>2. tail2[k] = Body(B)[k] /\ Body(B)[k] \in DOMAIN M.uses
      BY <1>11, <1>12, <3>1
    <3>3. Body(B)[k] # Instr
      BY <1>11, <1>12, <3>1, OnePlaceEach
    <3> QED
      BY <1>20, <3>2, <3>3 DEF CloneFrame
  <2>4. ASSUME NEW k \in 1..((IIT + 1) - 1) PROVE tail2[k] \in ToRemove' \/ ClonePhi(tail2[k], B)'
    <3>1. CASE k = IIT
      BY <1>11, <1>12, <1>18, <3>1
    <3>2. CASE k # IIT
      <4>1. k \in 1..(IIT - 1) /\ tail2[k] = tail[k]
        BY <1>11, <1>12, <3>2
      <4>2. ClonePhi(tail[k], B) => ClonePhi(tail[k], B)'
        BY <1>12, <1>19
      <4> QED
        BY <1>2, <1>12, <4>1, <4>2
    <3> QED
      BY <3>1, <3>2
  <2>5. \A v \in ToRemove' : \E k \in 1..n : v = Body(B)[k]
    BY <1>2, <1>12
  <2>6. WorkingOn(tail2, B, n)
    BY <1>2, <1>12, <2>1, <2>2, <2>3, <2>4, <2>5 DEF WorkingOn
  <2> QED
    BY <2>6, WorkingThen
<1>22. KeepsMeaning(one)
  <2>1. KeepsMeaning(NoMap)
    BY DEF KeepsMeaning, NoMap
  <2> QED
    BY <1>1, <1>5, <2>1, PutKeeps
<1>23. Computing'
  <2> SUFFICES ASSUME NEW v \in DOMAIN newuses, v[1] \in {"inst", "then", "else"}
               PROVE  Means(v) \in DOMAIN F.uses /\ MeanAll(newuses[v]) = F.uses[Means(v)]
    <3> HIDE DEF uses
    <3> QED
      BY <1>9a, <1>9b DEF Computing
  <2>1. v # phi /\ v \in DOMAIN W.uses
    BY <1>5, <1>14
  <2>2. newuses[v] = Remapped(W.uses[v], one)
    BY <1>14, <2>1
  <2>3. MeanAll(newuses[v]) = MeanAll(W.uses[v])
    BY <1>22, <2>2, RemappedMeans
  <2> QED
    BY <1>4, <2>1, <2>3 DEF WithBoth
<1>24. (KeepsMeaning(ThenVMap) /\ KeepsMeaning(ElseVMap) /\ KeepsMeaning(TailVMap))'
  <2>1. KeepsMeaning(ThenVMap) /\ KeepsMeaning(ElseVMap) /\ KeepsMeaning(TailVMap)
    BY DEF DupInv
  <2>2. /\ KeepsMeaning(Put(ThenVMap, Instr, ThenClone)) /\ KeepsMeaning(Put(ElseVMap, Instr, ElseClone))
        /\ KeepsMeaning(Put(TailVMap, Instr, phi))
    BY <1>5, <2>1, PutKeeps
  <2>3. KeepsMeaning(ThenVMap') /\ KeepsMeaning(ElseVMap') /\ KeepsMeaning(TailVMap')
    BY <1>2, <1>5, <2>2, FollowedKeeps
  <2> QED
    BY <2>3 DEF KeepsMeaning
<1> QED
  BY <1>3, <1>20, <1>21, <1>23, <1>24, FrameKeeps

\* What is left when some are erased was there, and is not one of those.
LEMMA WithoutIs ==
  ASSUME NEW s, Len(s) \in Nat, NEW erased
  PROVE  /\ \A v \in ToSet(Without(s, erased)) : v \notin erased /\ \E k \in 1..Len(s) : v = s[k]
         /\ \A k \in 1..Len(s) : s[k] \notin erased => s[k] \in ToSet(Without(s, erased))
<1> DEFINE X == {s[n] : n \in Nat}
           V == Seq(X)
           G == [x \in Nat \X V |-> IF s[x[1]] \in erased THEN x[2] ELSE Append(x[2], s[x[1]])]
           kept == CHOOSE r : r = [n \in Nat |->
                     IF n = 0 THEN <<>>
                     ELSE IF s[n] \in erased THEN r[n - 1] ELSE Append(r[n - 1], s[n])]
           L(n) == {s[k] : k \in {k \in 1..n : s[k] \notin erased}}
<1>1. <<>> \in V /\ G \in [Nat \X V -> V]
  <2>1. \A x \in Nat \X V : s[x[1]] \in X /\ x[2] \in Seq(X)
    OBVIOUS
  <2> HIDE DEF X
  <2>2. \A x \in Nat \X V : Append(x[2], s[x[1]]) \in V
    BY <2>1, AppendProperties
  <2> QED
    BY <2>2
<1>2. PICK r : Recursion(r, V, <<>>, G)
  <2> HIDE DEF V, G
  <2> QED
    BY <1>1, RecursiveFunction
<1>3. \A n \in Nat \ {0} : G[<<n, r[n - 1]>>] = IF s[n] \in erased THEN r[n - 1] ELSE Append(r[n - 1], s[n])
  <2> SUFFICES ASSUME NEW n \in Nat \ {0}
               PROVE  G[<<n, r[n - 1]>>] = IF s[n] \in erased THEN r[n - 1] ELSE Append(r[n - 1], s[n])
    OBVIOUS
  <2>1. n - 1 \in Nat
    OBVIOUS
  <2>2. r[n - 1] \in V
    BY <1>2, <2>1 DEF Recursion
  <2> HIDE DEF V
  <2> QED
    BY <2>2
<1>4. r = [n \in Nat |-> IF n = 0 THEN <<>>
                         ELSE IF s[n] \in erased THEN r[n - 1] ELSE Append(r[n - 1], s[n])]
  <2> HIDE DEF V, G
  <2> QED
    BY <1>2, <1>3 DEF Recursion
<1>5. kept = [n \in Nat |-> IF n = 0 THEN <<>>
                         ELSE IF s[n] \in erased THEN kept[n - 1] ELSE Append(kept[n - 1], s[n])]
  BY <1>4
<1>6. Without(s, erased) = kept[Len(s)]
  BY DEF Without
<1> HIDE DEF kept
<1>7. \A n \in Nat : kept[n] \in Seq(L(n))
  <2> DEFINE N == {n \in Nat : kept[n] \in Seq(L(n))}
  <2>1. 0 \in N
    BY <1>5
  <2>2. ASSUME NEW n \in Nat, n \in N PROVE n + 1 \in N
    <3>1. n + 1 \in Nat /\ n + 1 # 0 /\ (n + 1) - 1 = n /\ \A k \in 1..n : k \in 1..(n + 1)
      OBVIOUS
    <3>2. kept[n + 1] = IF s[n + 1] \in erased THEN kept[n] ELSE Append(kept[n], s[n + 1])
      BY <1>5, <3>1
    <3>3. L(n) \subseteq L(n + 1) /\ kept[n] \in Seq(L(n))
      BY <2>2, <3>1
    <3>4. s[n + 1] \notin erased => s[n + 1] \in L(n + 1)
      OBVIOUS
    <3> HIDE DEF L
    <3>5. kept[n] \in Seq(L(n + 1))
      BY <3>3, SeqMonotone
    <3>6. PICK q, e, T : q = kept[n] /\ e = s[n + 1] /\ T = L(n + 1)
      OBVIOUS
    <3>7. e \in T => Append(q, e) \in Seq(T)
      BY <3>5, <3>6, AppendProperties
    <3>8. kept[n + 1] \in Seq(L(n + 1))
      BY <3>2, <3>4, <3>5, <3>6, <3>7
    <3> QED
      BY <3>1, <3>8
  <2>3. Nat \subseteq N
    <3> HIDE DEF N
    <3> QED
      BY <2>1, <2>2, NatInd
  <2> QED
    BY <2>3
<1>8. PICK q : q = Without(s, erased) /\ q \in Seq(L(Len(s)))
  BY <1>6, <1>7
<1>9. \A i \in DOMAIN q : q[i] \in L(Len(s))
  <2> HIDE DEF L
  <2> QED
    BY <1>8, LenProperties, ElementOfSeq
<1>10. \A v \in ToSet(q) : v \in L(Len(s))
  BY <1>9 DEF ToSet
<1>11. \A n \in Nat : \A k \in 1..n : s[k] \notin erased => \E i \in 1..Len(kept[n]) : kept[n][i] = s[k]
  <2> DEFINE N == {n \in Nat : \A k \in 1..n : s[k] \notin erased => \E i \in 1..Len(kept[n]) : kept[n][i] = s[k]}
  <2>1. 0 \in N
    OBVIOUS
  <2>2. ASSUME NEW n \in Nat, n \in N PROVE n + 1 \in N
    <3>1. n + 1 \in Nat /\ n + 1 # 0 /\ (n + 1) - 1 = n /\ \A k \in 1..(n + 1) : k \in 1..n \/ k = n + 1
      OBVIOUS
    <3>2. kept[n + 1] = IF s[n + 1] \in erased THEN kept[n] ELSE Append(kept[n], s[n + 1])
      BY <1>5, <3>1
    <3>3. PICK q1, e, T, z : q1 = kept[n] /\ e = s[n + 1] /\ z = kept[n + 1] /\ T = L(n) \cup {e}
      OBVIOUS
    <3>4. q1 \in Seq(L(n))
      BY <1>7, <3>3
    <3>5. q1 \in Seq(T) /\ e \in T
      <4> HIDE DEF L
      <4> QED
        BY <3>3, <3>4, SeqMonotone
    <3>6. /\ Append(q1, e) \in Seq(T) /\ Len(Append(q1, e)) = Len(q1) + 1 /\ Append(q1, e)[Len(q1) + 1] = e
          /\ \A i \in 1..Len(q1) : Append(q1, e)[i] = q1[i]
      BY <3>5, AppendProperties
    <3>7. Len(q1) \in Nat
      BY <3>5, LenProperties
    <3>8. z = IF e \in erased THEN q1 ELSE Append(q1, e)
      BY <3>2, <3>3
    <3>9. ASSUME NEW k \in 1..(n + 1), s[k] \notin erased PROVE \E i \in 1..Len(z) : z[i] = s[k]
      <4>1. CASE k = n + 1
        <5>1. z = Append(q1, e) /\ s[k] = e
          BY <3>3, <3>8, <3>9, <4>1
        <5>2. Len(q1) + 1 \in 1..Len(z)
          BY <3>6, <3>7, <5>1
        <5> QED
          BY <3>6, <5>1, <5>2
      <4>2. CASE k \in 1..n
        <5>1. PICK i \in 1..Len(q1) : q1[i] = s[k]
          BY <2>2, <3>3, <3>9, <4>2
        <5>2. z[i] = s[k] /\ i \in 1..Len(z)
          BY <3>6, <3>7, <3>8, <5>1
        <5> QED
          BY <5>2
      <4> QED
        BY <3>1, <4>1, <4>2
    <3> QED
      BY <3>1, <3>3, <3>9
  <2>3. Nat \subseteq N
    <3> HIDE DEF N
    <3> QED
      BY <2>1, <2>2, NatInd
  <2> QED
    BY <2>3
<1>12. ASSUME NEW k \in 1..Len(s), s[k] \notin erased PROVE s[k] \in ToSet(q)
  <2>1. PICK i \in 1..Len(q) : q[i] = s[k]
    BY <1>6, <1>8, <1>11, <1>12
  <2>2. DOMAIN q = 1..Len(q)
    <3> HIDE DEF L
    <3> QED
      BY <1>8, LenProperties
  <2> QED
    BY <2>1, <2>2 DEF ToSet
<1> QED
  BY <1>8, <1>10, <1>12

LEMMA PurgeKeeps == DupInv /\ Purge => DupInv'
<1> SUFFICES ASSUME DupInv, Purge PROVE DupInv'
  OBVIOUS
<1> DEFINE n == Len(Body(BB))
<1>1. PICK tail, term, B : tail = M.code[Tail_].body /\ term = M.code[Tail_].term /\ B = BB
  OBVIOUS
<1>2. PICK uses, code, left, newuses :
        /\ uses = Put(M.uses, term, Remapped(M.uses[term], TailVMap))
        /\ left = Without(tail, ToRemove)
        /\ code = [[M.code EXCEPT ![Tail_].phis = left] EXCEPT ![Tail_].body = <<>>]
        /\ newuses = [v \in DOMAIN uses \ ToRemove |-> uses[v]]
  OBVIOUS
<1>3. /\ pc = "clone" /\ pc' = "split" /\ IIT > Len(M.code[Tail_].body) /\ next' = next + 1
      /\ F' = F /\ Targets' = Targets
      /\ ThenVMap' = ThenVMap /\ ElseVMap' = ElseVMap /\ TailVMap' = TailVMap
  BY DEF Purge, rivVars, cloneVars
<1>4. M' = [code |-> code, uses |-> newuses, from |-> M.from, succ |-> M.succ]
  <2>1. M' = [M EXCEPT !.code[Tail_].phis = left, !.code[Tail_].body = <<>>, !.uses = newuses]
    BY <1>1, <1>2 DEF Purge
  <2>2. PICK mc, mu, mf, ms : /\ M = [code |-> mc, uses |-> mu, from |-> mf, succ |-> ms]
                             /\ mc = M.code /\ mu = M.uses /\ mf = M.from /\ ms = M.succ
    BY DEF DupInv
  <2>3. M' = [code |-> code, uses |-> newuses, from |-> mf, succ |-> ms]
    BY <1>2, <2>1, <2>2
  <2> QED
    BY <2>2, <2>3
<1>5. /\ M'.code = code /\ M'.uses = newuses /\ M'.from = M.from /\ M'.succ = M.succ
      /\ M' = [code |-> M'.code, uses |-> M'.uses, from |-> M'.from, succ |-> M'.succ]
  BY <1>4
<1>6. /\ next <= Len(Targets) /\ BB \in Cut /\ F \in RIVFunctions /\ BB \in F.block
      /\ next \in 1..Len(Targets)
  <2>1. next <= Len(Targets) /\ BB \in Cut /\ F \in RIVFunctions
    BY <1>3 DEF DupInv, Choice
  <2> QED
    BY <1>3, <2>1, BlockChosen
<1>7. /\ n \in Nat /\ Len(tail) = n /\ DOMAIN tail = 1..n /\ IIT = n + 1
      /\ \A k \in 1..n : tail[k] \in ToRemove \/ ClonePhi(tail[k], BB)
      /\ \A v \in ToRemove : \E k \in 1..n : v = Body(BB)[k]
  <2>1. n \in Nat
    BY <1>6, BlockIs
  <2>2. /\ Len(tail) = n /\ DOMAIN tail = 1..n /\ IIT \in 1..(n + 1)
        /\ \A k \in 1..(IIT - 1) : tail[k] \in ToRemove \/ ClonePhi(tail[k], BB)
        /\ \A v \in ToRemove : \E k \in 1..n : v = Body(BB)[k]
    BY <1>1, <1>3 DEF DupInv, Working
  <2>3. IIT = n + 1
    BY <1>1, <1>3, <2>1, <2>2
  <2> QED
    BY <2>1, <2>2, <2>3
<1>8. Halves(BB) /\ term = F.code[BB].term
  BY <1>1, <1>6 DEF DupInv, Halves, Tail_
<1>9. ASSUME NEW v \in ToRemove
      PROVE  /\ v[1] = "inst"
             /\ \A c \in F.block : v # F.code[c].term /\ \A k \in DOMAIN F.code[c].phis : v # F.code[c].phis[k]
             /\ \A c \in F.block : c # BB => \A k \in 1..Len(Body(c)) : v # Body(c)[k]
  <2>1. PICK k \in 1..n : v = Body(BB)[k]
    BY <1>7
  <2>2. v \in DOMAIN F.uses
    BY <1>6, <2>1, BlockIs
  <2>3. v[1] = "inst"
    BY <1>6, <2>2, FunctionIs
  <2>4. ASSUME NEW c \in F.block, NEW i \in DOMAIN F.code[c].phis PROVE v # F.code[c].phis[i]
    <3>1. F.code[c].phis[i] \in ToSet(F.code[c].phis)
      BY DEF ToSet
    <3>2. \A w \in ToSet(F.code[c].phis) : Body(BB)[k] # w
      BY <1>6, OnePlaceEach
    <3> QED
      BY <2>1, <3>1, <3>2
  <2>5. \A c \in F.block : v # F.code[c].term
    BY <1>6, <2>1, OnePlaceEach
  <2>6. ASSUME NEW c \in F.block, c # BB, NEW i \in 1..Len(Body(c)) PROVE v # Body(c)[i]
    BY <1>6, <2>1, <2>6, OnePlaceEach
  <2> QED
    BY <2>3, <2>4, <2>5, <2>6
<1>10. term \in DOMAIN M.uses /\ term[1] = "inst"
  BY <1>6, <1>8, BlockIs, FunctionIs DEF DupInv, HeadsThere
<1>11. /\ DOMAIN newuses = DOMAIN M.uses \ ToRemove
       /\ \A v \in DOMAIN newuses : newuses[v] = IF v = term THEN Remapped(M.uses[term], TailVMap) ELSE M.uses[v]
  BY <1>2, <1>10 DEF Put
<1>12. \A v : \A b \in F.block : ClonePhi(v, b) => ClonePhi(v, b)'
  <2> SUFFICES ASSUME NEW v, NEW b \in F.block, ClonePhi(v, b) PROVE ClonePhi(v, b)'
    OBVIOUS
  <2>1. v[1] = "phi" /\ v \in DOMAIN M.uses
    BY DEF ClonePhi
  <2>2. v \in DOMAIN newuses /\ newuses[v] = M.uses[v]
    BY <1>9, <1>10, <1>11, <2>1
  <2> QED
    BY <1>3, <1>5, <2>2 DEF ClonePhi, Body
<1>13. Tail_ \in DOMAIN M.code /\ \A b : Tail_ # bb(b)
  BY <1>6 DEF Cut, Tail_, bb
<1>14. /\ DOMAIN code = DOMAIN M.code
       /\ \A x \in DOMAIN M.code : x # Tail_ => code[x] = M.code[x]
       /\ code[Tail_] = [phis |-> left, body |-> <<>>, term |-> F.code[BB].term]
  <2>1. PICK p : M.code[Tail_] = [phis |-> p, body |-> tail, term |-> F.code[BB].term]
    BY <1>1, <1>8 DEF Halves, Tail_
  <2> QED
    BY <1>2, <1>13, <2>1
<1>15. \A v \in ToSet(left) : ClonePhi(v, BB)
  BY <1>2, <1>7, WithoutIs
<1>16. \A b : b \in Cut' <=> b \in Cut
  BY <1>3, <1>5, <1>14 DEF Cut
<1>17. \A b : Cloned(b)' = Len(Body(b))
  BY <1>3 DEF Cloned, Body
<1>18. ASSUME NEW side \in {"then", "else"}, NEW b \in F.block, CloneSide(side, b), Cloned(b) = Len(Body(b))
       PROVE  CloneSide(side, b)'
  <2>1. <<side, b>> \in DOMAIN M.code /\ <<side, b>> # Tail_
    BY <1>18 DEF CloneSide, Tail_
  <2>2. code[<<side, b>>] = M.code[<<side, b>>]
    BY <1>14, <2>1
  <2>3. \A k \in 1..Cloned(b) : <<side, Body(b)[k][2]>> \in DOMAIN newuses
    BY <1>9, <1>11, <1>18 DEF CloneSide
  <2>4. Body(b)' = Body(b) /\ Cloned(b)' = Cloned(b)
    BY <1>3, <1>17, <1>18 DEF Body
  <2> QED
    BY <1>5, <1>14, <1>18, <2>1, <2>2, <2>3, <2>4 DEF CloneSide
<1>19. ASSUME NEW b \in F.block, b \in Cut, b # BB PROVE Halves(b)'
  <2>1. Halves(b) /\ Cloned(b) = Len(Body(b)) /\ bb(b) \in DOMAIN M.code /\ <<"tail", b>> \in DOMAIN M.code
    BY <1>19 DEF DupInv, Cloned, HeadsThere, Cut
  <2>2. code[bb(b)] = M.code[bb(b)] /\ code[<<"tail", b>>] = M.code[<<"tail", b>>]
    BY <1>13, <1>14, <1>19, <2>1 DEF Tail_
  <2>3. (CloneSide("then", b) /\ CloneSide("else", b))'
    BY <1>18, <2>1 DEF Halves
  <2>4. \A v \in ToSet(M.code[<<"tail", b>>].phis) : ClonePhi(v, b)
    BY <1>19, <2>1 DEF Halves
  <2> QED
    BY <1>3, <1>5, <1>12, <2>1, <2>2, <2>3, <2>4 DEF Halves, Leaves
<1>20. Halves(BB) /\ Cloned(BB) = Len(Body(BB)) /\ bb(BB) \in DOMAIN M.code
  BY <1>3, <1>6, <1>7, <1>8 DEF DupInv, HeadsThere, Cloned
<1>21. Halves(B)'
  <2>1. code[bb(B)] = M.code[bb(B)]
    BY <1>1, <1>13, <1>14, <1>20
  <2>2. (CloneSide("then", B) /\ CloneSide("else", B))'
    BY <1>1, <1>6, <1>18, <1>20 DEF Halves
  <2>3. code[<<"tail", B>>] = [phis |-> left, body |-> <<>>, term |-> F.code[B].term]
    BY <1>1, <1>14 DEF Tail_
  <2>4. \A v \in ToSet(left) : ClonePhi(v, B)'
    BY <1>1, <1>6, <1>12, <1>15
  <2> QED
    BY <1>1, <1>3, <1>5, <1>20, <2>1, <2>2, <2>3, <2>4 DEF Halves, Leaves, Tail_
<1>22. ASSUME NEW b \in F.block, b \notin Cut PROVE Whole(b)'
  <2>1. Whole(b) /\ bb(b) \in DOMAIN M.code /\ b # BB
    BY <1>6, <1>22 DEF DupInv, HeadsThere
  <2>2. code[bb(b)] = M.code[bb(b)]
    BY <1>13, <1>14, <2>1
  <2>3. \A k \in 1..Len(Body(b)) : Body(b)[k] \in DOMAIN newuses
    BY <1>9, <1>11, <2>1 DEF Whole
  <2> QED
    BY <1>3, <1>5, <2>1, <2>2, <2>3 DEF Whole, Leaves, Body
<1>23. Choice'
  <2>1. ASSUME NEW b \in Cut PROVE \E i \in 1..(next' - 1) : i <= Len(Targets) /\ b = Targets[i][1]
    <3>1. PICK i \in 1..next : b = Targets[i][1]
      BY <1>3 DEF DupInv, Choice
    <3>2. i \in 1..(next' - 1) /\ i <= Len(Targets)
      BY <1>3, <1>6
    <3> QED
      BY <3>1, <3>2
  <2>2. next' \in Nat \ {0}
    BY <1>3, <1>6
  <2> QED
    BY <1>3, <1>16, <2>1, <2>2 DEF DupInv, Choice
<1>24. HeadsThere'
  <2>1. \A c \in F.block : F.code[c].term \in DOMAIN newuses
    BY <1>9, <1>11 DEF DupInv, HeadsThere
  <2>2. \A c \in F.block : \A k \in DOMAIN F.code[c].phis : F.code[c].phis[k] \in DOMAIN newuses
    BY <1>9, <1>11 DEF DupInv, HeadsThere
  <2> QED
    BY <1>3, <1>5, <1>14, <2>1, <2>2 DEF DupInv, HeadsThere
<1>25. Computing'
  <2> SUFFICES ASSUME NEW v \in DOMAIN newuses, v[1] \in {"inst", "then", "else"}
               PROVE  Means(v) \in DOMAIN F.uses /\ MeanAll(newuses[v]) = F.uses[Means(v)]
    BY <1>3, <1>5 DEF Computing
  <2>1. Means(v) \in DOMAIN F.uses /\ MeanAll(M.uses[v]) = F.uses[Means(v)]
    BY <1>11 DEF DupInv, Computing
  <2>2. KeepsMeaning(TailVMap)
    BY DEF DupInv
  <2>3. MeanAll(Remapped(M.uses[v], TailVMap)) = MeanAll(M.uses[v])
    BY <2>2, RemappedMeans
  <2>4. newuses[v] = Remapped(M.uses[v], TailVMap) \/ newuses[v] = M.uses[v]
    BY <1>11
  <2> QED
    BY <2>1, <2>3, <2>4
<1>26. FromEnds'
  <2>1. ASSUME NEW p \in DOMAIN F.from, NEW i \in DOMAIN F.from[p]
        PROVE  EndOf(F.from[p][i])' = EndOf(F.from[p][i])
    BY <1>3, <1>5, <1>14 DEF EndOf
  <2>2. \A p \in DOMAIN F.from :
          p \in DOMAIN M.from /\ M.from[p] = [i \in DOMAIN F.from[p] |-> EndOf(F.from[p][i])]
    BY DEF DupInv, FromEnds
  <2> QED
    BY <1>3, <1>5, <2>1, <2>2 DEF FromEnds
<1>27. (KeepsMeaning(ThenVMap) /\ KeepsMeaning(ElseVMap) /\ KeepsMeaning(TailVMap))'
  BY <1>3 DEF DupInv, KeepsMeaning
<1>28. \A b \in F.block : b \in Cut => Halves(b)'
  BY <1>1, <1>19, <1>21
<1> QED
  BY <1>3, <1>5, <1>6, <1>16, <1>22, <1>23, <1>24, <1>25, <1>26, <1>27, <1>28 DEF DupInv, Working

\* When all is done, that is what the property asks for.
LEMMA DupInvKeeps == DupInv => BehaviourKept
<1> SUFFICES ASSUME DupInv, pc = "done", NEW b \in F.block
    PROVE  LET x == bb(b)
           IN  /\ MeanThose(M.code[x].phis, F.code[b].phis)
               /\ \A k \in DOMAIN M.code[x].phis :
                    M.from[M.code[x].phis[k]] = [i \in DOMAIN F.from[F.code[b].phis[k]] |->
                                                   EndOf(F.from[F.code[b].phis[k]][i])]
               /\ MeanThose(<<M.code[EndOf(b)].term>>, <<F.code[b].term>>)
               /\ M.succ[EndOf(b)] = [k \in DOMAIN F.succ[b] |-> bb(F.succ[b][k])]
               /\ IF EndOf(b) = x THEN MeanThose(M.code[x].body, F.code[b].body)
                  ELSE /\ M.succ[x] = <<<<"then", b>>, <<"else", b>>>>
                       /\ \A side \in {"then", "else"} :
                            /\ MeanThose(M.code[<<side, b>>].body, F.code[b].body)
                            /\ M.succ[<<side, b>>] = <<<<"tail", b>>>>
                       /\ ToSet(M.code[EndOf(b)].phis) \subseteq DOMAIN M.from
                       /\ \A v \in ToSet(M.code[EndOf(b)].phis) :
                            \A k \in DOMAIN M.uses[v] : M.uses[v][k][1] = M.from[v][k][1]
  BY DEF BehaviourKept
<1>1. F \in RIVFunctions
  BY DEF DupInv
<1>2. ASSUME NEW v \in DOMAIN F.uses, v \in DOMAIN M.uses
      PROVE  Means(v) = v /\ MeanAll(M.uses[v]) = F.uses[v]
  <2>1. v[1] = "inst" /\ v = <<"inst", v[2]>>
    BY <1>1, FunctionIs
  <2>2. Means(v) = v
    BY <2>1 DEF Means
  <2> QED
    BY <1>2, <2>1, <2>2 DEF DupInv, Computing
<1>3. /\ F.code[b] = [phis |-> F.code[b].phis, body |-> Body(b), term |-> F.code[b].term]
      /\ Len(Body(b)) \in Nat /\ DOMAIN Body(b) = 1..Len(Body(b))
      /\ \A k \in 1..Len(Body(b)) : Body(b)[k] \in DOMAIN F.uses
      /\ F.code[b].term \in DOMAIN F.uses
      /\ \A k \in DOMAIN F.code[b].phis : F.code[b].phis[k] \in DOMAIN F.from /\ F.code[b].phis[k] \in DOMAIN F.uses
  BY <1>1, BlockIs, FunctionIs
<1>4. /\ F.code[b].term \in DOMAIN M.uses
      /\ \A k \in DOMAIN F.code[b].phis : F.code[b].phis[k] \in DOMAIN M.uses
  BY DEF DupInv, HeadsThere
<1>5. PICK phis, body, term : phis = F.code[b].phis /\ body = Body(b) /\ term = F.code[b].term
  OBVIOUS
<1>6. \E f : phis = [k \in DOMAIN phis |-> f[k]]
  BY <1>1, <1>5, BlockSeqs
<1>7. \E f : body = [k \in DOMAIN body |-> f[k]]
  BY <1>1, <1>5, BlockSeqs
<1>8. MeanThose(phis, phis)
  <2>1. \A k \in DOMAIN phis : Means(phis[k]) = phis[k] /\ MeanAll(M.uses[phis[k]]) = F.uses[phis[k]]
    BY <1>2, <1>3, <1>4, <1>5
  <2> QED
    BY <1>6, <2>1 DEF MeanThose, MeanAll
<1>9. MeanThose(<<term>>, <<term>>)
  <2>1. Means(term) = term /\ MeanAll(M.uses[term]) = F.uses[term]
    BY <1>2, <1>3, <1>4, <1>5
  <2> QED
    BY <2>1 DEF MeanThose, MeanAll
<1>10. \A k \in DOMAIN phis : M.from[phis[k]] = [i \in DOMAIN F.from[phis[k]] |-> EndOf(F.from[phis[k]][i])]
  BY <1>3, <1>5 DEF DupInv, FromEnds
<1>11. b \notin Cut => Whole(b) /\ EndOf(b) = bb(b)
  BY DEF DupInv, EndOf, Cut
<1>12. b \in Cut => Halves(b) /\ EndOf(b) = <<"tail", b>> /\ EndOf(b) # bb(b)
  BY DEF DupInv, EndOf, Cut, bb
<1>13. M.code[bb(b)].phis = phis /\ M.code[EndOf(b)].term = term
  <2>1. ASSUME b \notin Cut PROVE M.code[bb(b)] = [phis |-> phis, body |-> body, term |-> term]
    BY <1>3, <1>5, <1>11, <2>1 DEF Whole
  <2>2. ASSUME b \in Cut PROVE M.code[bb(b)].phis = phis /\ M.code[<<"tail", b>>].term = term
    BY <1>5, <1>12, <2>2 DEF Halves
  <2> QED
    BY <1>11, <1>12, <2>1, <2>2
<1>14. M.succ[EndOf(b)] = [k \in DOMAIN F.succ[b] |-> bb(F.succ[b][k])]
  BY <1>11, <1>12 DEF Whole, Halves, Leaves
<1>15. ASSUME b \notin Cut PROVE MeanThose(M.code[bb(b)].body, body)
  <2>1. Whole(b)
    BY <1>11, <1>15
  <2>2. M.code[bb(b)].body = body
    BY <1>3, <1>5, <2>1 DEF Whole
  <2>3. \A k \in DOMAIN body : Means(body[k]) = body[k] /\ MeanAll(M.uses[body[k]]) = F.uses[body[k]]
    BY <1>2, <1>3, <1>5, <2>1 DEF Whole
  <2>4. MeanThose(body, body)
    BY <1>7, <2>3 DEF MeanThose, MeanAll
  <2> QED
    BY <2>2, <2>4
<1>16. ASSUME b \in Cut, NEW side \in {"then", "else"}
       PROVE  MeanThose(M.code[<<side, b>>].body, body) /\ M.succ[<<side, b>>] = << <<"tail", b>> >>
  <2>1. CloneSide(side, b) /\ Cloned(b) = Len(body) /\ DOMAIN body = 1..Len(body)
    BY <1>3, <1>5, <1>12, <1>16 DEF Halves, Cloned
  <2>2. PICK vs : vs = M.code[<<side, b>>].body
    OBVIOUS
  <2>3. vs = [k \in 1..Len(body) |-> <<side, body[k][2]>>]
    BY <1>5, <2>1, <2>2 DEF CloneSide
  <2>4. ASSUME NEW k \in 1..Len(body)
        PROVE  Means(vs[k]) = body[k] /\ MeanAll(M.uses[vs[k]]) = F.uses[body[k]]
    <3>1. body[k] = <<"inst", body[k][2]>>
      BY <1>1, <1>3, <1>5, FunctionIs
    <3>2. vs[k] = <<side, body[k][2]>> /\ vs[k] \in DOMAIN M.uses
      BY <1>5, <2>1, <2>3 DEF CloneSide
    <3>3. Means(vs[k]) = body[k] /\ vs[k][1] \in {"inst", "then", "else"}
      BY <1>16, <3>1, <3>2 DEF Means
    <3> QED
      BY <3>2, <3>3 DEF DupInv, Computing
  <2>5. DOMAIN vs = DOMAIN body
    BY <2>1, <2>3
  <2>6. MeanThose(vs, body)
    BY <1>7, <2>1, <2>4, <2>5 DEF MeanThose, MeanAll
  <2> QED
    BY <2>1, <2>2, <2>6 DEF CloneSide
<1>17. ASSUME b \in Cut, NEW v \in ToSet(M.code[EndOf(b)].phis)
       PROVE  v \in DOMAIN M.from /\ \A k \in DOMAIN M.uses[v] : M.uses[v][k][1] = M.from[v][k][1]
  <2>1. ClonePhi(v, b)
    BY <1>12, <1>17 DEF Halves
  <2>2. PICK u, w : u = M.uses[v] /\ w = M.from[v]
    OBVIOUS
  <2>3. /\ u = << <<"then", v[2]>>, <<"else", v[2]>> >> /\ w = << <<"then", b>>, <<"else", b>> >>
        /\ v \in DOMAIN M.from
    BY <2>1, <2>2 DEF ClonePhi
  <2>4. \A k \in DOMAIN u : u[k][1] = w[k][1]
    BY <2>3
  <2> QED
    BY <2>2, <2>3, <2>4
<1>18. MeanThose(M.code[bb(b)].phis, F.code[b].phis) /\ MeanThose(<<M.code[EndOf(b)].term>>, <<F.code[b].term>>)
  BY <1>5, <1>8, <1>9, <1>13, Zenon
<1>19. \A k \in DOMAIN M.code[bb(b)].phis :
         M.from[M.code[bb(b)].phis[k]] = [i \in DOMAIN F.from[F.code[b].phis[k]] |->
                                            EndOf(F.from[F.code[b].phis[k]][i])]
  BY <1>5, <1>10, <1>13, Zenon
<1>20. EndOf(b) = bb(b) => MeanThose(M.code[bb(b)].body, F.code[b].body)
  BY <1>5, <1>12, <1>15 DEF Body
<1>21. EndOf(b) # bb(b) =>
         /\ M.succ[bb(b)] = << <<"then", b>>, <<"else", b>> >>
         /\ \A side \in {"then", "else"} :
              /\ MeanThose(M.code[<<side, b>>].body, F.code[b].body)
              /\ M.succ[<<side, b>>] = << <<"tail", b>> >>
         /\ ToSet(M.code[EndOf(b)].phis) \subseteq DOMAIN M.from
         /\ \A v \in ToSet(M.code[EndOf(b)].phis) :
              \A k \in DOMAIN M.uses[v] : M.uses[v][k][1] = M.from[v][k][1]
  <2> SUFFICES ASSUME b \in Cut
               PROVE  /\ M.succ[bb(b)] = << <<"then", b>>, <<"else", b>> >>
                      /\ \A side \in {"then", "else"} :
                           /\ MeanThose(M.code[<<side, b>>].body, F.code[b].body)
                           /\ M.succ[<<side, b>>] = << <<"tail", b>> >>
                      /\ ToSet(M.code[EndOf(b)].phis) \subseteq DOMAIN M.from
                      /\ \A v \in ToSet(M.code[EndOf(b)].phis) :
                           \A k \in DOMAIN M.uses[v] : M.uses[v][k][1] = M.from[v][k][1]
    BY <1>11, Zenon
  <2>1. M.succ[bb(b)] = << <<"then", b>>, <<"else", b>> >>
    BY <1>12 DEF Halves
  <2>2. F.code[b].body = body
    BY <1>5 DEF Body
  <2> QED
    BY <1>16, <1>17, <2>1, <2>2, Zenon
<1> QED
  BY <1>14, <1>18, <1>19, <1>20, <1>21, Zenon

\* DuplicateBB (DuplicateBB.cpp:141) changes nothing that the function does,
\* for every function, every choice of blocks and values and every order of
\* RIV's worklist: whichever way a test goes, the instructions of the block are
\* executed once, in order, on the values they had, the phis of the tail take
\* those of the side that was executed, and what follows is as before.
THEOREM DuplicationKeepsBehaviour == DuplicateSpec => []BehaviourKept
<1>1. DupInv /\ [DuplicateNext]_duplicateVars => DupInv'
  <2> SUFFICES ASSUME DupInv, [DuplicateNext]_duplicateVars PROVE DupInv'
    OBVIOUS
  <2>1. CASE BuildRIV \/ Chosen \/ Duplicated \/ DuplicateHalt \/ UNCHANGED duplicateVars
    BY <2>1, OthersKeep
  <2>2. CASE ChooseTarget
    BY <2>2, ChooseTargetKeeps
  <2>3. CASE Split
    BY <2>3, SplitKeeps
  <2>4. CASE CloneVoid
    BY <2>4, CloneVoidKeeps
  <2>5. CASE CloneValue
    BY <2>5, CloneValueKeeps
  <2>6. CASE Purge
    BY <2>6, PurgeKeeps
  <2> QED
    BY <2>1, <2>2, <2>3, <2>4, <2>5, <2>6 DEF DuplicateNext
<1> QED
  BY <1>1, InitDup, DupInvKeeps, PTL DEF DuplicateSpec

-----------------------------------------------------------------------------
(* The places of instructions and what they are applied to.                 *)

\* The phi that has replaced an instruction, if one has.
Current(v) == IF v \in DOMAIN ReMapper THEN ReMapper[v] ELSE v

CurrentAll(vs) == [k \in DOMAIN vs |-> Current(vs[k])]

\* The block of the clone loop that is running.
BeingCloned(b) == pc = "clone" /\ b = BB

\* The instruction v has clones.
HasClone(v) == \E b \in Cut : \E k \in 1..Cloned(b) : v = Body(b)[k]

\* What was replaced: the instructions of split blocks that have clones, but
\* for those without a value.
Replaced ==
  /\ \A v \in DOMAIN ReMapper : ReMapper[v] = <<"phi", v[2]>>
  /\ \A v : v \in DOMAIN ReMapper <=> v \notin F.void /\ HasClone(v)

\* The operand v of the clone of the k-th instruction of b.
OnSide(side, b, k, v) ==
  IF v \notin F.void /\ \E j \in 1..(k - 1) : v = Body(b)[j] THEN <<side, v[2]>> ELSE Current(v)

\* The blocks there are.
Parts ==
  \A x : x \in DOMAIN M.code <=>
    (\E b \in F.block : x = bb(b)) \/ \E b \in Cut, p \in {"then", "else", "tail"} : x = <<p, b>>

\* The test at the head of a split block, and the branches of its sides.
Tests(b) ==
  /\ <<"isnull", b>> \in DOMAIN M.uses /\ <<"test", b>> \in DOMAIN M.uses /\ <<"br", b>> \in DOMAIN M.uses
  /\ M.code[bb(b)].body = << <<"isnull", b>> >> /\ M.code[bb(b)].term = <<"test", b>>
  /\ M.uses[<<"test", b>>] = << <<"isnull", b>> >> /\ M.uses[<<"br", b>>] = <<>>
  /\ \E i \in 1..Len(Targets) : Targets[i][1] = b /\ M.uses[<<"isnull", b>>] = <<Current(Targets[i][2])>>

\* What a clone is applied to.
CloneUses(b) ==
  \A side \in {"then", "else"} : \A k \in 1..Cloned(b) :
    LET us == F.uses[Body(b)[k]]
    IN  M.uses[<<side, Body(b)[k][2]>>] = [i \in DOMAIN us |-> OnSide(side, b, k, us[i])]

\* A phi for every instruction of a split block that has a value.
PhisThere(b) ==
  /\ BeingCloned(b) \/ M.code[<<"tail", b>>].body = <<>>
  /\ \A k \in 1..Cloned(b) :
       LET v == Body(b)[k]
       IN  v \notin F.void => IF BeingCloned(b) THEN M.code[<<"tail", b>>].body[k] = <<"phi", v[2]>>
                              ELSE <<"phi", v[2]>> \in ToSet(M.code[<<"tail", b>>].phis)

\* What was not cloned is applied to what it was, as it is now.
OldUses ==
  \A v \in DOMAIN F.uses :
    ~HasClone(v) => v \in DOMAIN M.uses /\ M.uses[v] = CurrentAll(F.uses[v])

\* The map of a side, when n instructions of the block have clones.
MapOf(side, vmap, n) ==
  /\ \A v \in DOMAIN vmap : \E k \in 1..n :
       v = IF Body(BB)[k] \in F.void THEN Body(BB)[k] ELSE <<"phi", Body(BB)[k][2]>>
  /\ \A k \in 1..n : Body(BB)[k] \notin F.void =>
       /\ <<"phi", Body(BB)[k][2]>> \in DOMAIN vmap
       /\ vmap[<<"phi", Body(BB)[k][2]>>] = <<side, Body(BB)[k][2]>>

\* The maps of the block that is being worked on.
Maps ==
  pc = "clone" =>
    /\ MapOf("then", ThenVMap, IIT - 1) /\ MapOf("else", ElseVMap, IIT - 1)
    /\ \A v \in DOMAIN TailVMap : v[1] = "phi" /\ TailVMap[v] = v
    /\ ToRemove \subseteq F.void

\* The targets' blocks are reachable, with values that reach them; those
\* before next are split.
TargetsReached ==
  /\ \A i \in 1..Len(Targets) :
       /\ Targets[i][1] \in Reachable(F) /\ Targets[i][2] \in ReachableIntegers(Targets[i][1])
  /\ pc = "split" => \A i \in 1..Len(Targets) : i < next => Targets[i][1] \in Cut
  /\ pc = "clone" => \A i \in 1..Len(Targets) : i <= next => Targets[i][1] \in Cut
  /\ pc = "done" => \A i \in 1..Len(Targets) : Targets[i][1] \in Cut

\* Where everything is, and what it is applied to.
PlacesInv ==
  /\ Replaced /\ Parts /\ OldUses /\ Maps /\ TargetsReached
  /\ \A b \in Cut : Tests(b) /\ CloneUses(b) /\ PhisThere(b)

-----------------------------------------------------------------------------
(* Each step.                                                               *)

\* What an instruction is applied to: values.
LEMMA OperandsAre ==
  ASSUME F \in RIVFunctions, NEW v \in DOMAIN F.uses
  PROVE  /\ F.uses[v] = [k \in DOMAIN F.uses[v] |-> F.uses[v][k]]
         /\ \A k \in DOMAIN F.uses[v] : /\ F.uses[v][k] \in {"arg", "global", "inst"} \X Nat
                                        /\ F.uses[v][k] \notin F.void
<1> DEFINE S == {"arg", "global", "inst"} \X Nat
<1>1. WellFormedCode(F) /\ WellFormedValues(F)
  BY CodeAssumption, ValuesAssumption
<1>2. F.uses[v] \in Seq(S)
  BY <1>1 DEF WellFormedCode
<1>3. PICK u : u = F.uses[v]
  OBVIOUS
<1>4. u \in Seq(S)
  BY <1>2, <1>3
<1> HIDE DEF S
<1>5. u \in [1..Len(u) -> S]
  BY <1>4, LenProperties
<1>6. u = [k \in DOMAIN u |-> u[k]] /\ \A k \in DOMAIN u : u[k] \in S /\ u[k] \in ToSet(u)
  BY <1>5 DEF ToSet
<1>7. ToSet(u) \cap F.void = {}
  BY <1>1, <1>3 DEF WellFormedValues
<1> QED BY <1>3, <1>6, <1>7 DEF S

\* Before a block is chosen everything is where it was.
LEMMA InitPlaces == DuplicateInit => PlacesInv
<1> SUFFICES ASSUME DuplicateInit PROVE PlacesInv
  OBVIOUS
<1> DEFINE heads == {bb(b) : b \in F.block}
<1>1. /\ F \in RIVFunctions /\ pc = "choose" /\ Targets = <<>> /\ ReMapper = NoMap
      /\ DOMAIN M.code = heads /\ M.uses = F.uses
  BY DEF DuplicateInit, RIVInit
<1>2. \A b \in F.block : bb(b) \in heads /\ <<"tail", b>> \notin heads /\ bb(b)[2] = b
  BY DEF bb
<1>3. Cut = {}
  BY <1>1, <1>2 DEF Cut
<1>4. DOMAIN ReMapper = {} /\ \A v : ~HasClone(v)
  BY <1>1, <1>3 DEF NoMap, HasClone
<1>5. Replaced /\ Parts
  BY <1>1, <1>3, <1>4 DEF Replaced, Parts
<1>6. OldUses
  <2> SUFFICES ASSUME NEW v \in DOMAIN F.uses PROVE F.uses[v] = CurrentAll(F.uses[v])
    BY <1>1 DEF OldUses
  <2>1. PICK u : u = F.uses[v]
    OBVIOUS
  <2>2. u = [k \in DOMAIN u |-> u[k]]
    BY <1>1, <2>1, OperandsAre
  <2>3. \A k : Current(u[k]) = u[k]
    BY <1>4 DEF Current
  <2> QED BY <2>1, <2>2, <2>3 DEF CurrentAll
<1>7. Maps /\ TargetsReached
  BY <1>1 DEF Maps, TargetsReached
<1> QED BY <1>3, <1>5, <1>6, <1>7 DEF PlacesInv

\* A step that leaves the function alone, between two blocks.
LEMMA QuietPlaces ==
  ASSUME PlacesInv, pc # "clone", pc' # "clone", Targets' = Targets \/ Cut = {}, TargetsReached',
         F' = F, M' = M, ReMapper' = ReMapper
  PROVE  PlacesInv'
<1>1. Cut' = Cut /\ \A b \in Cut : b \in Cut'
  BY DEF Cut
<1>2. \A b : Cloned(b)' = Cloned(b) /\ Body(b)' = Body(b) /\ BeingCloned(b)' = FALSE /\ BeingCloned(b) = FALSE
  BY DEF Cloned, Body, BeingCloned
<1>3. \A v : HasClone(v)' <=> HasClone(v)
  BY <1>1, <1>2 DEF HasClone
<1>4. \A v : Current(v)' = Current(v)
  BY DEF Current
<1>5. Replaced'
  BY <1>3 DEF PlacesInv, Replaced
<1>6. Parts'
  BY <1>1 DEF PlacesInv, Parts
<1>7. OldUses'
  BY <1>3 DEF PlacesInv, OldUses, CurrentAll, Current
<1>8. Maps'
  BY DEF Maps
<1>9. ASSUME NEW b \in Cut PROVE (Tests(b) /\ CloneUses(b) /\ PhisThere(b))'
  <2>1. Tests(b) /\ CloneUses(b) /\ PhisThere(b) /\ Targets' = Targets
    BY DEF PlacesInv
  <2>2. Tests(b)'
    BY <2>1, <1>4 DEF Tests, Current
  <2>3. CloneUses(b)'
    <3>1. \A side, k, v : OnSide(side, b, k, v)' = OnSide(side, b, k, v)
      BY <1>2, <1>4 DEF OnSide
    <3> QED BY <2>1, <1>2, <3>1 DEF CloneUses
  <2>4. PhisThere(b)'
    BY <2>1, <1>2 DEF PhisThere
  <2> QED BY <2>2, <2>3, <2>4
<1> QED BY <1>1, <1>5, <1>6, <1>7, <1>8, <1>9 DEF PlacesInv

\* A step of RIV, or none.
LEMMA StutterPlaces ==
  ASSUME PlacesInv, UNCHANGED <<F, pc, next, Targets, M, ReMapper, cloneVars>>
  PROVE  PlacesInv'
<1>1. /\ F' = F /\ pc' = pc /\ next' = next /\ Targets' = Targets /\ M' = M /\ ReMapper' = ReMapper
      /\ ThenVMap' = ThenVMap /\ ElseVMap' = ElseVMap /\ TailVMap' = TailVMap /\ IIT' = IIT /\ ToRemove' = ToRemove
  BY DEF cloneVars
<1>2. Cut' = Cut /\ BB' = BB /\ \A b : Body(b)' = Body(b) /\ \A v : Current(v)' = Current(v)
  BY <1>1 DEF Cut, BB, Body, Current
<1>3. \A b : Cloned(b)' = Cloned(b) /\ (BeingCloned(b)' <=> BeingCloned(b))
  BY <1>1, <1>2 DEF Cloned, BeingCloned
<1>4. \A v : HasClone(v)' <=> HasClone(v)
  BY <1>2, <1>3 DEF HasClone
<1>5. Replaced'
  BY <1>1, <1>4 DEF PlacesInv, Replaced
<1>6. Parts'
  BY <1>1, <1>2 DEF PlacesInv, Parts
<1>7. OldUses'
  BY <1>1, <1>4 DEF PlacesInv, OldUses, CurrentAll, Current
<1>8. Maps'
  <2> SUFFICES ASSUME pc = "clone"
               PROVE  /\ (MapOf("then", ThenVMap, IIT - 1) /\ MapOf("else", ElseVMap, IIT - 1))'
                      /\ (\A v \in DOMAIN TailVMap : v[1] = "phi" /\ TailVMap[v] = v)'
                      /\ (ToRemove \subseteq F.void)'
    BY <1>1 DEF Maps
  <2>1. /\ MapOf("then", ThenVMap, IIT - 1) /\ MapOf("else", ElseVMap, IIT - 1)
        /\ \A v \in DOMAIN TailVMap : v[1] = "phi" /\ TailVMap[v] = v
        /\ ToRemove \subseteq F.void
    BY DEF PlacesInv, Maps
  <2>2. MapOf("then", ThenVMap, IIT - 1)'
    <3>1. PICK m, n, body : m = ThenVMap /\ n = IIT - 1 /\ body = Body(BB)
      OBVIOUS
    <3>2. m = ThenVMap' /\ n = (IIT - 1)' /\ body = Body(BB)' /\ F' = F
      BY <1>1, <1>2, <3>1 DEF Body
    <3>3. /\ \A v \in DOMAIN m : \E k \in 1..n : v = IF body[k] \in F.void THEN body[k] ELSE <<"phi", body[k][2]>>
          /\ \A k \in 1..n : body[k] \notin F.void => /\ <<"phi", body[k][2]>> \in DOMAIN m
                                                  /\ m[<<"phi", body[k][2]>>] = <<"then", body[k][2]>>
      BY <2>1, <3>1 DEF MapOf
    <3> QED BY <3>2, <3>3 DEF MapOf
  <2>3. MapOf("else", ElseVMap, IIT - 1)'
    <3>1. PICK m, n, body : m = ElseVMap /\ n = IIT - 1 /\ body = Body(BB)
      OBVIOUS
    <3>2. m = ElseVMap' /\ n = (IIT - 1)' /\ body = Body(BB)' /\ F' = F
      BY <1>1, <1>2, <3>1 DEF Body
    <3>3. /\ \A v \in DOMAIN m : \E k \in 1..n : v = IF body[k] \in F.void THEN body[k] ELSE <<"phi", body[k][2]>>
          /\ \A k \in 1..n : body[k] \notin F.void => /\ <<"phi", body[k][2]>> \in DOMAIN m
                                                  /\ m[<<"phi", body[k][2]>>] = <<"else", body[k][2]>>
      BY <2>1, <3>1 DEF MapOf
    <3> QED BY <3>2, <3>3 DEF MapOf
  <2> QED BY <1>1, <2>1, <2>2, <2>3
<1>9. TargetsReached'
  BY <1>1, <1>2 DEF PlacesInv, TargetsReached, ReachableIntegers
<1>10. ASSUME NEW b \in Cut PROVE (Tests(b) /\ CloneUses(b) /\ PhisThere(b))'
  <2>1. Tests(b) /\ CloneUses(b) /\ PhisThere(b)
    BY DEF PlacesInv
  <2>2. Tests(b)'
    BY <1>1, <2>1 DEF Tests, Current
  <2>3. CloneUses(b)'
    <3>1. \A side, k, v : OnSide(side, b, k, v)' = OnSide(side, b, k, v)
      BY <1>1, <1>2 DEF OnSide
    <3> QED BY <1>1, <2>1, <1>2, <1>3, <3>1 DEF CloneUses
  <2>4. PhisThere(b)'
    BY <1>1, <2>1, <1>2, <1>3 DEF PhisThere
  <2> QED BY <2>2, <2>3, <2>4
<1> QED BY <1>2, <1>5, <1>6, <1>7, <1>8, <1>9, <1>10 DEF PlacesInv

\* RIV's results for a block are of its strict dominators.
LEMMA ChooseTargetPlaces == DupInv /\ RIVInv /\ PlacesInv /\ ChooseTarget => PlacesInv'
<1> SUFFICES ASSUME DupInv, RIVInv, PlacesInv, ChooseTarget PROVE PlacesInv'
  OBVIOUS
<1> DEFINE b == F.order[next]
           l == Len(Targets)
<1>1. /\ pc = "choose" /\ pc' = "choose" /\ F' = F /\ M' = M /\ ReMapper' = ReMapper /\ RIVBuilt
      /\ Targets' = Targets \/ \E v \in ReachableValues(b) : Targets' = Append(Targets, <<b, v>>)
  BY DEF ChooseTarget, rivVars
<1>2. Cut = {}
  BY <1>1 DEF DupInv, Choice
<1>3. \A i \in 1..l : Targets[i][1] \in Reachable(F) /\ Targets[i][2] \in ReachableIntegers(Targets[i][1])
  BY DEF PlacesInv, TargetsReached
<1>4. \A c, v : v \in ReachableIntegers(c)' <=> v \in ReachableIntegers(c)
  BY <1>1 DEF ReachableIntegers
<1>5. \A i \in 1..Len(Targets') :
        Targets'[i][1] \in Reachable(F) /\ Targets'[i][2] \in ReachableIntegers(Targets'[i][1])
  <2>1. CASE Targets' = Targets
    BY <1>3, <2>1
  <2>2. CASE \E v \in ReachableValues(b) : Targets' = Append(Targets, <<b, v>>)
    <3>1. PICK v \in ReachableValues(b) : Targets' = Append(Targets, <<b, v>>)
      BY <2>2
    <3>2. b \in Reachable(F) /\ v \in ReachableIntegers(b)
      BY <1>1, <3>1 DEF ReachableValues, Before, RIVInv
    <3>3. PICK V : Targets \in Seq(F.block \X V)
      BY DEF DupInv, Choice
    <3>4. Len(Targets) \in Nat /\ \A i \in 1..Len(Targets) : Targets[i] \in F.block \X V
      BY <3>3, LenProperties, ElementOfSeq
    <3> DEFINE S == (F.block \X V) \cup {<<b, v>>}
    <3>5. Targets \in Seq(S) /\ <<b, v>> \in S
      BY <3>3, SeqMonotone
    <3> HIDE DEF S
    <3>6. /\ Len(Targets') = l + 1
          /\ \A i \in 1..l : Targets'[i] = Targets[i]
          /\ Targets'[l + 1] = <<b, v>>
      BY <3>1, <3>5, AppendProperties
    <3>7. \A i \in 1..(l + 1) : i \in 1..l \/ i = l + 1
      BY <3>4
    <3> QED BY <1>3, <3>2, <3>6, <3>7
  <2> QED BY <1>1, <2>1, <2>2
<1>6. TargetsReached'
  BY <1>1, <1>5 DEF TargetsReached, ReachableIntegers
<1> QED BY <1>1, <1>2, <1>6, QuietPlaces

\* Steps between two blocks.
LEMMA OthersPlaces ==
  DupInv /\ PlacesInv /\ (BuildRIV \/ Chosen \/ Duplicated \/ DuplicateHalt \/ UNCHANGED duplicateVars) => PlacesInv'
<1> SUFFICES ASSUME DupInv, PlacesInv,
                    BuildRIV \/ Chosen \/ Duplicated \/ DuplicateHalt \/ UNCHANGED duplicateVars
             PROVE  PlacesInv'
  OBVIOUS
<1>1. CASE BuildRIV \/ DuplicateHalt \/ UNCHANGED duplicateVars
  <2>1. UNCHANGED <<F, pc, next, Targets, M, ReMapper, cloneVars>>
    BY <1>1 DEF BuildRIV, ProcessParent, DuplicateHalt, duplicateVars, rivVars, cloneVars
  <2> QED
    BY <2>1, StutterPlaces
<1>2. CASE Chosen
  <2>1. /\ pc = "choose" /\ pc' = "split" /\ next' = 1
        /\ F' = F /\ Targets' = Targets /\ M' = M /\ ReMapper' = ReMapper
    BY <1>2 DEF Chosen, rivVars
  <2>2. \A i \in 1..Len(Targets) : ~(i < 1)
    OBVIOUS
  <2>3. TargetsReached'
    BY <2>1, <2>2 DEF PlacesInv, TargetsReached, ReachableIntegers
  <2> QED
    BY <2>1, <2>3, QuietPlaces
<1>3. CASE Duplicated
  <2>1. /\ pc = "split" /\ pc' = "done" /\ next > Len(Targets)
        /\ F' = F /\ next' = next /\ Targets' = Targets /\ M' = M /\ ReMapper' = ReMapper
    BY <1>3 DEF Duplicated, rivVars
  <2>2. next \in Nat /\ Len(Targets) \in Nat
    <3>1. PICK V : Targets \in Seq(F.block \X V)
      BY DEF DupInv, Choice
    <3> QED BY <3>1, LenProperties DEF DupInv, Choice
  <2>3. \A i \in 1..Len(Targets) : Targets[i][1] \in Cut
    BY <2>1, <2>2 DEF PlacesInv, TargetsReached
  <2>4. Cut' = Cut
    BY <2>1 DEF Cut
  <2>5. TargetsReached'
    BY <2>1, <2>3, <2>4 DEF PlacesInv, TargetsReached, ReachableIntegers
  <2> QED
    BY <2>1, <2>5, QuietPlaces
<1> QED
  BY <1>1, <1>2, <1>3

\* What a split does to the function.
LEMMA SplitIs ==
  ASSUME DupInv, Split
  PROVE  /\ pc = "split" /\ pc' = "clone" /\ IIT' = 1 /\ ToRemove' = {}
         /\ F' = F /\ next' = next /\ Targets' = Targets /\ BB' = BB /\ ReMapper' = ReMapper
         /\ ThenVMap' = NoMap /\ ElseVMap' = NoMap /\ TailVMap' = NoMap
         /\ BB \in F.block /\ next \in 1..Len(Targets) /\ BB \notin Cut /\ F \in RIVFunctions
         /\ DOMAIN M'.code = DOMAIN M.code \cup {<<"then", BB>>, <<"else", BB>>, <<"tail", BB>>, bb(BB)}
         /\ M'.code[bb(BB)].body = << <<"isnull", BB>> >> /\ M'.code[bb(BB)].term = <<"test", BB>>
         /\ \A x \in DOMAIN M.code : x \notin {<<"then", BB>>, <<"else", BB>>, <<"tail", BB>>, bb(BB)} =>
              M'.code[x] = M.code[x]
         /\ DOMAIN M'.uses = DOMAIN M.uses \cup {<<"br", BB>>, <<"test", BB>>, <<"isnull", BB>>}
         /\ M'.uses[<<"br", BB>>] = <<>> /\ M'.uses[<<"test", BB>>] = << <<"isnull", BB>> >>
         /\ M'.uses[<<"isnull", BB>>] = <<CurrentContext>>
         /\ \A v \in DOMAIN M.uses : v \notin {<<"br", BB>>, <<"test", BB>>, <<"isnull", BB>>} =>
              M'.uses[v] = M.uses[v]
<1> DEFINE head == bb(BB)
           then == <<"then", BB>>
           else == <<"else", BB>>
           tail == <<"tail", BB>>
           test == <<"isnull", BB>>
           new  == {then, else, tail, head}
<1>1. /\ pc = "split" /\ pc' = "clone" /\ next <= Len(Targets) /\ IIT' = 1 /\ ToRemove' = {}
      /\ F' = F /\ next' = next /\ Targets' = Targets /\ BB' = BB /\ ReMapper' = ReMapper
      /\ ThenVMap' = NoMap /\ ElseVMap' = NoMap /\ TailVMap' = NoMap
  BY DEF Split, rivVars, BB
<1>2. BB \in F.block /\ next \in 1..Len(Targets) /\ BB \notin Cut /\ F \in RIVFunctions
  BY <1>1, BlockChosen DEF DupInv
<1>3. /\ M'.code = Put(Put(Put(Put(M.code, then, Branching), else, Branching),
                            tail, [M.code[head] EXCEPT !.phis = <<>>]),
                        head, [phis |-> M.code[head].phis, body |-> <<test>>, term |-> <<"test", BB>>])
      /\ M'.uses = Put(Put(Put(M.uses, <<"br", BB>>, <<>>), <<"test", BB>>, <<test>>),
                       test, <<CurrentContext>>)
  BY DEF Split
<1>4. then # head /\ else # head /\ tail # head
  BY DEF bb
<1>5. /\ DOMAIN M'.code = DOMAIN M.code \cup new
      /\ M'.code[head] = [phis |-> M.code[head].phis, body |-> <<test>>, term |-> <<"test", BB>>]
      /\ \A x \in DOMAIN M.code : x \notin new => M'.code[x] = M.code[x]
  <2>1. PICK c, r, br : /\ c = [M.code[head] EXCEPT !.phis = <<>>] /\ br = Branching
                       /\ r = [phis |-> M.code[head].phis, body |-> <<test>>, term |-> <<"test", BB>>]
    OBVIOUS
  <2>2. M'.code = Put(Put(Put(Put(M.code, then, br), else, br), tail, c), head, r)
    BY <1>3, <2>1
  <2> HIDE DEF head, then, else, tail, test
  <2>3. DOMAIN M'.code = DOMAIN M.code \cup new /\ M'.code[head] = r
    BY <2>2 DEF Put
  <2>4. \A x \in DOMAIN M.code : x \notin new => M'.code[x] = M.code[x]
    BY <2>2 DEF Put
  <2> QED
    BY <2>1, <2>3, <2>4
<1>6. M'.code[head].body = <<test>> /\ M'.code[head].term = <<"test", BB>>
  BY <1>5
<1>7. PICK a, b, c : a = <<"br", BB>> /\ b = <<"test", BB>> /\ c = <<"isnull", BB>>
  OBVIOUS
<1>8. a # b /\ a # c /\ b # c
  BY <1>7
<1>9. M'.uses = Put(Put(Put(M.uses, a, <<>>), b, <<c>>), c, <<CurrentContext>>)
  BY <1>3, <1>7
<1>10. /\ DOMAIN M'.uses = DOMAIN M.uses \cup {a, b, c}
       /\ M'.uses[a] = <<>> /\ M'.uses[b] = <<c>> /\ M'.uses[c] = <<CurrentContext>>
       /\ \A v \in DOMAIN M.uses : v \notin {a, b, c} => M'.uses[v] = M.uses[v]
  BY <1>8, <1>9 DEF Put
<1> QED
  BY <1>1, <1>2, <1>5, <1>6, <1>7, <1>10

\* A split tests the present form of the block's context value.
LEMMA SplitPlaces == DupInv /\ PlacesInv /\ Split => PlacesInv'
<1> SUFFICES ASSUME DupInv, PlacesInv, Split PROVE PlacesInv'
  OBVIOUS
<1> DEFINE new == {<<"then", BB>>, <<"else", BB>>, <<"tail", BB>>, bb(BB)}
           tests == {<<"br", BB>>, <<"test", BB>>, <<"isnull", BB>>}
<1>1. /\ pc = "split" /\ pc' = "clone" /\ IIT' = 1 /\ ToRemove' = {}
      /\ F' = F /\ next' = next /\ Targets' = Targets /\ BB' = BB /\ ReMapper' = ReMapper
      /\ ThenVMap' = NoMap /\ ElseVMap' = NoMap /\ TailVMap' = NoMap
      /\ BB \in F.block /\ next \in 1..Len(Targets) /\ BB \notin Cut /\ F \in RIVFunctions
  BY SplitIs
<1>2. /\ DOMAIN M'.code = DOMAIN M.code \cup new
      /\ M'.code[bb(BB)].body = << <<"isnull", BB>> >> /\ M'.code[bb(BB)].term = <<"test", BB>>
      /\ \A x \in DOMAIN M.code : x \notin new => M'.code[x] = M.code[x]
  BY SplitIs
<1>3. /\ DOMAIN M'.uses = DOMAIN M.uses \cup tests
      /\ M'.uses[<<"br", BB>>] = <<>> /\ M'.uses[<<"test", BB>>] = << <<"isnull", BB>> >>
      /\ M'.uses[<<"isnull", BB>>] = <<CurrentContext>>
      /\ \A v \in DOMAIN M.uses : v \notin tests => M'.uses[v] = M.uses[v]
  BY SplitIs
<1>4. \A b, c : bb(b) # <<"then", c>> /\ bb(b) # <<"else", c>> /\ bb(b) # <<"tail", c>> /\ (bb(b) = bb(c) => b = c)
  BY DEF bb
<1>5. \A b : b \in Cut' <=> b \in Cut \/ b = BB
  BY <1>1, <1>2, <1>4 DEF Cut
<1>6. /\ \A b \in Cut : b # BB /\ b \in F.block
      /\ \A b : Body(b)' = Body(b)
      /\ \A b : b # BB => Cloned(b)' = Cloned(b) /\ (BeingCloned(b)' <=> BeingCloned(b))
      /\ Cloned(BB)' = 0 /\ BeingCloned(BB)'
  BY <1>1 DEF Cut, Body, Cloned, BeingCloned
<1>7. \A v : HasClone(v)' <=> HasClone(v)
  <2> SUFFICES ASSUME NEW v PROVE HasClone(v)' <=> HasClone(v)
    OBVIOUS
  <2>1. ASSUME HasClone(v) PROVE HasClone(v)'
    <3>1. PICK b \in Cut : \E k \in 1..Cloned(b) : v = Body(b)[k]
      BY <2>1 DEF HasClone
    <3>2. b \in Cut' /\ \E k \in 1..Cloned(b)' : v = (Body(b)')[k]
      BY <1>5, <1>6, <3>1
    <3> QED BY <3>2 DEF HasClone
  <2>2. ASSUME HasClone(v)' PROVE HasClone(v)
    <3>1. PICK b \in Cut' : \E k \in 1..Cloned(b)' : v = (Body(b)')[k]
      BY <2>2 DEF HasClone
    <3>2. b # BB
      <4>1. ASSUME b = BB PROVE FALSE
        <5>1. pc' = "clone" /\ b = BB' /\ IIT' - 1 = 0
          BY <1>1, <4>1
        <5>2. Cloned(b)' = 0
          BY <5>1 DEF Cloned
        <5> QED BY <3>1, <5>2
      <4> QED BY <4>1
    <3>3. b \in Cut /\ \E k \in 1..Cloned(b) : v = Body(b)[k]
      BY <1>5, <1>6, <3>1, <3>2
    <3> QED BY <3>3 DEF HasClone
  <2> QED BY <2>1, <2>2
<1>8. \A v : Current(v)' = Current(v)
  BY <1>1 DEF Current
<1>9. Replaced'
  BY <1>1, <1>7 DEF PlacesInv, Replaced
<1>10. Parts'
  <2> SUFFICES ASSUME NEW x
               PROVE  x \in DOMAIN M'.code <=>
                        (\E b \in F.block : x = bb(b)) \/ \E b \in Cut', p \in {"then", "else", "tail"} : x = <<p, b>>
    BY <1>1 DEF Parts
  <2>1. x \in DOMAIN M.code <=>
          (\E b \in F.block : x = bb(b)) \/ \E b \in Cut, p \in {"then", "else", "tail"} : x = <<p, b>>
    BY DEF PlacesInv, Parts
  <2>2. x \in new <=> x = bb(BB) \/ \E p \in {"then", "else", "tail"} : x = <<p, BB>>
    OBVIOUS
  <2> HIDE DEF new
  <2> QED BY <1>1, <1>2, <1>5, <2>1, <2>2
<1>11. OldUses'
  <2> SUFFICES ASSUME NEW v \in DOMAIN F.uses, ~HasClone(v)
               PROVE  v \in DOMAIN M'.uses /\ M'.uses[v] = CurrentAll(F.uses[v])'
    BY <1>1, <1>7 DEF OldUses
  <2>1. v \in DOMAIN M.uses /\ M.uses[v] = CurrentAll(F.uses[v])
    BY DEF PlacesInv, OldUses
  <2>2. v[1] = "inst"
    BY <1>1, FunctionIs
  <2>3. v \notin tests
    BY <2>2
  <2>4. CurrentAll(F.uses[v])' = CurrentAll(F.uses[v])
    BY <1>1 DEF CurrentAll, Current
  <2> HIDE DEF tests
  <2> QED BY <1>3, <2>1, <2>3, <2>4
<1>12. Maps'
  <2>1. IIT' - 1 = 0 /\ \A k : k \notin 1..(IIT' - 1)
    BY <1>1
  <2>2. DOMAIN NoMap = {}
    BY DEF NoMap
  <2> QED BY <1>1, <2>1, <2>2 DEF Maps, MapOf
<1>13. TargetsReached'
  <2>1. ASSUME NEW i \in 1..Len(Targets), i <= next PROVE Targets[i][1] \in Cut'
    <3>1. CASE i = next
      BY <1>5, <3>1 DEF BB
    <3>2. CASE i # next
      <4>1. i < next
        BY <1>1, <2>1, <3>2
      <4> QED BY <1>1, <1>5, <4>1 DEF PlacesInv, TargetsReached
    <3> QED BY <3>1, <3>2
  <2> QED BY <1>1, <2>1 DEF PlacesInv, TargetsReached, ReachableIntegers
<1>14. ASSUME NEW b \in Cut PROVE (Tests(b) /\ CloneUses(b) /\ PhisThere(b))'
  <2>1. Tests(b) /\ CloneUses(b) /\ PhisThere(b) /\ b \in F.block /\ b # BB /\ Halves(b)
    BY <1>6 DEF PlacesInv, DupInv
  <2>2. /\ bb(b) \in DOMAIN M.code /\ bb(b) \notin new
        /\ <<"tail", b>> \in DOMAIN M.code /\ <<"tail", b>> \notin new
    BY <1>4, <2>1 DEF DupInv, HeadsThere, Cut
  <2>3. M'.code[bb(b)] = M.code[bb(b)] /\ M'.code[<<"tail", b>>] = M.code[<<"tail", b>>]
    BY <1>2, <2>2
  <2>4. <<"isnull", b>> \notin tests /\ <<"test", b>> \notin tests /\ <<"br", b>> \notin tests
    BY <2>1
  <2>5. Tests(b)'
    <3> HIDE DEF tests
    <3> QED BY <1>1, <1>3, <2>1, <2>3, <2>4 DEF Tests, Current
  <2>6. CloneUses(b)'
    <3> SUFFICES ASSUME NEW side \in {"then", "else"}, NEW k \in 1..Cloned(b)
                 PROVE  M'.uses[<<side, Body(b)[k][2]>>] =
                          [i \in DOMAIN F.uses[Body(b)[k]] |-> OnSide(side, b, k, F.uses[Body(b)[k]][i])']
      BY <1>1, <1>6, <2>1 DEF CloneUses
    <3>1. <<side, Body(b)[k][2]>> \in DOMAIN M.uses
      BY <2>1 DEF Halves, CloneSide
    <3>2. <<side, Body(b)[k][2]>> \notin tests
      OBVIOUS
    <3>3. \A v : OnSide(side, b, k, v)' = OnSide(side, b, k, v)
      BY <1>1, <1>6, <1>8 DEF OnSide
    <3>4. M.uses[<<side, Body(b)[k][2]>>] =
            [i \in DOMAIN F.uses[Body(b)[k]] |-> OnSide(side, b, k, F.uses[Body(b)[k]][i])]
      BY <2>1 DEF CloneUses
    <3>5. ASSUME NEW i PROVE OnSide(side, b, k, F.uses[Body(b)[k]][i])' = OnSide(side, b, k, F.uses[Body(b)[k]][i])
      <4>1. PICK v : v = F.uses[Body(b)[k]][i]
        OBVIOUS
      <4>2. v = (F.uses[Body(b)[k]][i])'
        BY <1>1, <1>6, <4>1
      <4>3. OnSide(side, b, k, F.uses[Body(b)[k]][i])' = OnSide(side, b, k, v)'
        BY <4>2 DEF OnSide, Current
      <4> QED BY <3>3, <4>1, <4>3
    <3> HIDE DEF tests
    <3> QED BY <1>3, <3>1, <3>2, <3>4, <3>5
  <2>7. PhisThere(b)'
    BY <1>1, <1>6, <2>1, <2>3 DEF PhisThere
  <2> QED BY <2>5, <2>6, <2>7
<1>15. ASSUME NEW B, B = BB PROVE (Tests(B) /\ CloneUses(B) /\ PhisThere(B))'
  <2>1. CurrentContext = Current(Targets[next][2]) /\ Targets[next][1] = B
    BY <1>15 DEF CurrentContext, Current, ContextValue, BB
  <2>2. (\E i \in 1..Len(Targets) : Targets[i][1] = B /\ M.uses[<<"isnull", B>>] = <<Current(Targets[i][2])>>)'
    BY <1>1, <1>3, <1>15, <2>1 DEF Current
  <2>3. Tests(B)'
    BY <1>1, <1>2, <1>3, <1>15, <2>2 DEF Tests
  <2>4. Cloned(B)' = 0 /\ BeingCloned(B)'
    BY <1>1, <1>15 DEF Cloned, BeingCloned
  <2>5. (CloneUses(B) /\ PhisThere(B))'
    BY <1>1, <2>4 DEF CloneUses, PhisThere
  <2> QED BY <2>3, <2>5
<1>16. \A b : b \in Cut' => (Tests(b) /\ CloneUses(b) /\ PhisThere(b))'
  BY <1>5, <1>14, <1>15
<1> QED BY <1>9, <1>10, <1>11, <1>12, <1>13, <1>16 DEF PlacesInv

\* The instruction that is to be cloned has no clones.
LEMMA NotYet ==
  ASSUME DupInv, pc = "clone", AtWork
  PROVE  ~HasClone(Instr) /\ Cloned(BB) = IIT - 1
<1>1. /\ F \in RIVFunctions /\ BB \in F.block
      /\ IIT \in 1..Len(Body(BB)) /\ Instr = Body(BB)[IIT] /\ Len(Body(BB)) \in Nat
  BY DEF DupInv, AtWork
<1>2. ASSUME NEW b \in Cut, NEW k \in 1..Cloned(b), Instr = Body(b)[k] PROVE FALSE
  <2>1. b \in F.block
    BY DEF Cut
  <2>2. CASE b = BB
    <3>1. k \in 1..(IIT - 1)
      BY <2>2 DEF Cloned
    <3>2. k \in 1..Len(Body(BB)) /\ k # IIT
      BY <1>1, <3>1
    <3> QED BY <1>1, <1>2, <2>2, <3>2, OnePlaceEach
  <2>3. CASE b # BB
    <3>1. k \in 1..Len(Body(b))
      BY <2>3 DEF Cloned
    <3> QED BY <1>1, <1>2, <2>1, <2>3, <3>1, OnePlaceEach
  <2> QED BY <2>2, <2>3
<1> QED BY <1>2 DEF HasClone, Cloned

\* What has clones is an instruction.
LEMMA ClonedIsInst ==
  ASSUME DupInv, NEW v, HasClone(v)
  PROVE  v \in DOMAIN F.uses /\ v = <<"inst", v[2]>>
<1>1. PICK b \in Cut : \E k \in 1..Cloned(b) : v = Body(b)[k]
  BY DEF HasClone
<1>2. PICK k \in 1..Cloned(b) : v = Body(b)[k]
  BY <1>1
<1>3. b \in F.block /\ F \in RIVFunctions
  BY DEF Cut, DupInv
<1>4. k \in 1..Len(Body(b))
  <2>1. CASE pc = "clone" /\ b = BB
    <3>1. IIT \in 1..(Len(Body(b)) + 1)
      BY <2>1 DEF DupInv, Working
    <3>2. Len(Body(b)) \in Nat
      BY <1>3, BlockIs
    <3> QED BY <1>2, <2>1, <3>1, <3>2 DEF Cloned
  <2> QED BY <1>2, <2>1 DEF Cloned
<1> QED BY <1>2, <1>3, <1>4, BlockIs, FunctionIs

\* What a clone is applied to when it is made.
LEMMA CloneOperands ==
  ASSUME DupInv, PlacesInv, pc = "clone", AtWork, NEW side, NEW vmap, MapOf(side, vmap, IIT - 1)
  PROVE  Remapped(M.uses[Instr], vmap) =
           [i \in DOMAIN F.uses[Instr] |-> OnSide(side, BB, IIT, F.uses[Instr][i])]
<1>1. /\ F \in RIVFunctions /\ Instr \in DOMAIN F.uses /\ BB \in Cut /\ IIT \in Nat
      /\ ~HasClone(Instr) /\ Cloned(BB) = IIT - 1
  <2>1. F \in RIVFunctions /\ Instr \in DOMAIN F.uses /\ BB \in Cut /\ IIT \in Nat
    BY DEF DupInv, AtWork
  <2> QED BY <2>1, NotYet
<1>2. PICK us : us = F.uses[Instr]
  OBVIOUS
<1>3. M.uses[Instr] = CurrentAll(us)
  BY <1>1, <1>2 DEF PlacesInv, OldUses
<1>4. \A k \in DOMAIN us : us[k] \in {"arg", "global", "inst"} \X Nat /\ us[k] \notin F.void
  BY <1>1, <1>2, OperandsAre
<1>5. Replaced
  BY DEF PlacesInv
<1>6. \A k \in 1..(IIT - 1) : HasClone(Body(BB)[k])
  BY <1>1 DEF HasClone
<1>7. ASSUME NEW w \in {"arg", "global", "inst"} \X Nat, w \notin F.void
      PROVE  (IF Current(w) \in DOMAIN vmap THEN vmap[Current(w)] ELSE Current(w)) = OnSide(side, BB, IIT, w)
  <2>1. CASE \E j \in 1..(IIT - 1) : w = Body(BB)[j]
    <3>1. PICK j \in 1..(IIT - 1) : w = Body(BB)[j]
      BY <2>1
    <3>2. w \in DOMAIN ReMapper /\ Current(w) = <<"phi", w[2]>>
      BY <1>5, <1>6, <1>7, <3>1 DEF Replaced, Current
    <3>3. <<"phi", w[2]>> \in DOMAIN vmap /\ vmap[<<"phi", w[2]>>] = <<side, w[2]>>
      BY <1>7, <3>1 DEF MapOf
    <3> QED BY <1>7, <2>1, <3>2, <3>3 DEF OnSide
  <2>2. CASE ~\E j \in 1..(IIT - 1) : w = Body(BB)[j]
    <3>1. OnSide(side, BB, IIT, w) = Current(w)
      BY <2>2 DEF OnSide
    <3>2. ASSUME Current(w) \in DOMAIN vmap PROVE FALSE
      <4>1. PICK k \in 1..(IIT - 1) :
              Current(w) = IF Body(BB)[k] \in F.void THEN Body(BB)[k] ELSE <<"phi", Body(BB)[k][2]>>
        BY <3>2 DEF MapOf
      <4>2. Body(BB)[k] = <<"inst", Body(BB)[k][2]>>
        BY <1>6, ClonedIsInst
      <4>3. CASE w \in DOMAIN ReMapper
        <5>1. Current(w) = <<"phi", w[2]>> /\ HasClone(w)
          BY <1>5, <4>3 DEF Replaced, Current
        <5>2. w = <<"inst", w[2]>>
          BY <5>1, ClonedIsInst
        <5>3. Current(w) # Body(BB)[k]
          BY <4>2, <5>1
        <5>4. w[2] = Body(BB)[k][2]
          BY <4>1, <5>1, <5>3
        <5>5. w = Body(BB)[k]
          BY <4>2, <5>2, <5>4
        <5> QED BY <2>2, <5>5
      <4>4. CASE w \notin DOMAIN ReMapper
        <5>1. Current(w) = w /\ w[1] # "phi"
          BY <1>7, <4>4 DEF Current
        <5>2. w # <<"phi", Body(BB)[k][2]>>
          BY <5>1
        <5> QED BY <2>2, <4>1, <5>1, <5>2
      <4> QED BY <4>3, <4>4
    <3> QED BY <3>1, <3>2
  <2> QED BY <2>1, <2>2
<1>8. Remapped(CurrentAll(us), vmap) = [i \in DOMAIN us |-> OnSide(side, BB, IIT, us[i])]
  <2>1. Remapped(CurrentAll(us), vmap) =
          [i \in DOMAIN us |-> IF Current(us[i]) \in DOMAIN vmap THEN vmap[Current(us[i])] ELSE Current(us[i])]
    BY DEF Remapped, CurrentAll
  <2>2. \A i \in DOMAIN us : (IF Current(us[i]) \in DOMAIN vmap THEN vmap[Current(us[i])] ELSE Current(us[i]))
                               = OnSide(side, BB, IIT, us[i])
    BY <1>4, <1>7
  <2> QED BY <2>1, <2>2
<1> QED BY <1>2, <1>3, <1>8

\* The maps after a step.
LEMMA MapOfVoid ==
  ASSUME AtWork, Instr \in F.void, NEW side, NEW vmap, MapOf(side, vmap, IIT - 1), NEW y
  PROVE  MapOf(side, Put(vmap, Instr, y), IIT)
<1>1. PICK m : m = Put(vmap, Instr, y)
  OBVIOUS
<1>2. DOMAIN m = DOMAIN vmap \cup {Instr} /\ \A v \in DOMAIN vmap : v # Instr => m[v] = vmap[v]
  BY <1>1 DEF Put
<1>3. IIT \in 1..Len(Body(BB)) /\ Len(Body(BB)) \in Nat /\ Instr = Body(BB)[IIT] /\ Instr = <<"inst", Instr[2]>>
  BY DEF AtWork
<1>4. \A k \in 1..IIT : k \in 1..(IIT - 1) \/ k = IIT
  BY <1>3
<1>5. \A k \in 1..(IIT - 1) : k \in 1..IIT
  BY <1>3
<1>6. IIT \in 1..IIT
  BY <1>3
<1>7. \A n : <<"phi", n>> # Instr
  BY <1>3
<1>8. ASSUME NEW v \in DOMAIN m
      PROVE  \E k \in 1..IIT : v = IF Body(BB)[k] \in F.void THEN Body(BB)[k] ELSE <<"phi", Body(BB)[k][2]>>
  <2>1. CASE v = Instr
    BY <1>3, <1>6, <2>1
  <2>2. CASE v # Instr
    BY <1>2, <1>5, <2>2 DEF MapOf
  <2> QED BY <2>1, <2>2
<1>9. ASSUME NEW k \in 1..IIT, Body(BB)[k] \notin F.void
      PROVE  <<"phi", Body(BB)[k][2]>> \in DOMAIN m /\ m[<<"phi", Body(BB)[k][2]>>] = <<side, Body(BB)[k][2]>>
  <2>1. k \in 1..(IIT - 1)
    BY <1>3, <1>4, <1>9
  <2> QED BY <1>2, <1>7, <1>9, <2>1 DEF MapOf
<1>10. MapOf(side, m, IIT)
  BY <1>8, <1>9 DEF MapOf
<1> QED BY <1>1, <1>10

\* And after a clone of a value.
LEMMA MapOfValue ==
  ASSUME DupInv, AtWork, Instr \notin F.void, NEW side, NEW vmap, MapOf(side, vmap, IIT - 1)
  PROVE  MapOf(side, Followed(Put(vmap, Instr, <<side, Instr[2]>>), Instr, <<"phi", Instr[2]>>), IIT)
<1>1. PICK m, phi, p, clone : /\ phi = <<"phi", Instr[2]>> /\ clone = <<side, Instr[2]>>
                      /\ p = Put(vmap, Instr, clone)
                      /\ m = Followed(p, Instr, phi)
  OBVIOUS
<1>2. DOMAIN p = DOMAIN vmap \cup {Instr} /\ p[Instr] = clone /\ \A v \in DOMAIN vmap : v # Instr => p[v] = vmap[v]
  BY <1>1 DEF Put
<1>3. m = Put([v \in DOMAIN p \ {Instr} |-> p[v]], phi, clone)
  BY <1>1, <1>2 DEF Followed
<1>4. /\ DOMAIN m = (DOMAIN p \ {Instr}) \cup {phi} /\ m[phi] = clone
      /\ \A v \in DOMAIN p \ {Instr} : v # phi => m[v] = p[v]
  BY <1>3 DEF Put
<1>5. IIT \in 1..Len(Body(BB)) /\ Len(Body(BB)) \in Nat /\ Instr = Body(BB)[IIT] /\ Instr = <<"inst", Instr[2]>>
      /\ BB \in F.block /\ F \in RIVFunctions
  BY DEF AtWork, DupInv
<1>6. /\ \A k \in 1..IIT : k \in 1..(IIT - 1) \/ k = IIT
      /\ \A k \in 1..(IIT - 1) : k \in 1..IIT /\ k \in 1..Len(Body(BB)) /\ k # IIT
      /\ IIT \in 1..IIT
  BY <1>5
<1>7. \A n : <<"phi", n>> # Instr
  BY <1>5
<1>8. ASSUME NEW v \in DOMAIN m
      PROVE  \E k \in 1..IIT : v = IF Body(BB)[k] \in F.void THEN Body(BB)[k] ELSE <<"phi", Body(BB)[k][2]>>
  <2>1. CASE v = phi
    BY <1>1, <1>5, <1>6, <2>1
  <2>2. CASE v # phi
    <3>1. v \in DOMAIN vmap
      BY <1>2, <1>4, <2>2
    <3> QED BY <1>6, <3>1 DEF MapOf
  <2> QED BY <2>1, <2>2
<1>9. ASSUME NEW k \in 1..IIT, Body(BB)[k] \notin F.void
      PROVE  <<"phi", Body(BB)[k][2]>> \in DOMAIN m /\ m[<<"phi", Body(BB)[k][2]>>] = <<side, Body(BB)[k][2]>>
  <2>1. CASE k = IIT
    BY <1>1, <1>4, <1>5, <2>1
  <2>2. CASE k # IIT
    <3>1. k \in 1..(IIT - 1) /\ k \in 1..Len(Body(BB))
      BY <1>6, <2>2
    <3>2. Body(BB)[k] = <<"inst", Body(BB)[k][2]>> /\ Body(BB)[k] # Body(BB)[IIT]
      <4>1. Body(BB)[k] \in DOMAIN F.uses
        BY <1>5, <3>1, BlockIs
      <4>2. Body(BB)[k] = <<"inst", Body(BB)[k][2]>>
        BY <1>5, <4>1, FunctionIs
      <4>3. Body(BB)[k] # Body(BB)[IIT]
        BY <1>5, <2>2, <3>1, OnePlaceEach
      <4> QED BY <4>2, <4>3
    <3>3. PICK q : q = <<"phi", Body(BB)[k][2]>>
      OBVIOUS
    <3>4. q # phi /\ q # Instr
      BY <1>1, <1>5, <1>7, <3>2, <3>3
    <3>5. q \in DOMAIN vmap /\ vmap[q] = <<side, Body(BB)[k][2]>>
      BY <1>9, <3>1, <3>3 DEF MapOf
    <3>6. q \in DOMAIN m /\ m[q] = vmap[q]
      BY <1>2, <1>4, <3>4, <3>5
    <3> QED BY <3>3, <3>5, <3>6
  <2> QED BY <2>1, <2>2
<1>10. MapOf(side, m, IIT)
  BY <1>8, <1>9 DEF MapOf
<1> QED BY <1>1, <1>10

\* What a step of the clone loop does to the places of instructions and to what
\* they are applied to.
Renewed(v) == IF v = Instr /\ Instr \notin F.void THEN <<"phi", Instr[2]>> ELSE v

\* What a step of the clone loop may change or make.
Touched == {Instr, <<"phi", Instr[2]>>, ThenClone, ElseClone}

\* What both kinds of clones do to the places.
CloneStep ==
  /\ F' = F /\ pc = "clone" /\ pc' = "clone" /\ next' = next /\ Targets' = Targets /\ BB' = BB
  /\ IIT' = IIT + 1
  /\ DOMAIN M'.code = DOMAIN M.code
  /\ \A x \in DOMAIN M.code : x \notin {Then, Else, Tail_} => M'.code[x] = M.code[x]
  /\ \A k \in 1..(IIT - 1) : M'.code[Tail_].body[k] = M.code[Tail_].body[k]
  /\ Instr \notin F.void => M'.code[Tail_].body[IIT] = <<"phi", Instr[2]>>
  /\ \A v : v \in DOMAIN ReMapper' <=> v \in DOMAIN ReMapper \/ (v = Instr /\ Instr \notin F.void)
  /\ \A v \in DOMAIN ReMapper' : ReMapper'[v] = <<"phi", v[2]>>
  /\ \A v \in DOMAIN M.uses : v \notin Touched =>
       /\ v \in DOMAIN M'.uses
       /\ \A I, g : M.uses[v] = [k \in I |-> g[k]] => M'.uses[v] = [k \in I |-> Renewed(g[k])]
  /\ \A us : us = F.uses[Instr] =>
       /\ M'.uses[ThenClone] = [i \in DOMAIN us |-> Renewed(OnSide("then", BB, IIT, us[i]))]
       /\ M'.uses[ElseClone] = [i \in DOMAIN us |-> Renewed(OnSide("else", BB, IIT, us[i]))]

\* What is current after a step of the clone loop.
LEMMA CurrentThen ==
  ASSUME DupInv, PlacesInv, AtWork, CloneStep
  PROVE  /\ \A v : Current(v)' = Renewed(Current(v))
         /\ \A side, b, k, v : side # "inst" => OnSide(side, b, k, v)' = Renewed(OnSide(side, b, k, v))
         /\ \A v : HasClone(v)' <=> HasClone(v) \/ v = Instr
         /\ Cut' = Cut /\ \A b : Body(b)' = Body(b) /\ (BeingCloned(b)' <=> BeingCloned(b))
         /\ Cloned(BB) = IIT - 1 /\ \A b : Cloned(b)' = IF b = BB THEN IIT ELSE Cloned(b)
<1>1. /\ F' = F /\ pc = "clone" /\ pc' = "clone" /\ next' = next /\ Targets' = Targets /\ BB' = BB
      /\ IIT' = IIT + 1 /\ DOMAIN M'.code = DOMAIN M.code
      /\ \A v : v \in DOMAIN ReMapper' <=> v \in DOMAIN ReMapper \/ (v = Instr /\ Instr \notin F.void)
      /\ \A v \in DOMAIN ReMapper' : ReMapper'[v] = <<"phi", v[2]>>
  BY DEF CloneStep
<1>2. /\ Replaced /\ Instr = <<"inst", Instr[2]>> /\ IIT \in Nat /\ BB \in Cut
      /\ Instr = Body(BB)[IIT] /\ IIT \in 1..Len(Body(BB))
  BY DEF PlacesInv, AtWork
<1>3. ~HasClone(Instr) /\ Cloned(BB) = IIT - 1
  BY <1>1, NotYet
<1>4. Instr \notin DOMAIN ReMapper
  BY <1>2, <1>3 DEF Replaced
<1>5. \A v : Current(v)' = Renewed(Current(v))
  <2> SUFFICES ASSUME NEW v PROVE Current(v)' = Renewed(Current(v))
    OBVIOUS
  <2>1. CASE v \in DOMAIN ReMapper
    <3>1. Current(v) = <<"phi", v[2]>> /\ Current(v)' = <<"phi", v[2]>>
      BY <1>1, <1>2, <2>1 DEF Current, Replaced
    <3>2. <<"phi", v[2]>> # Instr
      BY <1>2
    <3> QED BY <3>1, <3>2 DEF Renewed
  <2>2. CASE v \notin DOMAIN ReMapper
    <3>1. Current(v) = v
      BY <2>2 DEF Current
    <3>2. Current(v)' = IF v = Instr /\ Instr \notin F.void THEN <<"phi", v[2]>> ELSE v
      BY <1>1, <2>2 DEF Current
    <3> QED BY <3>1, <3>2 DEF Renewed
  <2> QED BY <2>1, <2>2
<1>6. \A b : Body(b)' = Body(b) /\ (BeingCloned(b)' <=> BeingCloned(b))
  BY <1>1 DEF Body, BeingCloned
<1>7. ASSUME NEW side, NEW b, NEW k, NEW v, side # "inst"
      PROVE  OnSide(side, b, k, v)' = Renewed(OnSide(side, b, k, v))
  <2>1. <<side, v[2]>> # Instr
    BY <1>2, <1>7
  <2>2. Renewed(<<side, v[2]>>) = <<side, v[2]>>
    BY <2>1 DEF Renewed
  <2>3. Current(v)' = Renewed(Current(v))
    BY <1>5
  <2>4. CASE v \notin F.void /\ \E j \in 1..(k - 1) : v = Body(b)[j]
    BY <1>1, <1>6, <2>2, <2>4 DEF OnSide
  <2>5. CASE ~(v \notin F.void /\ \E j \in 1..(k - 1) : v = Body(b)[j])
    BY <1>1, <1>6, <2>3, <2>5 DEF OnSide
  <2> QED BY <2>4, <2>5
<1>8. Cut' = Cut
  BY <1>1 DEF Cut
<1>9. ASSUME NEW b PROVE Cloned(b)' = IF b = BB THEN IIT ELSE Cloned(b)
  <2>1. CASE b = BB
    <3>1. pc' = "clone" /\ b = BB' /\ IIT' - 1 = IIT
      BY <1>1, <1>2, <2>1
    <3>2. Cloned(b)' = IIT
      BY <3>1 DEF Cloned
    <3> QED BY <2>1, <3>2
  <2>2. CASE b # BB
    <3>1. b # BB' /\ Body(b)' = Body(b)
      BY <1>1, <1>6, <2>2
    <3>2. Cloned(b)' = Len(Body(b)) /\ Cloned(b) = Len(Body(b))
      BY <2>2, <3>1 DEF Cloned
    <3> QED BY <2>2, <3>2
  <2> QED BY <2>1, <2>2
<1>10. ASSUME NEW v PROVE HasClone(v)' <=> HasClone(v) \/ v = Instr
  <2>1. ASSUME HasClone(v)' PROVE HasClone(v) \/ v = Instr
    <3>1. PICK b \in Cut : \E k \in 1..Cloned(b)' : v = Body(b)[k]
      BY <1>6, <1>8, <2>1 DEF HasClone
    <3>2. PICK k \in 1..Cloned(b)' : v = Body(b)[k]
      BY <3>1
    <3>3. CASE b = BB
      <4>1. Cloned(b)' = IIT
        BY <1>9, <3>3
      <4>2. k = IIT \/ k \in 1..Cloned(BB)
        BY <1>2, <1>3, <3>2, <4>1
      <4> QED BY <1>2, <3>2, <3>3, <4>2 DEF HasClone
    <3>4. CASE b # BB
      BY <1>9, <3>2, <3>4 DEF HasClone
    <3> QED BY <3>3, <3>4
  <2>2. ASSUME HasClone(v) PROVE HasClone(v)'
    <3>1. PICK b \in Cut : \E k \in 1..Cloned(b) : v = Body(b)[k]
      BY <2>2 DEF HasClone
    <3>2. PICK k \in 1..Cloned(b) : v = Body(b)[k]
      BY <3>1
    <3>3. k \in 1..Cloned(b)'
      <4>1. CASE b = BB
        <5>1. Cloned(b)' = IIT
          BY <1>9, <4>1
        <5>2. k \in 1..(IIT - 1)
          BY <1>3, <3>2, <4>1
        <5> QED BY <1>2, <5>1, <5>2
      <4>2. CASE b # BB
        BY <1>9, <3>2, <4>2
      <4> QED BY <4>1, <4>2
    <3> QED BY <1>6, <1>8, <3>2, <3>3 DEF HasClone
  <2>3. ASSUME v = Instr PROVE HasClone(v)'
    <3>1. PICK B : B = BB
      OBVIOUS
    <3>3. Cloned(B)' = IIT
      BY <1>9, <3>1
    <3>4. IIT \in 1..IIT /\ B \in Cut' /\ v = (Body(B)')[IIT]
      BY <1>2, <1>6, <1>8, <2>3, <3>1
    <3> QED BY <3>3, <3>4 DEF HasClone
  <2> QED BY <2>1, <2>2, <2>3
<1> QED BY <1>3, <1>5, <1>6, <1>7, <1>8, <1>9, <1>10

\* A step of the clone loop keeps the places, whichever kind it is.
LEMMA PlacesClone ==
  ASSUME DupInv, PlacesInv, AtWork, CloneStep, Maps'
  PROVE  PlacesInv'
<1>1. /\ F' = F /\ pc = "clone" /\ pc' = "clone" /\ next' = next /\ Targets' = Targets /\ BB' = BB
      /\ IIT' = IIT + 1 /\ DOMAIN M'.code = DOMAIN M.code
      /\ \A x \in DOMAIN M.code : x \notin {Then, Else, Tail_} => M'.code[x] = M.code[x]
      /\ \A k \in 1..(IIT - 1) : M'.code[Tail_].body[k] = M.code[Tail_].body[k]
      /\ Instr \notin F.void => M'.code[Tail_].body[IIT] = <<"phi", Instr[2]>>
      /\ \A v : v \in DOMAIN ReMapper' <=> v \in DOMAIN ReMapper \/ (v = Instr /\ Instr \notin F.void)
      /\ \A v \in DOMAIN ReMapper' : ReMapper'[v] = <<"phi", v[2]>>
  BY DEF CloneStep
<1>2. \A v \in DOMAIN M.uses : v \notin Touched =>
        /\ v \in DOMAIN M'.uses
        /\ \A I, g : M.uses[v] = [k \in I |-> g[k]] => M'.uses[v] = [k \in I |-> Renewed(g[k])]
  BY DEF CloneStep
<1>3. \A us : us = F.uses[Instr] =>
        /\ M'.uses[ThenClone] = [i \in DOMAIN us |-> Renewed(OnSide("then", BB, IIT, us[i]))]
        /\ M'.uses[ElseClone] = [i \in DOMAIN us |-> Renewed(OnSide("else", BB, IIT, us[i]))]
  BY DEF CloneStep
<1>4. /\ \A v : Current(v)' = Renewed(Current(v))
      /\ \A side, b, k, v : side # "inst" => OnSide(side, b, k, v)' = Renewed(OnSide(side, b, k, v))
  BY CurrentThen
<1>5. /\ \A v : HasClone(v)' <=> HasClone(v) \/ v = Instr
      /\ Cut' = Cut /\ \A b : Body(b)' = Body(b) /\ (BeingCloned(b)' <=> BeingCloned(b))
      /\ Cloned(BB) = IIT - 1 /\ \A b : Cloned(b)' = IF b = BB THEN IIT ELSE Cloned(b)
  BY CurrentThen
<1>6. /\ Instr = <<"inst", Instr[2]>> /\ IIT \in Nat /\ BB \in Cut /\ Instr = Body(BB)[IIT]
      /\ IIT \in 1..Len(Body(BB)) /\ F \in RIVFunctions /\ BB \in F.block
      /\ Replaced /\ Parts /\ OldUses
  BY DEF PlacesInv, AtWork, DupInv
<1>7. Replaced'
  BY <1>1, <1>5, <1>6 DEF Replaced
<1>8. Parts'
  BY <1>1, <1>5, <1>6 DEF Parts
<1>9. OldUses'
  <2> SUFFICES ASSUME NEW v \in DOMAIN F.uses, ~HasClone(v), v # Instr
               PROVE  v \in DOMAIN M'.uses /\ M'.uses[v] = CurrentAll(F.uses[v])'
    BY <1>1, <1>5 DEF OldUses
  <2>1. v \in DOMAIN M.uses /\ M.uses[v] = CurrentAll(F.uses[v])
    BY <1>6 DEF OldUses
  <2>2. v[1] = "inst"
    BY <1>6, FunctionIs
  <2>3. v \notin Touched
    BY <1>6, <2>2 DEF Touched, ThenClone, ElseClone
  <2>4. PICK us : us = F.uses[v]
    OBVIOUS
  <2>5. PICK g : g = [k \in DOMAIN us |-> Current(us[k])]
    OBVIOUS
  <2>6. M.uses[v] = [k \in DOMAIN us |-> g[k]]
    BY <2>1, <2>4, <2>5 DEF CurrentAll
  <2>7. M'.uses[v] = [k \in DOMAIN us |-> Renewed(g[k])] /\ v \in DOMAIN M'.uses
    BY <1>2, <2>1, <2>3, <2>6
  <2>8. [k \in DOMAIN us |-> Renewed(g[k])] = [k \in DOMAIN us |-> Current(us[k])']
    BY <1>4, <2>5
  <2>9. CurrentAll(F.uses[v])' = [k \in DOMAIN us |-> Current(us[k])']
    BY <1>1, <2>4 DEF CurrentAll, Current
  <2> QED BY <2>7, <2>8, <2>9
<1>10. TargetsReached'
  BY <1>1, <1>5 DEF PlacesInv, TargetsReached, ReachableIntegers
<1>11. ASSUME NEW b \in Cut PROVE Tests(b)'
  <2>1. Tests(b) /\ b \in F.block
    BY DEF PlacesInv, Cut
  <2>2. bb(b) \in DOMAIN M.code /\ bb(b) \notin {Then, Else, Tail_}
    BY <2>1 DEF DupInv, HeadsThere, bb, Then, Else, Tail_
  <2>3. M'.code[bb(b)] = M.code[bb(b)]
    BY <1>1, <2>2
  <2>4. ASSUME NEW p \in {"isnull", "test", "br"} PROVE <<p, b>> \notin Touched
    BY <1>6 DEF Touched, ThenClone, ElseClone
  <2>5. PICK i \in 1..Len(Targets) : Targets[i][1] = b /\ M.uses[<<"isnull", b>>] = <<Current(Targets[i][2])>>
    BY <2>1 DEF Tests
  <2>6. ASSUME NEW v \in DOMAIN M.uses, v \notin Touched, NEW w, M.uses[v] = <<w>>
        PROVE  M'.uses[v] = <<Renewed(w)>>
    <3>1. PICK g : g = <<w>>
      OBVIOUS
    <3>2. <<w>> = [k \in {1} |-> g[k]] /\ <<Renewed(w)>> = [k \in {1} |-> Renewed(g[k])]
      BY <3>1
    <3> QED BY <1>2, <2>6, <3>2
  <2>7. M'.uses[<<"test", b>>] = << <<"isnull", b>> >>
    <3>1. M'.uses[<<"test", b>>] = <<Renewed(<<"isnull", b>>)>>
      BY <2>1, <2>4, <2>6 DEF Tests
    <3>2. <<"isnull", b>> # Instr
      BY <1>6
    <3> QED BY <3>1, <3>2 DEF Renewed
  <2>8. M'.uses[<<"br", b>>] = <<>>
    <3>1. M.uses[<<"br", b>>] = <<>> /\ <<"br", b>> \in DOMAIN M.uses
      BY <2>1 DEF Tests
    <3>2. PICK g, I, v : g = [k \in {} |-> 0] /\ I = {} /\ v = <<"br", b>>
      OBVIOUS
    <3>3. M.uses[v] = [k \in I |-> g[k]] /\ <<>> = [k \in I |-> Renewed(g[k])]
      BY <3>1, <3>2
    <3>4. v \in DOMAIN M.uses /\ v \notin Touched
      BY <2>4, <3>1, <3>2
    <3>5. M'.uses[v] = [k \in I |-> Renewed(g[k])]
      BY <1>2, <3>3, <3>4
    <3> QED BY <3>2, <3>3, <3>5
  <2>9. M'.uses[<<"isnull", b>>] = <<Current(Targets[i][2])'>>
    <3>1. M'.uses[<<"isnull", b>>] = <<Renewed(Current(Targets[i][2]))>>
      BY <2>1, <2>4, <2>5, <2>6 DEF Tests
    <3>2. PICK w : w = Targets[i][2]
      OBVIOUS
    <3>3. Current(Targets[i][2])' = Current(w)' /\ Current(Targets[i][2]) = Current(w)
      BY <1>1, <3>2 DEF Current
    <3> QED BY <1>4, <3>1, <3>2, <3>3
  <2>10. /\ <<"isnull", b>> \in DOMAIN M'.uses /\ <<"test", b>> \in DOMAIN M'.uses /\ <<"br", b>> \in DOMAIN M'.uses
    BY <1>2, <2>1, <2>4 DEF Tests
  <2>11. (\E j \in 1..Len(Targets) : Targets[j][1] = b /\ M.uses[<<"isnull", b>>] = <<Current(Targets[j][2])>>)'
    BY <1>1, <2>5, <2>9
  <2> QED BY <2>1, <2>3, <2>7, <2>8, <2>10, <2>11 DEF Tests
<1>12. ASSUME NEW b \in Cut PROVE CloneUses(b)'
  <2>1. CloneUses(b) /\ b \in F.block /\ Halves(b)
    BY DEF PlacesInv, Cut, DupInv
  <2> SUFFICES ASSUME NEW side \in {"then", "else"}, NEW k \in 1..Cloned(b)'
               PROVE  M'.uses[<<side, Body(b)[k][2]>>] =
                        [i \in DOMAIN F.uses[Body(b)[k]] |-> OnSide(side, b, k, F.uses[Body(b)[k]][i])']
    BY <1>1, <1>5 DEF CloneUses
  <2>2. PICK us : us = F.uses[Body(b)[k]]
    OBVIOUS
  <2>3. ASSUME NEW i PROVE OnSide(side, b, k, F.uses[Body(b)[k]][i])' = Renewed(OnSide(side, b, k, us[i]))
    <3>1. PICK v : v = us[i]
      OBVIOUS
    <3>2. v = (F.uses[Body(b)[k]][i])'
      BY <1>1, <1>5, <2>2, <3>1
    <3>3. OnSide(side, b, k, F.uses[Body(b)[k]][i])' = OnSide(side, b, k, v)'
      BY <3>2 DEF OnSide, Current
    <3>4. side # "inst"
      OBVIOUS
    <3> QED BY <1>4, <3>1, <3>3, <3>4
  <2>4. CASE b = BB /\ k = IIT
    <3>1. <<side, Body(b)[k][2]>> = (IF side = "then" THEN ThenClone ELSE ElseClone) /\ us = F.uses[Instr]
      BY <1>6, <2>2, <2>4 DEF ThenClone, ElseClone
    <3>2. M'.uses[<<side, Body(b)[k][2]>>] = [i \in DOMAIN us |-> Renewed(OnSide(side, BB, IIT, us[i]))]
      <4>1. CASE side = "then"
        BY <1>3, <3>1, <4>1
      <4>2. CASE side = "else"
        BY <1>3, <3>1, <4>2
      <4> QED BY <4>1, <4>2
    <3>3. \A i : OnSide(side, BB, IIT, us[i]) = OnSide(side, b, k, us[i])
      BY <2>4
    <3> QED BY <2>2, <2>3, <3>2, <3>3
  <2>5. CASE ~(b = BB /\ k = IIT)
    <3>1. k \in 1..Cloned(b) /\ k \in 1..Len(Body(b))
      <4>1. CASE b = BB
        <5>2. Cloned(b)' = IIT
          BY <1>5, <4>1
        <5>3. Cloned(b) = IIT - 1 /\ k # IIT /\ Len(Body(b)) \in Nat
          BY <1>5, <2>5, <4>1 DEF AtWork
        <5> QED BY <1>6, <4>1, <5>2, <5>3
      <4>2. CASE b # BB
        BY <1>5, <4>2 DEF Cloned
      <4> QED BY <4>1, <4>2
    <3>2. Body(b)[k] # Instr
      <4>1. CASE b = BB
        BY <1>6, <2>1, <2>5, <3>1, <4>1, OnePlaceEach
      <4>2. CASE b # BB
        BY <1>6, <2>1, <3>1, <4>2, OnePlaceEach
      <4> QED BY <4>1, <4>2
    <3>3. Body(b)[k] = <<"inst", Body(b)[k][2]>>
      <4>1. Body(b)[k] \in DOMAIN F.uses
        BY <1>6, <2>1, <3>1, BlockIs
      <4> QED BY <1>6, <4>1, FunctionIs
    <3>4. PICK c : c = <<side, Body(b)[k][2]>>
      OBVIOUS
    <3>5. c \notin Touched
      <4>1. Body(b)[k][2] # Instr[2]
        BY <1>6, <3>2, <3>3
      <4> QED BY <1>6, <3>4, <4>1 DEF Touched, ThenClone, ElseClone
    <3>6. c \in DOMAIN M.uses
      BY <2>1, <3>1, <3>4 DEF Halves, CloneSide
    <3>7. PICK g : g = [i \in DOMAIN us |-> OnSide(side, b, k, us[i])]
      OBVIOUS
    <3>8. M.uses[c] = [i \in DOMAIN us |-> g[i]]
      BY <2>1, <2>2, <3>1, <3>4, <3>7 DEF CloneUses
    <3>9. M'.uses[c] = [i \in DOMAIN us |-> Renewed(g[i])]
      BY <1>2, <3>5, <3>6, <3>8
    <3> QED BY <2>2, <2>3, <3>4, <3>7, <3>9
  <2> QED BY <2>4, <2>5
<1>13. ASSUME NEW b \in Cut PROVE PhisThere(b)'
  <2>1. PhisThere(b) /\ b \in F.block /\ <<"tail", b>> \in DOMAIN M.code
    BY DEF PlacesInv, Cut
  <2>2. CASE b # BB
    <3>1. <<"tail", b>> \notin {Then, Else, Tail_}
      BY <2>2 DEF Then, Else, Tail_
    <3>2. M'.code[<<"tail", b>>] = M.code[<<"tail", b>>]
      BY <1>1, <2>1, <3>1
    <3> QED BY <1>1, <1>5, <2>1, <2>2, <3>2 DEF PhisThere
  <2>3. CASE b = BB
    <3>1. BeingCloned(b)' /\ BeingCloned(b) /\ <<"tail", b>> = Tail_
      BY <1>1, <2>3 DEF BeingCloned, Tail_
    <3>2. Cloned(b)' = IIT
      BY <1>5, <2>3
    <3>3. ASSUME NEW k \in 1..IIT, Body(b)[k] \notin F.void
          PROVE  M'.code[<<"tail", b>>].body[k] = <<"phi", Body(b)[k][2]>>
      <4>1. CASE k = IIT
        BY <1>1, <1>6, <2>3, <3>1, <3>3, <4>1
      <4>2. CASE k # IIT
        <5>1. k \in 1..(IIT - 1) /\ k \in 1..Cloned(b)
          BY <1>5, <1>6, <2>3, <4>2
        <5> QED BY <1>1, <2>1, <3>1, <3>3, <5>1 DEF PhisThere
      <4> QED BY <4>1, <4>2
    <3> QED BY <1>1, <1>5, <3>1, <3>2, <3>3 DEF PhisThere
  <2> QED BY <2>2, <2>3
<1> QED BY <1>5, <1>7, <1>8, <1>9, <1>10, <1>11, <1>12, <1>13 DEF PlacesInv

\* An instruction without a value: its clones need no phi.
LEMMA CloneVoidPlaces == DupInv /\ PlacesInv /\ CloneVoid => PlacesInv'
<1> SUFFICES ASSUME DupInv, PlacesInv, CloneVoid PROVE PlacesInv'
  OBVIOUS
<1>1. /\ pc = "clone" /\ pc' = "clone" /\ IIT <= Len(M.code[Tail_].body) /\ IIT' = IIT + 1
      /\ F' = F /\ next' = next /\ Targets' = Targets /\ BB' = BB /\ M' = WithClones
      /\ ReMapper' = ReMapper /\ TailVMap' = TailVMap /\ ToRemove' = ToRemove \cup {Instr} /\ Instr \in F.void
      /\ ThenVMap' = Put(ThenVMap, Instr, ThenClone) /\ ElseVMap' = Put(ElseVMap, Instr, ElseClone)
  BY DEF CloneVoid, rivVars, BB, ThenClone, ElseClone
<1>2. AtWork
  BY <1>1, IsAtWork
<1>3. WithBoth(M')
  BY <1>1, <1>2, ClonesAre
<1>4. Tail_ \in DOMAIN M.code /\ Tail_ \notin {Then, Else}
  BY <1>2 DEF AtWork, Cut, Tail_, Then, Else
<1>5. M'.code[Tail_] = M.code[Tail_]
  BY <1>3, <1>4 DEF WithBoth
<1>6. /\ MapOf("then", ThenVMap, IIT - 1) /\ MapOf("else", ElseVMap, IIT - 1) /\ IIT \in Nat
      /\ \A v \in DOMAIN TailVMap : v[1] = "phi" /\ TailVMap[v] = v
      /\ ToRemove \subseteq F.void
  BY <1>1, <1>2 DEF PlacesInv, Maps, AtWork
<1>7. \A v : Renewed(v) = v
  BY <1>1 DEF Renewed
<1>8. ASSUME NEW us, us = F.uses[Instr]
      PROVE  /\ M'.uses[ThenClone] = [i \in DOMAIN us |-> Renewed(OnSide("then", BB, IIT, us[i]))]
             /\ M'.uses[ElseClone] = [i \in DOMAIN us |-> Renewed(OnSide("else", BB, IIT, us[i]))]
  <2>1. Remapped(M.uses[Instr], ThenVMap) = [i \in DOMAIN us |-> OnSide("then", BB, IIT, us[i])]
    BY <1>1, <1>2, <1>6, <1>8, CloneOperands
  <2>2. Remapped(M.uses[Instr], ElseVMap) = [i \in DOMAIN us |-> OnSide("else", BB, IIT, us[i])]
    BY <1>1, <1>2, <1>6, <1>8, CloneOperands
  <2> QED BY <1>3, <1>7, <2>1, <2>2 DEF WithBoth
<1>9. ASSUME NEW v \in DOMAIN M.uses, v \notin Touched
      PROVE  /\ v \in DOMAIN M'.uses
             /\ \A I, g : M.uses[v] = [k \in I |-> g[k]] => M'.uses[v] = [k \in I |-> Renewed(g[k])]
  <2>1. v \in DOMAIN M'.uses /\ M'.uses[v] = M.uses[v]
    BY <1>3, <1>9 DEF WithBoth, Touched
  <2> QED BY <1>7, <2>1
<1>10. CloneStep
  <2>1. /\ DOMAIN M'.code = DOMAIN M.code
        /\ \A x \in DOMAIN M.code : x \notin {Then, Else, Tail_} => M'.code[x] = M.code[x]
    BY <1>3 DEF WithBoth
  <2>2. \A v \in DOMAIN ReMapper : ReMapper[v] = <<"phi", v[2]>>
    BY DEF PlacesInv, Replaced
  <2> QED BY <1>1, <1>5, <1>8, <1>9, <2>1, <2>2 DEF CloneStep
<1>11. Maps'
  <2>1. MapOf("then", ThenVMap', IIT) /\ MapOf("else", ElseVMap', IIT)
    BY <1>1, <1>2, <1>6, MapOfVoid
  <2>2. MapOf("then", ThenVMap, IIT - 1)' /\ MapOf("else", ElseVMap, IIT - 1)'
    <3>1. IIT' - 1 = IIT /\ Body(BB)' = Body(BB)
      BY <1>1, <1>6 DEF Body
    <3> QED BY <1>1, <2>1, <3>1 DEF MapOf
  <2> QED BY <1>1, <1>6, <2>2 DEF Maps
<1> QED BY <1>2, <1>10, <1>11, PlacesClone

\* What the replacement of an instruction by a phi leaves.
LEMMA CloneValueIs ==
  ASSUME DupInv, CloneValue, NEW W, W = WithClones, NEW phi, phi = <<"phi", Instr[2]>>,
         NEW one, one = Put(NoMap, Instr, phi)
  PROVE  /\ AtWork /\ WithBoth(W)
         /\ DOMAIN M'.code = DOMAIN M.code
         /\ \A x \in DOMAIN M.code : x # Tail_ => M'.code[x] = W.code[x]
         /\ M'.code[Tail_].body = [M.code[Tail_].body EXCEPT ![IIT] = phi]
         /\ DOMAIN M'.uses = (DOMAIN W.uses \cup {phi}) \ {Instr}
         /\ \A v \in DOMAIN M'.uses :
              M'.uses[v] = Remapped(IF v = phi THEN <<ThenClone, ElseClone>> ELSE W.uses[v], one)
<1> DEFINE uses == Put(W.uses, phi, <<ThenClone, ElseClone>>)
<1>1. /\ pc = "clone" /\ IIT <= Len(M.code[Tail_].body)
      /\ M' = [W EXCEPT !.code[Tail_].body[IIT] = phi,
                        !.uses = [v \in DOMAIN uses \ {Instr} |-> Remapped(uses[v], one)],
                        !.from = Put(@, phi, <<Then, Else>>)]
  BY DEF CloneValue, ThenClone, ElseClone
<1>2. AtWork
  BY <1>1, IsAtWork
<1>3. WithBoth(W)
  BY <1>1, <1>2, ClonesAre
<1>4. Tail_ \in DOMAIN M.code /\ Tail_ \notin {Then, Else}
  BY <1>2 DEF AtWork, Cut, Tail_, Then, Else
<1>5. /\ W = [code |-> W.code, uses |-> W.uses, from |-> M.from, succ |-> M.succ]
      /\ DOMAIN W.code = DOMAIN M.code /\ W.code[Tail_] = M.code[Tail_]
  BY <1>3, <1>4 DEF WithBoth
<1>6. PICK code, newuses, from : /\ code = [W.code EXCEPT ![Tail_].body[IIT] = phi]
                     /\ newuses = [v \in DOMAIN uses \ {Instr} |-> Remapped(uses[v], one)]
                     /\ from = Put(M.from, phi, <<Then, Else>>)
  OBVIOUS
<1>7. M'.code = code /\ M'.uses = newuses
  <2>1. PICK wc, wu, mf, ms : W = [code |-> wc, uses |-> wu, from |-> mf, succ |-> ms]
                             /\ wc = W.code /\ wu = W.uses /\ mf = M.from /\ ms = M.succ
    BY <1>5
  <2>2. M' = [[[W EXCEPT !.code = code] EXCEPT !.uses = newuses] EXCEPT !.from = from]
    <3> HIDE DEF uses
    <3>1. [W EXCEPT !.code[Tail_].body[IIT] = phi] = [W EXCEPT !.code = code]
      BY <1>6, <2>1
    <3>2. W.from = M.from
      BY <2>1
    <3> QED
      BY <1>1, <1>6, <2>1, <3>1, <3>2
  <2> QED
    BY <2>1, <2>2
<1>8. /\ DOMAIN code = DOMAIN M.code
      /\ \A x \in DOMAIN M.code : x # Tail_ => code[x] = W.code[x]
      /\ code[Tail_] = [M.code[Tail_] EXCEPT !.body = [@ EXCEPT ![IIT] = phi]]
  BY <1>4, <1>5, <1>6
<1>9. code[Tail_].body = [M.code[Tail_].body EXCEPT ![IIT] = phi]
  <2>1. PICK tail : tail = M.code[Tail_].body
    OBVIOUS
  <2>2. M.code[Tail_] = [phis |-> M.code[Tail_].phis, body |-> tail, term |-> M.code[Tail_].term]
    BY <1>2, <2>1 DEF AtWork, Halves, Tail_
  <2> QED BY <1>8, <2>1, <2>2
<1>10. /\ DOMAIN newuses = (DOMAIN W.uses \cup {phi}) \ {Instr}
       /\ \A v \in DOMAIN newuses : newuses[v] =
            Remapped(IF v = phi THEN <<ThenClone, ElseClone>> ELSE W.uses[v], one)
  BY <1>6 DEF Put
<1> QED BY <1>2, <1>3, <1>7, <1>8, <1>9, <1>10

\* An instruction with a value: a phi takes its place and its uses.
LEMMA CloneValuePlaces == DupInv /\ PlacesInv /\ CloneValue => PlacesInv'
<1> SUFFICES ASSUME DupInv, PlacesInv, CloneValue PROVE PlacesInv'
  OBVIOUS
<1>1. PICK phi, one, W : /\ phi = <<"phi", Instr[2]>> /\ one = Put(NoMap, Instr, phi)
                        /\ W = WithClones
  OBVIOUS
<1>2. /\ pc = "clone" /\ pc' = "clone" /\ IIT' = IIT + 1 /\ Instr \notin F.void
      /\ F' = F /\ next' = next /\ Targets' = Targets /\ BB' = BB /\ ToRemove' = ToRemove
      /\ ThenVMap' = Followed(Put(ThenVMap, Instr, ThenClone), Instr, phi)
      /\ ElseVMap' = Followed(Put(ElseVMap, Instr, ElseClone), Instr, phi)
      /\ TailVMap' = Followed(Put(TailVMap, Instr, phi), Instr, phi)
      /\ ReMapper' = Put(ReMapper, Instr, phi)
  BY <1>1 DEF CloneValue, rivVars, BB, ThenClone, ElseClone
<1>3. /\ AtWork /\ WithBoth(W)
      /\ DOMAIN M'.code = DOMAIN M.code
      /\ \A x \in DOMAIN M.code : x # Tail_ => M'.code[x] = W.code[x]
      /\ M'.code[Tail_].body = [M.code[Tail_].body EXCEPT ![IIT] = phi]
      /\ DOMAIN M'.uses = (DOMAIN W.uses \cup {phi}) \ {Instr}
      /\ \A v \in DOMAIN M'.uses :
           M'.uses[v] = Remapped(IF v = phi THEN <<ThenClone, ElseClone>> ELSE W.uses[v], one)
  BY <1>1, CloneValueIs
<1>4. /\ Instr = <<"inst", Instr[2]>> /\ IIT \in 1..Len(Body(BB)) /\ Len(Body(BB)) \in Nat
      /\ DOMAIN M.code[Tail_].body = 1..Len(Body(BB))
      /\ phi # ThenClone /\ phi # ElseClone /\ ThenClone # Instr /\ ElseClone # Instr
  BY <1>1, <1>3 DEF AtWork, ThenClone, ElseClone
<1>5. /\ MapOf("then", ThenVMap, IIT - 1) /\ MapOf("else", ElseVMap, IIT - 1)
      /\ \A v \in DOMAIN TailVMap : v[1] = "phi" /\ TailVMap[v] = v
      /\ ToRemove \subseteq F.void
  BY <1>2 DEF PlacesInv, Maps
<1>6. \A I, g : Remapped([k \in I |-> g[k]], one) = [k \in I |-> Renewed(g[k])]
  <2> SUFFICES ASSUME NEW I, NEW g PROVE Remapped([k \in I |-> g[k]], one) = [k \in I |-> Renewed(g[k])]
    OBVIOUS
  <2>1. PICK s : s = [k \in I |-> g[k]]
    OBVIOUS
  <2>2. Remapped(s, one) = [k \in DOMAIN s |-> IF s[k] = Instr THEN phi ELSE s[k]]
    BY <1>1, OneMapped
  <2> QED BY <1>1, <1>2, <2>1, <2>2 DEF Renewed
<1>7. ASSUME NEW us, us = F.uses[Instr]
      PROVE  /\ M'.uses[ThenClone] = [i \in DOMAIN us |-> Renewed(OnSide("then", BB, IIT, us[i]))]
             /\ M'.uses[ElseClone] = [i \in DOMAIN us |-> Renewed(OnSide("else", BB, IIT, us[i]))]
  <2>1. ASSUME NEW side \in {"then", "else"}, NEW vmap, MapOf(side, vmap, IIT - 1)
        PROVE  Remapped(Remapped(M.uses[Instr], vmap), one) =
                 [i \in DOMAIN us |-> Renewed(OnSide(side, BB, IIT, us[i]))]
    <3>1. Remapped(M.uses[Instr], vmap) = [i \in DOMAIN us |-> OnSide(side, BB, IIT, us[i])]
      BY <1>2, <1>3, <1>7, <2>1, CloneOperands
    <3>2. PICK g : g = [i \in DOMAIN us |-> OnSide(side, BB, IIT, us[i])]
      OBVIOUS
    <3>3. Remapped(M.uses[Instr], vmap) = [i \in DOMAIN us |-> g[i]]
      BY <3>1, <3>2
    <3>4. Remapped(Remapped(M.uses[Instr], vmap), one) = [i \in DOMAIN us |-> Renewed(g[i])]
      BY <1>6, <3>3
    <3> QED BY <3>2, <3>4
  <2>2. /\ M'.uses[ThenClone] = Remapped(W.uses[ThenClone], one)
        /\ M'.uses[ElseClone] = Remapped(W.uses[ElseClone], one)
    <3>1. ThenClone \in DOMAIN M'.uses /\ ElseClone \in DOMAIN M'.uses
      BY <1>3, <1>4 DEF WithBoth
    <3> QED BY <1>3, <1>4, <3>1
  <2>3. W.uses[ThenClone] = Remapped(M.uses[Instr], ThenVMap) /\ W.uses[ElseClone] = Remapped(M.uses[Instr], ElseVMap)
    BY <1>3 DEF WithBoth
  <2>4. M'.uses[ThenClone] = [i \in DOMAIN us |-> Renewed(OnSide("then", BB, IIT, us[i]))]
    BY <1>5, <2>1, <2>2, <2>3
  <2>5. M'.uses[ElseClone] = [i \in DOMAIN us |-> Renewed(OnSide("else", BB, IIT, us[i]))]
    BY <1>5, <2>1, <2>2, <2>3
  <2> QED BY <2>4, <2>5
<1>8. ASSUME NEW v \in DOMAIN M.uses, v \notin Touched
      PROVE  /\ v \in DOMAIN M'.uses
             /\ \A I, g : M.uses[v] = [k \in I |-> g[k]] => M'.uses[v] = [k \in I |-> Renewed(g[k])]
  <2>1. v \in DOMAIN W.uses /\ W.uses[v] = M.uses[v] /\ v # phi /\ v # Instr
    BY <1>1, <1>3, <1>8 DEF WithBoth, Touched
  <2>2. v \in DOMAIN M'.uses /\ M'.uses[v] = Remapped(M.uses[v], one)
    BY <1>3, <2>1
  <2> QED BY <1>6, <2>2
<1>9. CloneStep
  <2>1. \A x \in DOMAIN M.code : x \notin {Then, Else, Tail_} => M'.code[x] = M.code[x]
    BY <1>3 DEF WithBoth
  <2>2. /\ \A v : v \in DOMAIN ReMapper' <=> v \in DOMAIN ReMapper \/ (v = Instr /\ Instr \notin F.void)
        /\ \A v \in DOMAIN ReMapper' : ReMapper'[v] = <<"phi", v[2]>>
    BY <1>1, <1>2 DEF PlacesInv, Replaced, Put
  <2>3. \A k \in 1..(IIT - 1) : M'.code[Tail_].body[k] = M.code[Tail_].body[k]
    BY <1>3, <1>4
  <2>4. M'.code[Tail_].body[IIT] = phi
    BY <1>3, <1>4
  <2> QED BY <1>1, <1>2, <1>3, <1>7, <1>8, <2>1, <2>2, <2>3, <2>4 DEF CloneStep
<1>10. Maps'
  <2>1. MapOf("then", ThenVMap', IIT)
    BY <1>1, <1>2, <1>3, <1>5, MapOfValue DEF ThenClone
  <2>2. MapOf("else", ElseVMap', IIT)
    BY <1>1, <1>2, <1>3, <1>5, MapOfValue DEF ElseClone
  <2>3. MapOf("then", ThenVMap, IIT - 1)' /\ MapOf("else", ElseVMap, IIT - 1)'
    <3>1. IIT' - 1 = IIT /\ Body(BB)' = Body(BB)
      BY <1>2, <1>4 DEF Body
    <3> QED BY <1>2, <2>1, <2>2, <3>1 DEF MapOf
  <2>4. \A v \in DOMAIN TailVMap' : v[1] = "phi" /\ TailVMap'[v] = v
    <3>1. PICK p : p = Put(TailVMap, Instr, phi)
      OBVIOUS
    <3>2. /\ DOMAIN p = DOMAIN TailVMap \cup {Instr} /\ p[Instr] = phi
          /\ \A v \in DOMAIN TailVMap : v # Instr => p[v] = TailVMap[v]
      BY <3>1 DEF Put
    <3>3. TailVMap' = Put([v \in DOMAIN p \ {Instr} |-> p[v]], phi, phi)
      BY <1>2, <3>1, <3>2 DEF Followed
    <3>4. /\ DOMAIN TailVMap' = (DOMAIN p \ {Instr}) \cup {phi} /\ TailVMap'[phi] = phi
          /\ \A v \in DOMAIN p \ {Instr} : v # phi => TailVMap'[v] = p[v]
      BY <3>3 DEF Put
    <3> QED BY <1>1, <1>5, <3>2, <3>4
  <2> QED BY <1>2, <1>5, <2>3, <2>4 DEF Maps
<1> QED BY <1>3, <1>9, <1>10, PlacesClone

\* What a step of Purge does, the block's tail being that of B.
LEMMA PurgeIs ==
  ASSUME DupInv, Purge, NEW B, B = BB
  PROVE  /\ pc = "clone" /\ pc' = "split" /\ next' = next + 1 /\ F' = F /\ Targets' = Targets /\ ReMapper' = ReMapper
         /\ B \in Cut /\ B \in F.block /\ next \in 1..Len(Targets) /\ F \in RIVFunctions /\ Halves(B)
         /\ Len(Body(B)) \in Nat /\ IIT = Len(Body(B)) + 1 /\ Len(M.code[<<"tail", B>>].body) = Len(Body(B))
         /\ DOMAIN M'.code = DOMAIN M.code
         /\ \A x \in DOMAIN M.code : x # <<"tail", B>> => M'.code[x] = M.code[x]
         /\ M'.code[<<"tail", B>>].phis = Without(M.code[<<"tail", B>>].body, ToRemove)
         /\ M'.code[<<"tail", B>>].body = <<>>
         /\ DOMAIN M'.uses = DOMAIN M.uses \ ToRemove
         /\ \A v \in DOMAIN M'.uses :
              M'.uses[v] = IF v = F.code[B].term THEN Remapped(M.uses[v], TailVMap) ELSE M.uses[v]
<1> DEFINE n == Len(Body(BB))
<1>1. PICK tail, term : tail = M.code[Tail_].body /\ term = M.code[Tail_].term
  OBVIOUS
<1>2. PICK uses, code, left, newuses :
        /\ uses = Put(M.uses, term, Remapped(M.uses[term], TailVMap))
        /\ left = Without(tail, ToRemove)
        /\ code = [[M.code EXCEPT ![Tail_].phis = left] EXCEPT ![Tail_].body = <<>>]
        /\ newuses = [v \in DOMAIN uses \ ToRemove |-> uses[v]]
  OBVIOUS
<1>3. /\ pc = "clone" /\ pc' = "split" /\ IIT > Len(M.code[Tail_].body) /\ next' = next + 1
      /\ F' = F /\ Targets' = Targets /\ ReMapper' = ReMapper
  BY DEF Purge, rivVars
<1>4. M' = [code |-> code, uses |-> newuses, from |-> M.from, succ |-> M.succ]
  <2>1. M' = [M EXCEPT !.code[Tail_].phis = left, !.code[Tail_].body = <<>>, !.uses = newuses]
    BY <1>1, <1>2 DEF Purge
  <2>2. PICK mc, mu, mf, ms : /\ M = [code |-> mc, uses |-> mu, from |-> mf, succ |-> ms]
                             /\ mc = M.code /\ mu = M.uses /\ mf = M.from /\ ms = M.succ
    BY DEF DupInv
  <2>3. M' = [code |-> code, uses |-> newuses, from |-> mf, succ |-> ms]
    BY <1>2, <2>1, <2>2
  <2> QED
    BY <2>2, <2>3
<1>5. M'.code = code /\ M'.uses = newuses
  BY <1>4
<1>6. BB \in Cut /\ F \in RIVFunctions /\ BB \in F.block /\ next \in 1..Len(Targets)
  <2>1. next <= Len(Targets) /\ BB \in Cut /\ F \in RIVFunctions
    BY <1>3 DEF DupInv, Choice
  <2> QED
    BY <1>3, <2>1, BlockChosen
<1>7. /\ n \in Nat /\ Len(tail) = n /\ IIT = n + 1
      /\ \A v \in ToRemove : \E k \in 1..n : v = Body(BB)[k]
  <2>1. n \in Nat
    BY <1>6, BlockIs
  <2>2. /\ Len(tail) = n /\ IIT \in 1..(n + 1)
        /\ \A v \in ToRemove : \E k \in 1..n : v = Body(BB)[k]
    BY <1>1, <1>3 DEF DupInv, Working
  <2>3. IIT = n + 1
    BY <1>1, <1>3, <2>1, <2>2
  <2> QED
    BY <2>1, <2>2, <2>3
<1>8. Halves(BB) /\ term = F.code[BB].term
  BY <1>1, <1>6 DEF DupInv, Halves, Tail_
<1>9. term \in DOMAIN M.uses
  BY <1>6, <1>8 DEF DupInv, HeadsThere
<1>10. /\ DOMAIN newuses = DOMAIN M.uses \ ToRemove
       /\ \A v \in DOMAIN newuses : newuses[v] = IF v = term THEN Remapped(M.uses[v], TailVMap) ELSE M.uses[v]
  BY <1>2, <1>9 DEF Put
<1>11. Tail_ \in DOMAIN M.code
  BY <1>6 DEF Cut, Tail_
<1>12. /\ DOMAIN code = DOMAIN M.code
       /\ \A x \in DOMAIN M.code : x # Tail_ => code[x] = M.code[x]
       /\ code[Tail_] = [phis |-> left, body |-> <<>>, term |-> F.code[BB].term]
  <2>1. PICK p : M.code[Tail_] = [phis |-> p, body |-> tail, term |-> F.code[BB].term]
    BY <1>1, <1>8 DEF Halves, Tail_
  <2> QED
    BY <1>2, <1>11, <2>1
<1>13. Tail_ = <<"tail", B>> /\ left = Without(M.code[Tail_].body, ToRemove)
  BY <1>1, <1>2 DEF Tail_
<1> QED
  BY <1>1, <1>3, <1>5, <1>6, <1>7, <1>8, <1>10, <1>12, <1>13

\* What is erased is used by nothing that stays.
LEMMA PurgePlaces == DupInv /\ PlacesInv /\ Purge => PlacesInv'
<1> SUFFICES ASSUME DupInv, PlacesInv, Purge PROVE PlacesInv'
  OBVIOUS
<1>1. PICK B : B = BB
  OBVIOUS
<1>2. /\ pc = "clone" /\ pc' = "split" /\ next' = next + 1 /\ F' = F /\ Targets' = Targets /\ ReMapper' = ReMapper
      /\ B \in Cut /\ B \in F.block /\ next \in 1..Len(Targets) /\ F \in RIVFunctions /\ Halves(B)
      /\ Len(Body(B)) \in Nat /\ IIT = Len(Body(B)) + 1 /\ Len(M.code[<<"tail", B>>].body) = Len(Body(B))
  BY <1>1, PurgeIs
<1>3. /\ DOMAIN M'.code = DOMAIN M.code
      /\ \A x \in DOMAIN M.code : x # <<"tail", B>> => M'.code[x] = M.code[x]
      /\ M'.code[<<"tail", B>>].phis = Without(M.code[<<"tail", B>>].body, ToRemove)
      /\ M'.code[<<"tail", B>>].body = <<>>
  BY <1>1, PurgeIs
<1>4. /\ DOMAIN M'.uses = DOMAIN M.uses \ ToRemove
      /\ \A v \in DOMAIN M'.uses :
           M'.uses[v] = IF v = F.code[B].term THEN Remapped(M.uses[v], TailVMap) ELSE M.uses[v]
      /\ \A v \in ToRemove : \E k \in 1..Len(Body(B)) : v = Body(B)[k]
  <2>1. DOMAIN M'.uses = DOMAIN M.uses \ ToRemove
    BY <1>1, PurgeIs
  <2>2. \A v \in DOMAIN M'.uses :
          M'.uses[v] = IF v = F.code[B].term THEN Remapped(M.uses[v], TailVMap) ELSE M.uses[v]
    BY <1>1, PurgeIs
  <2>3. \A v \in ToRemove : \E k \in 1..Len(Body(B)) : v = Body(B)[k]
    BY <1>1, <1>2 DEF DupInv, Working
  <2> QED BY <2>1, <2>2, <2>3
<1>5. Cut' = Cut /\ \A b : Body(b)' = Body(b) /\ BeingCloned(b)' = FALSE /\ (BeingCloned(b) <=> b = B)
  BY <1>1, <1>2, <1>3 DEF Cut, Body, BeingCloned
<1>6. \A b : Cloned(b)' = Cloned(b) /\ Cloned(b) = Len(Body(b))
  <2> SUFFICES ASSUME NEW b PROVE Cloned(b)' = Cloned(b) /\ Cloned(b) = Len(Body(b))
    OBVIOUS
  <2>1. Cloned(b)' = Len(Body(b))
    BY <1>2, <1>5 DEF Cloned
  <2>2. b = B => IIT - 1 = Len(Body(b))
    BY <1>2
  <2>3. Cloned(b) = Len(Body(b))
    BY <1>1, <2>2 DEF Cloned
  <2> QED BY <2>1, <2>3
<1>7. \A v : HasClone(v)' <=> HasClone(v)
  BY <1>5, <1>6 DEF HasClone
<1>8. \A v : Current(v)' = Current(v)
  BY <1>2 DEF Current
<1>9. \A v \in ToRemove : HasClone(v) /\ v[1] = "inst"
  <2> SUFFICES ASSUME NEW v \in ToRemove PROVE HasClone(v) /\ v[1] = "inst"
    OBVIOUS
  <2>1. PICK k \in 1..Len(Body(B)) : v = Body(B)[k]
    BY <1>4
  <2>2. HasClone(v)
    BY <1>2, <1>6, <2>1 DEF HasClone
  <2>3. v = <<"inst", v[2]>>
    BY <2>2, ClonedIsInst
  <2> QED BY <2>2, <2>3
<1>10. ~HasClone(F.code[B].term) /\ F.code[B].term[1] = "inst"
  <2>1. ASSUME HasClone(F.code[B].term) PROVE FALSE
    <3>1. PICK b \in Cut : \E k \in 1..Cloned(b) : F.code[B].term = Body(b)[k]
      BY <2>1 DEF HasClone
    <3>2. PICK k \in 1..Len(Body(b)) : F.code[B].term = Body(b)[k]
      BY <1>6, <3>1
    <3>3. b \in F.block
      BY DEF Cut
    <3> QED BY <1>2, <3>2, <3>3, OnePlaceEach
  <2>2. F.code[B].term \in DOMAIN F.uses
    BY <1>2, BlockIs
  <2> QED BY <1>2, <2>1, <2>2, FunctionIs
<1>11. \A v \in DOMAIN M.uses : v[1] # "inst" => v \in DOMAIN M'.uses /\ M'.uses[v] = M.uses[v]
  BY <1>4, <1>9, <1>10
<1>12. OldUses'
  <2> SUFFICES ASSUME NEW v \in DOMAIN F.uses, ~HasClone(v)
               PROVE  v \in DOMAIN M'.uses /\ M'.uses[v] = CurrentAll(F.uses[v])'
    BY <1>2, <1>7 DEF OldUses
  <2>1. v \in DOMAIN M.uses /\ M.uses[v] = CurrentAll(F.uses[v])
    BY DEF PlacesInv, OldUses
  <2>2. v \in DOMAIN M'.uses
    BY <1>4, <1>9, <2>1
  <2>3. CurrentAll(F.uses[v])' = CurrentAll(F.uses[v])
    BY <1>2 DEF CurrentAll, Current
  <2>4. Remapped(M.uses[v], TailVMap) = M.uses[v]
    <3>1. PICK us : us = M.uses[v]
      OBVIOUS
    <3>2. us = [k \in DOMAIN us |-> us[k]]
      BY <2>1, <3>1 DEF CurrentAll
    <3>3. \A w \in DOMAIN TailVMap : TailVMap[w] = w
      BY <1>2 DEF PlacesInv, Maps
    <3> QED BY <3>1, <3>2, <3>3 DEF Remapped
  <2> QED BY <1>4, <2>1, <2>2, <2>3, <2>4
<1>13. Replaced' /\ Parts'
  BY <1>2, <1>3, <1>5, <1>7 DEF PlacesInv, Replaced, Parts
<1>14. Maps'
  BY <1>2 DEF Maps
<1>15. TargetsReached'
  <2>1. \A i \in 1..Len(Targets) : i < next' => i <= next
    <3>1. Len(Targets) \in Nat \/ Len(Targets) \notin Nat
      OBVIOUS
    <3> QED BY <1>2
  <2> QED BY <1>2, <1>5, <2>1 DEF PlacesInv, TargetsReached, ReachableIntegers
<1>16. ASSUME NEW b \in Cut PROVE Tests(b)'
  <2>1. Tests(b) /\ b \in F.block
    BY DEF PlacesInv, Cut
  <2>2. bb(b) \in DOMAIN M.code /\ bb(b) # <<"tail", B>>
    BY <2>1 DEF DupInv, HeadsThere, bb
  <2>3. M'.code[bb(b)] = M.code[bb(b)]
    BY <1>3, <2>2
  <2>4. ASSUME NEW p \in {"isnull", "test", "br"} PROVE <<p, b>>[1] # "inst"
    OBVIOUS
  <2>5. /\ <<"isnull", b>> \in DOMAIN M'.uses /\ <<"test", b>> \in DOMAIN M'.uses /\ <<"br", b>> \in DOMAIN M'.uses
        /\ M'.uses[<<"isnull", b>>] = M.uses[<<"isnull", b>>]
        /\ M'.uses[<<"test", b>>] = M.uses[<<"test", b>>] /\ M'.uses[<<"br", b>>] = M.uses[<<"br", b>>]
    BY <1>11, <2>1, <2>4 DEF Tests
  <2> QED BY <1>2, <2>1, <2>3, <2>5 DEF Tests, Current
<1>17. ASSUME NEW b \in Cut PROVE CloneUses(b)'
  <2>1. CloneUses(b) /\ Halves(b)
    BY DEF PlacesInv, Cut, DupInv
  <2> SUFFICES ASSUME NEW side \in {"then", "else"}, NEW k \in 1..Cloned(b)
               PROVE  M'.uses[<<side, Body(b)[k][2]>>] =
                        [i \in DOMAIN F.uses[Body(b)[k]] |-> OnSide(side, b, k, F.uses[Body(b)[k]][i])']
    BY <1>2, <1>5, <1>6 DEF CloneUses
  <2>2. PICK us : us = F.uses[Body(b)[k]]
    OBVIOUS
  <2>3. \A i : OnSide(side, b, k, F.uses[Body(b)[k]][i])' = OnSide(side, b, k, us[i])
    BY <1>2, <1>5, <2>2 DEF OnSide, Current
  <2>4. M.uses[<<side, Body(b)[k][2]>>] = [i \in DOMAIN us |-> OnSide(side, b, k, us[i])]
    BY <2>1, <2>2 DEF CloneUses
  <2>5. <<side, Body(b)[k][2]>> \in DOMAIN M.uses /\ <<side, Body(b)[k][2]>>[1] # "inst"
    BY <2>1 DEF Halves, CloneSide
  <2>6. M'.uses[<<side, Body(b)[k][2]>>] = M.uses[<<side, Body(b)[k][2]>>]
    BY <1>11, <2>5
  <2> QED BY <2>2, <2>3, <2>4, <2>6
<1>18. ASSUME NEW b \in Cut PROVE PhisThere(b)'
  <2>1. PhisThere(b) /\ <<"tail", b>> \in DOMAIN M.code
    BY DEF PlacesInv, Cut
  <2>2. CASE b # B
    <3>1. M'.code[<<"tail", b>>] = M.code[<<"tail", b>>]
      BY <1>3, <2>1, <2>2
    <3> QED BY <1>2, <1>5, <1>6, <2>1, <2>2, <3>1 DEF PhisThere
  <2>3. CASE b = B
    <3>1. ASSUME NEW k \in 1..Len(Body(b)), Body(b)[k] \notin F.void
          PROVE  <<"phi", Body(b)[k][2]>> \in ToSet(M'.code[<<"tail", b>>].phis)
      <4>1. PICK s, erased : s = M.code[<<"tail", b>>].body /\ erased = ToRemove
        OBVIOUS
      <4>2. s[k] = <<"phi", Body(b)[k][2]>>
        BY <1>5, <1>6, <2>1, <2>3, <3>1, <4>1 DEF PhisThere
      <4>3. s[k] \notin erased
        BY <1>9, <4>1, <4>2
      <4>4. Len(s) \in Nat /\ k \in 1..Len(s)
        BY <1>2, <2>3, <4>1
      <4>5. s[k] \in ToSet(Without(s, erased))
        BY <4>3, <4>4, WithoutIs
      <4> QED BY <1>3, <2>3, <4>1, <4>2, <4>5
    <3> QED BY <1>2, <1>3, <1>5, <1>6, <2>3, <3>1 DEF PhisThere
  <2> QED BY <2>2, <2>3
<1> QED BY <1>5, <1>12, <1>13, <1>14, <1>15, <1>16, <1>17, <1>18 DEF PlacesInv

-----------------------------------------------------------------------------
(* The control flow graph of the function as it is now.                     *)

\* The graph of the function as it is now.
LEMMA NowIs ==
  ASSUME DupInv, Parts
  PROVE  /\ Graph(F) /\ Graph(Now) /\ Now.entry = bb(F.entry) /\ F.entry \in F.block
         /\ \A b \in F.block : bb(b) \in Now.block /\ EndOf(b) \in Now.block /\ EndOf(b)[2] = b
         /\ \A x \in Now.block :
              /\ x[2] \in F.block
              /\ \/ x = EndOf(x[2])
                 \/ x[2] \in Cut /\ (x = bb(x[2]) \/ x = <<"then", x[2]>> \/ x = <<"else", x[2]>>)
         /\ \A b \in F.block : SuccSet(Now, EndOf(b)) = {bb(s) : s \in SuccSet(F, b)}
         /\ \A b \in Cut : /\ SuccSet(Now, bb(b)) = {<<"then", b>>, <<"else", b>>}
                           /\ \A p \in {"then", "else"} : <<p, b>> \in Now.block /\ SuccSet(Now, <<p, b>>) = {EndOf(b)}
<1>1. F \in RIVFunctions /\ WellFormedCode(F)
  BY CodeAssumption DEF DupInv
<1>2. /\ F.entry \in F.block /\ IsFiniteSet(F.block)
      /\ F.succ \in [F.block -> Seq(F.block)]
  BY <1>1, TreeAssumption DEF WellFormedCode
<1>3. Now.block = DOMAIN M.code /\ Now.succ = M.succ /\ Now.entry = bb(F.entry)
  BY DEF Now
<1>4. \A b \in F.block : EndOf(b) = IF b \in Cut THEN <<"tail", b>> ELSE bb(b)
  BY DEF EndOf, Cut
<1>5. \A b \in F.block : bb(b) \in Now.block /\ EndOf(b) \in Now.block /\ EndOf(b)[2] = b
  BY <1>3, <1>4 DEF Parts, bb
<1>6. \A x \in Now.block : /\ x[2] \in F.block
                          /\ \/ x = EndOf(x[2])
                             \/ x[2] \in Cut /\ (x = bb(x[2]) \/ x = <<"then", x[2]>> \/ x = <<"else", x[2]>>)
  <2> SUFFICES ASSUME NEW x \in Now.block
               PROVE  /\ x[2] \in F.block
                      /\ \/ x = EndOf(x[2])
                         \/ x[2] \in Cut /\ (x = bb(x[2]) \/ x = <<"then", x[2]>> \/ x = <<"else", x[2]>>)
    OBVIOUS
  <2>1. CASE \E b \in F.block : x = bb(b)
    <3>1. PICK b \in F.block : x = bb(b)
      BY <2>1
    <3>2. x[2] = b
      BY <3>1 DEF bb
    <3> QED BY <1>4, <3>1, <3>2
  <2>2. CASE \E b \in Cut, p \in {"then", "else", "tail"} : x = <<p, b>>
    <3>1. PICK b \in Cut, p \in {"then", "else", "tail"} : x = <<p, b>>
      BY <2>2
    <3>2. x[2] = b /\ b \in F.block
      BY <3>1 DEF Cut
    <3> QED BY <1>4, <3>1, <3>2
  <2> QED BY <1>3, <2>1, <2>2 DEF Parts
<1>7. ASSUME NEW b \in F.block
      PROVE  /\ SuccSet(Now, EndOf(b)) = {bb(s) : s \in SuccSet(F, b)}
             /\ SuccSet(F, b) \subseteq F.block
  <2>1. PICK q \in Seq(F.block) : q = F.succ[b]
    BY <1>2
  <2>2. M.succ[EndOf(b)] = [k \in DOMAIN q |-> bb(q[k])]
    <3>1. CASE b \in Cut
      BY <1>4, <2>1, <3>1 DEF DupInv, Halves, Leaves
    <3>2. CASE b \notin Cut
      BY <1>4, <2>1, <3>2 DEF DupInv, Whole, Leaves
    <3> QED BY <3>1, <3>2
  <2>3. DOMAIN q = 1..Len(q) /\ Len(q) \in Nat
    OBVIOUS
  <2>4. PICK r : r = [k \in DOMAIN q |-> bb(q[k])]
    OBVIOUS
  <2>5. Len(r) = Len(q) /\ \A k \in 1..Len(q) : r[k] = bb(q[k])
    <3>1. PICK V : V = {bb(q[k]) : k \in 1..Len(q)}
      OBVIOUS
    <3>2. r \in [1..Len(q) -> V]
      BY <2>3, <2>4, <3>1
    <3>3. PICK n \in Nat : n = Len(q)
      BY <2>3
    <3>4. r \in Seq(V) /\ DOMAIN r = 1..n
      BY <3>2, <3>3
    <3>5. Len(r) = n
      BY <3>4, LenProperties, <3>3
    <3> QED BY <2>3, <2>4, <3>3, <3>5
  <2>6. SuccSet(F, b) = {q[k] : k \in 1..Len(q)} /\ SuccSet(Now, EndOf(b)) = {r[k] : k \in 1..Len(r)}
    BY <1>3, <2>1, <2>2, <2>4 DEF SuccSet
  <2>7. SuccSet(F, b) \subseteq F.block
    BY <2>3, <2>6
  <2>8. {r[k] : k \in 1..Len(q)} = {bb(s) : s \in {q[k] : k \in 1..Len(q)}}
    BY <2>5
  <2> QED BY <2>5, <2>6, <2>7, <2>8
<1>8. ASSUME NEW b \in Cut
      PROVE  /\ SuccSet(Now, bb(b)) = {<<"then", b>>, <<"else", b>>}
             /\ \A p \in {"then", "else"} : <<p, b>> \in Now.block /\ SuccSet(Now, <<p, b>>) = {EndOf(b)}
  <2>1. b \in F.block
    BY DEF Cut
  <2>2. Halves(b)
    BY <2>1 DEF DupInv
  <2>3. /\ M.succ[bb(b)] = << <<"then", b>>, <<"else", b>> >>
        /\ \A p \in {"then", "else"} : M.succ[<<p, b>>] = << <<"tail", b>> >>
    BY <2>2 DEF Halves, CloneSide
  <2>4. \A u, v : {<<u, v>>[i] : i \in 1..Len(<<u, v>>)} = {u, v}
    <3> SUFFICES ASSUME NEW u, NEW v PROVE {<<u, v>>[i] : i \in 1..Len(<<u, v>>)} = {u, v}
      OBVIOUS
    <3>1. Len(<<u, v>>) = 2 /\ <<u, v>>[1] = u /\ <<u, v>>[2] = v /\ 1..2 = {1, 2}
      OBVIOUS
    <3> QED BY <3>1
  <2>5. \A u : {<<u>>[i] : i \in 1..Len(<<u>>)} = {u}
    OBVIOUS
  <2>6. \A p \in {"then", "else"} : <<p, b>> \in Now.block
    BY <1>3 DEF Parts
  <2> QED BY <1>3, <1>4, <2>1, <2>3, <2>4, <2>5, <2>6 DEF SuccSet
<1>9. Graph(F)
  BY <1>2, <1>7 DEF Graph
<1>10. IsFiniteSet(Now.block)
  <2>1. IsFiniteSet({"bb", "then", "else", "tail"})
    <3>1. IsFiniteSet({})
      BY FS_EmptySet
    <3>2. IsFiniteSet({} \cup {"bb"})
      BY <3>1, FS_AddElement
    <3>3. IsFiniteSet(({} \cup {"bb"}) \cup {"then"})
      BY <3>2, FS_AddElement
    <3>4. IsFiniteSet((({} \cup {"bb"}) \cup {"then"}) \cup {"else"})
      BY <3>3, FS_AddElement
    <3>5. IsFiniteSet(((({} \cup {"bb"}) \cup {"then"}) \cup {"else"}) \cup {"tail"})
      BY <3>4, FS_AddElement
    <3>6. ((({} \cup {"bb"}) \cup {"then"}) \cup {"else"}) \cup {"tail"} = {"bb", "then", "else", "tail"}
      OBVIOUS
    <3> QED BY <3>5, <3>6
  <2>2. IsFiniteSet({"bb", "then", "else", "tail"} \X F.block)
    BY <1>2, <2>1, FS_Product
  <2>3. Now.block \subseteq {"bb", "then", "else", "tail"} \X F.block
    <3>1. Cut \subseteq F.block
      BY DEF Cut
    <3> QED BY <1>3, <3>1 DEF Parts, bb
  <2> QED BY <2>2, <2>3, FS_Subset
<1>11. Graph(Now)
  <2>1. ASSUME NEW x \in Now.block PROVE SuccSet(Now, x) \subseteq Now.block
    <3>1. CASE x = EndOf(x[2])
      <4>1. x[2] \in F.block
        BY <1>6
      <4>2. SuccSet(Now, x) = {bb(s) : s \in SuccSet(F, x[2])} /\ SuccSet(F, x[2]) \subseteq F.block
        BY <1>7, <3>1, <4>1
      <4> QED BY <1>5, <4>2
    <3>2. CASE x[2] \in Cut /\ (x = bb(x[2]) \/ x = <<"then", x[2]>> \/ x = <<"else", x[2]>>)
      <4>1. x[2] \in F.block
        BY <1>6
      <4> QED BY <1>5, <1>8, <3>2, <4>1
    <3> QED BY <1>6, <3>1, <3>2
  <2> QED BY <1>10, <2>1 DEF Graph
<1> QED BY <1>2, <1>3, <1>5, <1>6, <1>7, <1>8, <1>9, <1>11

\* The heads, or the whole blocks, of a set of blocks.
Heads(D) == {bb(d) : d \in D}

\* From the other parts of a split block the way leads on within the block.
LEMMA SuccWithin ==
  ASSUME DupInv, Parts, NEW x \in Now.block, x[2] \in Cut,
         x = bb(x[2]) \/ x = <<"then", x[2]>> \/ x = <<"else", x[2]>>
  PROVE  \A s \in SuccSet(Now, x) : /\ s \in {<<"then", x[2]>>, <<"else", x[2]>>, EndOf(x[2])}
                                   /\ s \in Now.block /\ s[2] = x[2]
<1>1. PICK b \in Cut : b = x[2]
  OBVIOUS
<1>2. b \in F.block
  BY DEF Cut
<1>3. /\ SuccSet(Now, bb(b)) = {<<"then", b>>, <<"else", b>>}
      /\ \A p \in {"then", "else"} : <<p, b>> \in Now.block /\ SuccSet(Now, <<p, b>>) = {EndOf(b)}
      /\ EndOf(b) \in Now.block /\ EndOf(b)[2] = b
  BY <1>2, NowIs
<1>4. <<"then", b>>[2] = b /\ <<"else", b>>[2] = b
  OBVIOUS
<1>5. x = bb(b) \/ x = <<"then", b>> \/ x = <<"else", b>>
  BY <1>1
<1>6. ASSUME NEW s \in SuccSet(Now, x)
      PROVE  s \in {<<"then", b>>, <<"else", b>>, EndOf(b)} /\ s \in Now.block /\ s[2] = b
  <2>1. CASE x = bb(b)
    BY <1>3, <1>4, <1>6, <2>1
  <2>2. CASE x = <<"then", b>>
    BY <1>3, <1>6, <2>2
  <2>3. CASE x = <<"else", b>>
    BY <1>3, <1>6, <2>3
  <2> QED BY <1>5, <2>1, <2>2, <2>3
<1> QED BY <1>1, <1>6

\* The way to a part of a block is a way to the block.
LEMMA WayBack ==
  ASSUME DupInv, Parts, NEW D \in SUBSET F.block
  PROVE  \A x \in ReachAvoiding(Now, {Now.entry}, Heads(D)) :
           x \in Now.block /\ x[2] \in ReachAvoiding(F, {F.entry}, D)
<1>1. PICK R : R = ReachAvoiding(F, {F.entry}, D)
  OBVIOUS
<1>2. /\ R \subseteq F.block /\ (F.entry \in D \/ F.entry \in R)
      /\ \A b \in R : \A s \in SuccSet(F, b) : s \in R \/ s \in D
  <2>1. {F.entry} \in SUBSET F.block /\ Graph(F)
    BY NowIs
  <2>2. /\ R \subseteq F.block /\ \A b \in {F.entry} : b \in D \/ b \in R
        /\ Closed(F, R, D)
    BY <1>1, <2>1, ReachIs
  <2> QED BY <2>2 DEF Closed
<1> DEFINE T == {x \in Now.block : x[2] \in R}
<1>3. \A b \in {Now.entry} : b \in Heads(D) \/ b \in T
  <2>1. Now.entry = bb(F.entry) /\ bb(F.entry) \in Now.block /\ bb(F.entry)[2] = F.entry
    BY NowIs DEF bb
  <2> QED BY <1>2, <2>1 DEF Heads
<1>4. ASSUME NEW x \in T, NEW s \in SuccSet(Now, x) PROVE s \in T \/ s \in Heads(D)
  <2>1. x \in Now.block /\ x[2] \in R /\ x[2] \in F.block
    BY <1>2
  <2>2. CASE x = EndOf(x[2])
    <3>1. PICK c \in SuccSet(F, x[2]) : s = bb(c)
      BY <2>1, <2>2, NowIs
    <3>2. c \in R \/ c \in D
      BY <1>2, <2>1
    <3>3. c \in R => bb(c) \in Now.block /\ bb(c)[2] = c
      BY <1>2, NowIs DEF bb
    <3> QED BY <3>1, <3>2, <3>3 DEF Heads
  <2>3. CASE x[2] \in Cut /\ (x = bb(x[2]) \/ x = <<"then", x[2]>> \/ x = <<"else", x[2]>>)
    <3>1. s \in Now.block /\ s[2] = x[2]
      BY <2>1, <2>3, SuccWithin
    <3> QED BY <2>1, <3>1
  <2> QED BY <2>1, <2>2, <2>3, NowIs
<1> HIDE DEF T
<1>5. Graph(Now) /\ {Now.entry} \in SUBSET Now.block
  BY NowIs
<1>6. ReachAvoiding(Now, {Now.entry}, Heads(D)) \subseteq T
  BY <1>3, <1>4, <1>5, ReachLeast
<1> QED BY <1>1, <1>6 DEF T

\* And a way to what comes after a block is a way through its end.
LEMMA WayThroughEnd ==
  ASSUME DupInv, Parts, NEW d \in F.block
  PROVE  \A x \in ReachAvoiding(Now, {Now.entry}, {EndOf(d)}) :
           x \in Now.block /\ (x[2] = d \/ x[2] \in ReachAvoiding(F, {F.entry}, {d}))
<1>1. PICK R : R = ReachAvoiding(F, {F.entry}, {d})
  OBVIOUS
<1>2. /\ R \subseteq F.block /\ (F.entry = d \/ F.entry \in R)
      /\ \A b \in R : \A s \in SuccSet(F, b) : s \in R \/ s = d
  <2>1. {F.entry} \in SUBSET F.block /\ Graph(F)
    BY NowIs
  <2>2. /\ R \subseteq F.block /\ \A b \in {F.entry} : b \in {d} \/ b \in R
        /\ Closed(F, R, {d})
    BY <1>1, <2>1, ReachIs
  <2> QED BY <2>2 DEF Closed
<1> DEFINE T == {x \in Now.block : x[2] \in R \cup {d} /\ x # EndOf(d)}
<1>3. \A b \in {Now.entry} : b \in {EndOf(d)} \/ b \in T
  <2>1. Now.entry = bb(F.entry) /\ bb(F.entry) \in Now.block /\ bb(F.entry)[2] = F.entry
    BY NowIs DEF bb
  <2> QED BY <1>2, <2>1
<1>4. ASSUME NEW x \in T, NEW s \in SuccSet(Now, x) PROVE s \in T \/ s \in {EndOf(d)}
  <2>1. x \in Now.block /\ x[2] \in R \cup {d} /\ x[2] \in F.block /\ x # EndOf(d)
    BY <1>2
  <2>2. CASE x = EndOf(x[2])
    <3>1. PICK c \in SuccSet(F, x[2]) : s = bb(c)
      BY <2>1, <2>2, NowIs
    <3>2. x[2] \in R
      BY <2>1, <2>2
    <3>3. c \in R \cup {d}
      BY <1>2, <3>2
    <3>4. bb(c) \in Now.block /\ bb(c)[2] = c
      BY <1>2, <3>3, NowIs DEF bb
    <3> QED BY <3>1, <3>3, <3>4
  <2>3. CASE x[2] \in Cut /\ (x = bb(x[2]) \/ x = <<"then", x[2]>> \/ x = <<"else", x[2]>>)
    <3>1. s \in {<<"then", x[2]>>, <<"else", x[2]>>, EndOf(x[2])} /\ s \in Now.block /\ s[2] = x[2]
      BY <2>1, <2>3, SuccWithin
    <3> QED BY <2>1, <3>1
  <2> QED BY <2>1, <2>2, <2>3, NowIs
<1> HIDE DEF T
<1>5. Graph(Now) /\ {Now.entry} \in SUBSET Now.block
  BY NowIs
<1>6. ReachAvoiding(Now, {Now.entry}, {EndOf(d)}) \subseteq T
  BY <1>3, <1>4, <1>5, ReachLeast
<1> QED BY <1>1, <1>6 DEF T

\* A way to a block is a way to its head.
LEMMA WayForth ==
  ASSUME DupInv, Parts, NEW D \in SUBSET F.block
  PROVE  \A b \in ReachAvoiding(F, {F.entry}, D) :
           bb(b) \in ReachAvoiding(Now, {Now.entry}, Heads(D))
<1>1. PICK R : R = ReachAvoiding(Now, {Now.entry}, Heads(D))
  OBVIOUS
<1>2. /\ Now.entry \in Heads(D) \/ Now.entry \in R
      /\ \A x \in R : \A s \in SuccSet(Now, x) : s \in R \/ s \in Heads(D)
  <2>1. {Now.entry} \in SUBSET Now.block /\ Graph(Now)
    BY NowIs
  <2>2. /\ \A b \in {Now.entry} : b \in Heads(D) \/ b \in R
        /\ Closed(Now, R, Heads(D))
    BY <1>1, <2>1, ReachIs
  <2> QED BY <2>2 DEF Closed
<1>3. ASSUME NEW b \in F.block, bb(b) \in R PROVE EndOf(b) \in R
  <2>1. CASE b \in Cut
    <3>1. <<"then", b>> \notin Heads(D) /\ EndOf(b) \notin Heads(D)
      BY <2>1 DEF Heads, bb, EndOf, Cut
    <3>2. <<"then", b>> \in SuccSet(Now, bb(b)) /\ EndOf(b) \in SuccSet(Now, <<"then", b>>)
      BY <2>1, NowIs
    <3> QED BY <1>2, <1>3, <3>1, <3>2
  <2>2. CASE b \notin Cut
    BY <1>3, <2>2 DEF EndOf, Cut
  <2> QED BY <2>1, <2>2
<1>4. \A b, c : bb(b) = bb(c) => b = c
  <2>1. \A b : bb(b)[2] = b
    BY DEF bb
  <2> QED BY <2>1
<1> DEFINE T == {b \in F.block : bb(b) \in R}
<1>5. \A b \in {F.entry} : b \in D \/ b \in T
  <2>1. Now.entry = bb(F.entry) /\ F.entry \in F.block
    BY NowIs
  <2> QED BY <1>2, <1>4, <2>1 DEF Heads
<1>6. ASSUME NEW b \in T, NEW s \in SuccSet(F, b) PROVE s \in T \/ s \in D
  <2>1. EndOf(b) \in R /\ bb(s) \in SuccSet(Now, EndOf(b)) /\ s \in F.block
    BY <1>3, NowIs DEF Graph
  <2>2. bb(s) \in R \/ bb(s) \in Heads(D)
    BY <1>2, <2>1
  <2> QED BY <1>4, <2>1, <2>2 DEF Heads
<1> HIDE DEF T
<1>7. Graph(F) /\ {F.entry} \in SUBSET F.block
  BY NowIs
<1>8. ReachAvoiding(F, {F.entry}, D) \subseteq T
  BY <1>5, <1>6, <1>7, ReachLeast
<1> QED BY <1>1, <1>8 DEF T

\* Reachability, dominators and predecessors of the function as it is now, by
\* those of the function as it was.
LEMMA GraphNow ==
  ASSUME DupInv, Parts, F.dom = DominatorsOf(F)
  PROVE  /\ \A x \in Reachable(Now) : x \in Now.block /\ x[2] \in Reachable(F)
         /\ \A b \in Reachable(F) : b \in F.block /\ bb(b) \in Reachable(Now)
         /\ \A x \in Now.block : x \in DominatorsOf(Now)[x] /\ DominatorsOf(Now)[x] \subseteq Now.block
         /\ \A x \in Now.block : \A d \in F.dom[x[2]] : d \in F.block /\ bb(d) \in DominatorsOf(Now)[x]
         /\ \A x \in Now.block : \A d \in F.dom[x[2]] : d # x[2] => EndOf(d) \in DominatorsOf(Now)[x]
         /\ \A b, d \in F.block : bb(d) \in DominatorsOf(Now)[bb(b)] => d \in F.dom[b]
         /\ \A b \in F.block : Preds(Now, bb(b)) = {EndOf(p) : p \in Preds(F, b)}
         /\ \A b \in Cut : Preds(Now, <<"tail", b>>) = {<<"then", b>>, <<"else", b>>}
<1>1. PICK N : N = Now
  OBVIOUS
<1>2. PICK dom : dom = DominatorsOf(N)
  OBVIOUS
<1>3. dom = [x \in N.block |-> {y \in N.block : x \notin ReachAvoiding(N, {N.entry}, {y})}]
  <2>1. dom = [x \in N.block |-> {y \in N.block : x \notin [z \in N.block |-> ReachAvoiding(N, {N.entry}, {z})][y]}]
    BY <1>2 DEF DominatorsOf
  <2> QED BY <2>1
<1>4. F.dom = [x \in F.block |-> {y \in F.block : x \notin ReachAvoiding(F, {F.entry}, {y})}]
  <2>1. F.dom = [x \in F.block |-> {y \in F.block : x \notin [z \in F.block |-> ReachAvoiding(F, {F.entry}, {z})][y]}]
    BY DEF DominatorsOf
  <2> QED BY <2>1
<1>5. Heads({}) = {} /\ \A d : Heads({d}) = {bb(d)}
  BY DEF Heads
<1>6. \A x \in Reachable(N) : x \in N.block /\ x[2] \in Reachable(F)
  BY <1>1, <1>5, {} \in SUBSET F.block, WayBack DEF Reachable
<1>7. \A b \in Reachable(F) : b \in F.block /\ bb(b) \in Reachable(N)
  <2>1. Reachable(F) \subseteq F.block
    BY TreeAssumption DEF DupInv
  <2> QED BY <1>1, <1>5, <2>1, {} \in SUBSET F.block, WayForth DEF Reachable
<1>8. ASSUME NEW x \in N.block PROVE x \in dom[x] /\ dom[x] \subseteq N.block
  <2>1. Graph(N) /\ {N.entry} \in SUBSET N.block
    BY <1>1, NowIs
  <2>2. \A y \in ReachAvoiding(N, {N.entry}, {x}) : y \notin {x}
    BY <2>1, ReachIs
  <2> QED BY <1>3, <2>2
<1>9. ASSUME NEW x \in N.block, NEW d \in F.dom[x[2]] PROVE d \in F.block /\ bb(d) \in dom[x]
  <2>1. x[2] \in F.block
    BY <1>1, NowIs
  <2>2. d \in F.block /\ x[2] \notin ReachAvoiding(F, {F.entry}, {d})
    BY <1>4, <2>1
  <2>3. {d} \in SUBSET F.block
    BY <2>2
  <2>4. x \notin ReachAvoiding(N, {N.entry}, {bb(d)})
    BY <1>1, <1>5, <2>2, <2>3, WayBack
  <2>5. bb(d) \in N.block
    BY <1>1, <2>2, NowIs
  <2> QED BY <1>3, <2>2, <2>4, <2>5
<1>10. ASSUME NEW x \in N.block, NEW d \in F.dom[x[2]], d # x[2] PROVE EndOf(d) \in dom[x]
  <2>1. x[2] \in F.block
    BY <1>1, NowIs
  <2>2. d \in F.block /\ x[2] \notin ReachAvoiding(F, {F.entry}, {d})
    BY <1>4, <2>1
  <2>3. x \notin ReachAvoiding(N, {N.entry}, {EndOf(d)})
    BY <1>1, <1>10, <2>2, WayThroughEnd
  <2>4. EndOf(d) \in N.block
    BY <1>1, <2>2, NowIs
  <2> QED BY <1>3, <2>3, <2>4
<1>11. ASSUME NEW b \in F.block, NEW d \in F.block, bb(d) \in dom[bb(b)] PROVE d \in F.dom[b]
  <2>1. bb(b) \in N.block /\ {d} \in SUBSET F.block
    BY <1>1, NowIs
  <2>2. bb(b) \notin ReachAvoiding(N, {N.entry}, {bb(d)})
    BY <1>3, <1>11, <2>1
  <2>3. b \notin ReachAvoiding(F, {F.entry}, {d})
    BY <1>1, <1>5, <2>1, <2>2, WayForth
  <2> QED BY <1>4, <2>3
<1>12. \A b, c : bb(b) = bb(c) => b = c
  <2>1. \A b : bb(b)[2] = b
    BY DEF bb
  <2> QED BY <2>1
<1>13. \A b \in F.block : \A p \in {"then", "else", "tail"} : <<p, b>> # bb(b) /\ \A c \in F.block : <<p, b>> # bb(c)
  BY DEF bb
<1>14. ASSUME NEW b \in F.block PROVE Preds(N, bb(b)) = {EndOf(p) : p \in Preds(F, b)}
  <2>1. ASSUME NEW x \in N.block, bb(b) \in SuccSet(N, x) PROVE \E p \in Preds(F, b) : x = EndOf(p)
    <3>1. x[2] \in F.block
      BY <1>1, NowIs
    <3>2. CASE x = EndOf(x[2])
      <4>1. PICK s \in SuccSet(F, x[2]) : bb(b) = bb(s)
        BY <1>1, <2>1, <3>1, <3>2, NowIs
      <4>2. x[2] \in Preds(F, b)
        BY <1>12, <3>1, <4>1 DEF Preds
      <4> QED BY <3>2, <4>2
    <3>3. CASE x[2] \in Cut /\ (x = bb(x[2]) \/ x = <<"then", x[2]>> \/ x = <<"else", x[2]>>)
      <4>1. bb(b) \in {<<"then", x[2]>>, <<"else", x[2]>>, EndOf(x[2])}
        BY <1>1, <2>1, <3>3, SuccWithin
      <4>2. EndOf(x[2]) = <<"tail", x[2]>>
        BY <3>3 DEF EndOf, Cut
      <4> QED BY <1>13, <3>1, <4>1, <4>2
    <3> QED BY <1>1, <3>2, <3>3, NowIs
  <2>2. ASSUME NEW p \in Preds(F, b) PROVE EndOf(p) \in N.block /\ bb(b) \in SuccSet(N, EndOf(p))
    BY <1>1, NowIs DEF Preds
  <2> QED BY <2>1, <2>2 DEF Preds
<1>15. ASSUME NEW b \in Cut PROVE Preds(N, <<"tail", b>>) = {<<"then", b>>, <<"else", b>>}
  <2>1. b \in F.block /\ EndOf(b) = <<"tail", b>>
    BY DEF EndOf, Cut
  <2>2. ASSUME NEW x \in N.block, <<"tail", b>> \in SuccSet(N, x) PROVE x \in {<<"then", b>>, <<"else", b>>}
    <3>1. x[2] \in F.block
      BY <1>1, NowIs
    <3>2. CASE x = EndOf(x[2])
      <4>1. PICK s \in SuccSet(F, x[2]) : <<"tail", b>> = bb(s)
        BY <1>1, <2>2, <3>1, <3>2, NowIs
      <4> QED BY <4>1 DEF bb
    <3>3. CASE x[2] \in Cut /\ (x = bb(x[2]) \/ x = <<"then", x[2]>> \/ x = <<"else", x[2]>>)
      <4>1. EndOf(x[2]) = <<"tail", x[2]>>
        BY <3>3 DEF EndOf, Cut
      <4>2. CASE x = bb(x[2])
        <5>1. <<"tail", b>> \in {<<"then", x[2]>>, <<"else", x[2]>>}
          BY <1>1, <2>2, <3>3, <4>2, NowIs
        <5> QED BY <5>1
      <4>3. CASE x \in {<<"then", x[2]>>, <<"else", x[2]>>}
        <5>1. <<"tail", b>> = <<"tail", x[2]>>
          BY <1>1, <2>2, <3>3, <4>1, <4>3, NowIs
        <5>2. b = x[2]
          BY <5>1
        <5> QED BY <4>3, <5>2
      <4> QED BY <3>3, <4>2, <4>3
    <3> QED BY <1>1, <3>2, <3>3, NowIs
  <2>3. \A p \in {"then", "else"} : <<p, b>> \in N.block /\ <<"tail", b>> \in SuccSet(N, <<p, b>>)
    BY <1>1, <2>1, NowIs
  <2> QED BY <2>2, <2>3 DEF Preds
<1> QED BY <1>1, <1>2, <1>6, <1>7, <1>8, <1>9, <1>10, <1>11, <1>14, <1>15

-----------------------------------------------------------------------------
(* The function at the end.                                                 *)

\* The invariant, when all is done.
Finished == DupInv /\ PlacesInv /\ pc = "done"

\* What the pass leaves of a block.
LEMMA WholeIs ==
  ASSUME Finished, NEW b \in F.block, b \notin Cut
  PROVE  /\ Now.code[bb(b)] = F.code[b] /\ Now.succ[bb(b)] = Leaves(b) /\ EndOf(b) = bb(b)
<1>1. Whole(b)
  BY DEF Finished, DupInv
<1>2. <<"tail", b>> \notin DOMAIN M.code
  BY DEF Cut
<1> QED BY <1>1, <1>2 DEF Whole, EndOf, Now

\* And the blocks there are then.
LEMMA PartsAre ==
  ASSUME Finished, NEW b \in Cut
  PROVE  /\ b \in F.block /\ EndOf(b) = <<"tail", b>> /\ Cloned(b) = Len(Body(b)) /\ Len(Body(b)) \in Nat
         /\ Now.code[bb(b)].phis = F.code[b].phis /\ Now.code[bb(b)].body = << <<"isnull", b>> >>
         /\ Now.code[bb(b)].term = <<"test", b>>
         /\ \A side \in {"then", "else"} :
              Now.code[<<side, b>>] = [phis |-> <<>>, term |-> <<"br", b>>,
                                       body |-> [k \in 1..Len(Body(b)) |-> <<side, Body(b)[k][2]>>]]
         /\ Now.code[<<"tail", b>>].body = <<>> /\ Now.code[<<"tail", b>>].term = F.code[b].term
         /\ Now.succ[<<"tail", b>>] = Leaves(b)
         /\ \A v \in ToSet(Now.code[<<"tail", b>>].phis) : ClonePhi(v, b)
         /\ \A k \in 1..Len(Body(b)) :
              Body(b)[k] \notin F.void => <<"phi", Body(b)[k][2]>> \in ToSet(Now.code[<<"tail", b>>].phis)
<1>1. b \in F.block /\ EndOf(b) = <<"tail", b>> /\ Now.code = M.code /\ Now.succ = M.succ /\ pc = "done"
  BY DEF Cut, EndOf, Now, Finished
<1>2. Cloned(b) = Len(Body(b)) /\ ~BeingCloned(b)
  BY <1>1 DEF Cloned, BeingCloned
<1>3. Len(Body(b)) \in Nat
  BY <1>1, BlockIs DEF Finished, DupInv
<1>4. Halves(b)
  BY <1>1 DEF Finished, DupInv
<1>5. Tests(b) /\ PhisThere(b)
  BY DEF Finished, PlacesInv
<1>6. /\ M.code[bb(b)].phis = F.code[b].phis /\ M.succ[<<"tail", b>>] = Leaves(b)
      /\ CloneSide("then", b) /\ CloneSide("else", b)
      /\ \A v \in ToSet(M.code[<<"tail", b>>].phis) : ClonePhi(v, b)
  BY <1>1, <1>4 DEF Halves
<1>7. M.code[<<"tail", b>>].term = F.code[b].term
  <2>1. PICK p, q, t : p = M.code[<<"tail", b>>].phis /\ q = M.code[<<"tail", b>>].body /\ t = F.code[b].term
    OBVIOUS
  <2>2. M.code[<<"tail", b>>] = [phis |-> p, term |-> t, body |-> q]
    BY <1>4, <2>1 DEF Halves
  <2> QED BY <2>1, <2>2
<1>8. \A side \in {"then", "else"} :
        M.code[<<side, b>>] = [phis |-> <<>>, term |-> <<"br", b>>,
                               body |-> [k \in 1..Len(Body(b)) |-> <<side, Body(b)[k][2]>>]]
  BY <1>2, <1>6 DEF CloneSide
<1>9. M.code[bb(b)].body = << <<"isnull", b>> >> /\ M.code[bb(b)].term = <<"test", b>>
  BY <1>5 DEF Tests
<1>10. /\ M.code[<<"tail", b>>].body = <<>>
       /\ \A k \in 1..Len(Body(b)) :
            Body(b)[k] \notin F.void => <<"phi", Body(b)[k][2]>> \in ToSet(M.code[<<"tail", b>>].phis)
  BY <1>2, <1>5 DEF PhisThere
<1> QED BY <1>1, <1>2, <1>3, <1>6, <1>7, <1>8, <1>9, <1>10

\* What was replaced, at the end.
LEMMA ReplacedIs ==
  ASSUME Finished
  PROVE  /\ \A v : HasClone(v) <=> \E b \in Cut : \E k \in 1..Len(Body(b)) : v = Body(b)[k]
         /\ \A v : HasClone(v) => v[1] = "inst"
         /\ \A v : Current(v) = IF v \notin F.void /\ HasClone(v) THEN <<"phi", v[2]>> ELSE v
         /\ \A b \in F.block : ~HasClone(F.code[b].term) /\ \A v \in ToSet(F.code[b].phis) : ~HasClone(v)
         /\ \A b \in F.block : b \notin Cut => \A k \in 1..Len(Body(b)) : ~HasClone(Body(b)[k])
<1>1. \A b : Cloned(b) = Len(Body(b))
  BY DEF Finished, Cloned
<1>2. \A v : HasClone(v) <=> \E b \in Cut : \E k \in 1..Len(Body(b)) : v = Body(b)[k]
  BY <1>1 DEF HasClone
<1>3. \A v : HasClone(v) => v[1] = "inst"
  <2> SUFFICES ASSUME NEW v, HasClone(v) PROVE v[1] = "inst"
    OBVIOUS
  <2>1. v = <<"inst", v[2]>>
    BY ClonedIsInst DEF Finished
  <2> QED BY <2>1
<1>4. \A v : Current(v) = IF v \notin F.void /\ HasClone(v) THEN <<"phi", v[2]>> ELSE v
  BY DEF Finished, PlacesInv, Replaced, Current
<1>5. F \in RIVFunctions /\ Cut \subseteq F.block
  BY DEF Finished, DupInv, Cut
<1>6. ASSUME NEW b \in F.block PROVE ~HasClone(F.code[b].term) /\ \A v \in ToSet(F.code[b].phis) : ~HasClone(v)
  BY <1>2, <1>5, OnePlaceEach
<1>7. ASSUME NEW b \in F.block, b \notin Cut, NEW k \in 1..Len(Body(b)) PROVE ~HasClone(Body(b)[k])
  BY <1>2, <1>5, <1>7, OnePlaceEach
<1> QED BY <1>2, <1>3, <1>4, <1>6, <1>7

\* What the proofs need of the values of a function.
LEMMA ValuesAre ==
  ASSUME F \in RIVFunctions
  PROVE  /\ F.dom = DominatorsOf(F) /\ UsesThere(F)
         /\ F.params \subseteq {"arg"} \X Nat /\ F.globals \subseteq {"global"} \X Nat
         /\ \A b \in F.block : F.ints[b] \subseteq Instructions(F, b) \ F.void
         /\ \A v \in DOMAIN F.from : Len(F.from[v]) = Len(F.uses[v])
         /\ \A b, c \in F.block : /\ F.code[b].term \notin ToSet(F.code[c].phis)
                                 /\ \A v : v \in Instructions(F, b) /\ v \in Instructions(F, c) => b = c
<1>1. WellFormedValues(F)
  BY ValuesAssumption
<1> QED BY <1>1 DEF WellFormedValues

\* An instruction of a block.
LEMMA InstructionIs ==
  ASSUME F \in RIVFunctions, NEW b \in F.block, NEW v \in Instructions(F, b)
  PROVE  /\ v \in DOMAIN F.uses /\ v = <<"inst", v[2]>>
         /\ v \in ToSet(F.code[b].phis) \/ v = F.code[b].term \/ \E k \in 1..Len(Body(b)) : v = Body(b)[k]
<1>1. v \in ToSet(F.code[b].phis) \/ v = F.code[b].term \/ \E k \in 1..Len(Body(b)) : v = Body(b)[k]
  BY BlockIs DEF Instructions, ToSet, Body
<1>2. v \in DOMAIN F.uses
  <2>1. CASE v \in ToSet(F.code[b].phis)
    <3>1. v \in DOMAIN F.from
      BY <2>1, BlockIs DEF ToSet
    <3> QED BY <3>1, FunctionIs
  <2>2. CASE v = F.code[b].term \/ \E k \in 1..Len(Body(b)) : v = Body(b)[k]
    BY <2>2, BlockIs
  <2> QED BY <1>1, <2>1, <2>2
<1> QED BY <1>1, <1>2, FunctionIs

\* Where the value v of the block d is now.
LEMMA PlaceOf ==
  ASSUME Finished, NEW d \in F.block, NEW v \in Instructions(F, d), v \notin F.void
  PROVE  /\ v = F.code[d].term => Current(v) = v /\ Now.code[EndOf(d)].term = v
         /\ v # F.code[d].term => \E y \in {bb(d), EndOf(d)} :
              Current(v) \in Instructions(Now, y) /\ Current(v) # Now.code[y].term
<1>1. F \in RIVFunctions
  BY DEF Finished, DupInv
<1>2. /\ v = <<"inst", v[2]>>
      /\ v \in ToSet(F.code[d].phis) \/ v = F.code[d].term \/ \E k \in 1..Len(Body(d)) : v = Body(d)[k]
  BY <1>1, InstructionIs
<1>3. v = F.code[d].term => Current(v) = v /\ Now.code[EndOf(d)].term = v
  <2> SUFFICES ASSUME v = F.code[d].term PROVE Current(v) = v /\ Now.code[EndOf(d)].term = v
    OBVIOUS
  <2>1. ~HasClone(v)
    BY ReplacedIs
  <2>2. Current(v) = v
    BY <2>1, ReplacedIs
  <2>3. CASE d \in Cut
    BY <2>2, <2>3, PartsAre
  <2>4. CASE d \notin Cut
    BY <2>2, <2>4, WholeIs
  <2> QED BY <2>3, <2>4
<1>4. ASSUME v # F.code[d].term, d \notin Cut
      PROVE  Current(v) \in Instructions(Now, bb(d)) /\ Current(v) # Now.code[bb(d)].term
  <2>1. Now.code[bb(d)] = F.code[d]
    BY <1>4, WholeIs
  <2>2. ~HasClone(v)
    BY <1>2, <1>4, ReplacedIs
  <2>3. Current(v) = v
    BY <2>2, ReplacedIs
  <2>4. Instructions(Now, bb(d)) = Instructions(F, d)
    BY <2>1 DEF Instructions
  <2> QED BY <1>4, <2>1, <2>3, <2>4
<1>5. ASSUME v \in ToSet(F.code[d].phis), d \in Cut
      PROVE  Current(v) \in Instructions(Now, bb(d)) /\ Current(v) # Now.code[bb(d)].term
  <2>1. Now.code[bb(d)].phis = F.code[d].phis /\ Now.code[bb(d)].term = <<"test", d>>
    BY <1>5, PartsAre
  <2>2. ~HasClone(v)
    BY <1>5, ReplacedIs
  <2>3. Current(v) = v
    BY <2>2, ReplacedIs
  <2>4. v \in Instructions(Now, bb(d))
    BY <1>5, <2>1 DEF Instructions
  <2>5. v # <<"test", d>>
    BY <1>2
  <2> QED BY <2>1, <2>3, <2>4, <2>5
<1>6. ASSUME NEW k \in 1..Len(Body(d)), v = Body(d)[k], d \in Cut
      PROVE  Current(v) \in Instructions(Now, EndOf(d)) /\ Current(v) # Now.code[EndOf(d)].term
  <2>1. /\ EndOf(d) = <<"tail", d>> /\ Now.code[EndOf(d)].term = F.code[d].term
        /\ <<"phi", v[2]>> \in ToSet(Now.code[EndOf(d)].phis)
    BY <1>6, PartsAre
  <2>2. HasClone(v)
    BY <1>6, ReplacedIs
  <2>3. Current(v) = <<"phi", v[2]>>
    BY <2>2, ReplacedIs
  <2>4. <<"phi", v[2]>> \in Instructions(Now, EndOf(d))
    BY <2>1 DEF Instructions
  <2>5. F.code[d].term \in DOMAIN F.uses
    BY <1>1, BlockIs
  <2>6. F.code[d].term[1] = "inst"
    BY <1>1, <2>5, FunctionIs
  <2>7. <<"phi", v[2]>> # F.code[d].term
    BY <2>6
  <2> QED BY <2>1, <2>3, <2>4, <2>7
<1> QED BY <1>2, <1>3, <1>4, <1>5, <1>6

\* A value that is there in a block is there, as it is now, in the parts of
\* the block.
LEMMA StaysThere ==
  ASSUME Finished, NEW b \in F.block, NEW d \in F.dom[b], NEW v, v \notin F.void, Dominates(F, F.dom, v, d, b),
         NEW x \in Now.block, x[2] = b, d # b \/ x = EndOf(b)
  PROVE  \E y \in DominatorsOf(Now)[x] : y[2] = d /\ Dominates(Now, DominatorsOf(Now), Current(v), y, x)
<1>1. PICK dom : dom = DominatorsOf(Now)
  OBVIOUS
<1>2. DupInv /\ Parts /\ F \in RIVFunctions /\ F.dom = DominatorsOf(F)
  <2>1. DupInv /\ Parts /\ F \in RIVFunctions
    BY DEF Finished, DupInv, PlacesInv
  <2> QED BY <2>1, ValuesAre
<1>3. x \in dom[x] /\ \A e \in F.dom[x[2]] : e \in F.block /\ bb(e) \in dom[x]
  BY <1>1, <1>2, GraphNow
<1>4. \A e \in F.dom[x[2]] : e # x[2] => EndOf(e) \in dom[x]
  BY <1>1, <1>2, GraphNow
<1>5. d \in F.block /\ bb(d) \in dom[x] /\ EndOf(d) \in dom[x] /\ bb(d)[2] = d /\ EndOf(d)[2] = d
  <2>1. d \in F.block /\ bb(d) \in dom[x]
    BY <1>3
  <2>2. EndOf(d)[2] = d
    BY <1>2, <2>1, NowIs
  <2>3. EndOf(d) \in dom[x]
    BY <1>3, <1>4
  <2> QED BY <2>1, <2>2, <2>3 DEF bb
<1>6. CASE v = F.code[d].term
  <2>1. v \in Instructions(F, d)
    BY <1>6 DEF Instructions
  <2>2. Current(v) = v /\ Now.code[EndOf(d)].term = v
    BY <1>5, <1>6, <2>1, PlaceOf
  <2>3. F.succ[d] # <<>> /\ F.succ[d][1] \in F.dom[b] /\ Preds(F, F.succ[d][1]) = {d}
    BY <1>6 DEF Dominates, AfterInvoke
  <2>4. PICK s : s = F.succ[d][1]
    OBVIOUS
  <2>5. bb(s) \in dom[x] /\ s \in F.block
    BY <1>3, <2>3, <2>4
  <2>6. Now.succ[EndOf(d)] = Leaves(d)
    BY <1>5, WholeIs, PartsAre
  <2>7. Now.succ[EndOf(d)] # <<>> /\ Now.succ[EndOf(d)][1] = bb(s)
    <3>1. PICK q \in Seq(F.block) : q = F.succ[d]
      BY <1>2, <1>5, CodeAssumption DEF WellFormedCode
    <3>2. 1 \in DOMAIN q
      BY <2>3, <3>1, EmptySeq, LenProperties
    <3>3. Leaves(d) = [k \in DOMAIN q |-> bb(q[k])]
      BY <3>1 DEF Leaves
    <3> QED BY <2>4, <2>6, <3>1, <3>2, <3>3
  <2>8. Preds(Now, bb(s)) = {EndOf(p) : p \in Preds(F, s)}
    BY <1>2, <2>5, GraphNow
  <2>9. Preds(Now, bb(s)) = {EndOf(d)}
    BY <2>3, <2>4, <2>8
  <2>10. AfterInvoke(Now, dom, EndOf(d), x)
    BY <2>5, <2>7, <2>9 DEF AfterInvoke
  <2>11. Dominates(Now, dom, Current(v), EndOf(d), x)
    BY <2>2, <2>10 DEF Dominates
  <2> QED BY <1>1, <1>5, <2>11
<1>7. CASE v # F.code[d].term
  <2>1. v \in Instructions(F, d)
    BY <1>7 DEF Dominates
  <2>2. PICK y \in {bb(d), EndOf(d)} : Current(v) \in Instructions(Now, y) /\ Current(v) # Now.code[y].term
    BY <1>5, <1>7, <2>1, PlaceOf
  <2>3. Dominates(Now, dom, Current(v), y, x)
    BY <2>2 DEF Dominates
  <2> QED BY <1>1, <1>5, <2>2, <2>3
<1> QED BY <1>6, <1>7

\* Arguments and globals are not replaced.
LEMMA OutsideIs ==
  ASSUME Finished, NEW v, v[1] \in {"arg", "global"}
  PROVE  Current(v) = v
<1>1. ~HasClone(v)
  BY ReplacedIs
<1> QED BY <1>1, ReplacedIs

\* A value that is there at the end of a block still is.
LEMMA EndsThere ==
  ASSUME Finished, NEW b \in F.block, NEW v, v \notin F.void, ThereAtEnd(F, F.dom, v, b)
  PROVE  ThereAtEnd(Now, DominatorsOf(Now), Current(v), EndOf(b))
<1>1. CASE v[1] \in {"arg", "global"}
  <2>1. Current(v) = v
    BY <1>1, OutsideIs
  <2> QED BY <1>1, <2>1 DEF ThereAtEnd
<1>2. CASE v[1] \notin {"arg", "global"}
  <2>1. PICK d \in F.dom[b] : Dominates(F, F.dom, v, d, b)
    BY <1>2 DEF ThereAtEnd
  <2>2. EndOf(b) \in Now.block /\ EndOf(b)[2] = b
    BY NowIs DEF Finished, PlacesInv
  <2>3. PICK x : x = EndOf(b)
    OBVIOUS
  <2>4. \E y \in DominatorsOf(Now)[x] : y[2] = d /\ Dominates(Now, DominatorsOf(Now), Current(v), y, x)
    BY <2>1, <2>2, <2>3, StaysThere
  <2> QED BY <2>3, <2>4 DEF ThereAtEnd
<1> QED BY <1>1, <1>2

\* What comes before an instruction of a body, and before a terminator.
LEMMA EarlierIs ==
  ASSUME F \in RIVFunctions, NEW b \in F.block
  PROVE  /\ \A k \in 1..Len(Body(b)) :
              Earlier(F, b, Body(b)[k]) = ToSet(F.code[b].phis) \cup {Body(b)[j] : j \in 1..(k - 1)}
         /\ Earlier(F, b, F.code[b].term) = ToSet(F.code[b].phis) \cup ToSet(Body(b))
<1>1. ASSUME NEW k \in 1..Len(Body(b))
      PROVE  Earlier(F, b, Body(b)[k]) = ToSet(F.code[b].phis) \cup {Body(b)[j] : j \in 1..(k - 1)}
  <2>1. PICK v, body : v = Body(b)[k] /\ body = F.code[b].body
    OBVIOUS
  <2>2. v \notin ToSet(F.code[b].phis) /\ v # F.code[b].term
    BY <2>1, OnePlaceEach
  <2>3. k \in DOMAIN body /\ \A j \in DOMAIN body : body[j] = v => j = k
    <3>1. DOMAIN body = 1..Len(Body(b)) /\ body = Body(b)
      BY <2>1, BlockIs DEF Body
    <3> QED BY <2>1, <3>1, OnePlaceEach
  <2>4. (CHOOSE j \in DOMAIN body : body[j] = v) = k
    BY <2>1, <2>3 DEF Body
  <2>5. Earlier(F, b, v) = ToSet(F.code[b].phis) \cup {body[j] : j \in 1..(k - 1)}
    BY <2>1, <2>2, <2>4 DEF Earlier
  <2> QED BY <2>1, <2>5 DEF Body
<1>2. Earlier(F, b, F.code[b].term) = ToSet(F.code[b].phis) \cup ToSet(Body(b))
  <2>1. F.code[b].term \notin ToSet(F.code[b].phis)
    BY ValuesAre
  <2> QED BY <2>1 DEF Earlier, Body
<1> QED BY <1>1, <1>2

\* The use u of block x is of values that are there.
UseThere(f, dom, x, u) ==
  IF u \in ToSet(f.code[x].phis)
  THEN /\ ToSet(f.from[u]) = Preds(f, x)
       /\ \A k \in DOMAIN f.uses[u] : ThereAtEnd(f, dom, f.uses[u][k], f.from[u][k])
  ELSE \A k \in DOMAIN f.uses[u] : There(f, dom, f.uses[u][k], x, u)

\* The property, use by use.
LEMMA UsesAre ==
  ASSUME NEW f
  PROVE  UsesThere(f) <=> \A x \in Reachable(f) : \A u \in Instructions(f, x) : UseThere(f, DominatorsOf(f), x, u)
BY DEF UsesThere, UseThere

\* Instructions without clones.
LEMMA OldUse ==
  ASSUME Finished, NEW b \in F.block, NEW u \in Instructions(F, b), ~HasClone(u)
  PROVE  /\ DOMAIN Now.uses[u] = DOMAIN F.uses[u]
         /\ \A k \in DOMAIN F.uses[u] : /\ Now.uses[u][k] = Current(F.uses[u][k])
                                        /\ F.uses[u][k] \notin F.void
<1>1. F \in RIVFunctions
  BY DEF Finished, DupInv
<1>2. u \in DOMAIN F.uses
  BY <1>1, InstructionIs
<1>3. Now.uses[u] = CurrentAll(F.uses[u])
  BY <1>2 DEF Finished, PlacesInv, OldUses, Now
<1>4. \A k \in DOMAIN F.uses[u] : F.uses[u][k] \notin F.void
  BY <1>1, <1>2, OperandsAre
<1> QED BY <1>3, <1>4 DEF CurrentAll

\* The uses of F, for the reachable blocks.
LEMMA UsesBefore ==
  ASSUME Finished, NEW b \in Reachable(F), NEW u \in Instructions(F, b)
  PROVE  UseThere(F, F.dom, b, u)
<1>1. F \in RIVFunctions
  BY DEF Finished, DupInv
<1>2. UsesThere(F) /\ F.dom = DominatorsOf(F)
  BY <1>1, ValuesAre
<1> QED BY <1>2, UsesAre

\* A phi of the function as it was still gets values that are there.
LEMMA PhisStayThere ==
  ASSUME Finished, NEW b \in Reachable(F), b \in F.block, NEW u \in ToSet(F.code[b].phis)
  PROVE  /\ ToSet(Now.from[u]) = Preds(Now, bb(b))
         /\ \A k \in DOMAIN Now.uses[u] : ThereAtEnd(Now, DominatorsOf(Now), Now.uses[u][k], Now.from[u][k])
<1>1. F \in RIVFunctions /\ DupInv /\ Parts /\ F.dom = DominatorsOf(F)
  <2>1. F \in RIVFunctions /\ DupInv /\ Parts
    BY DEF Finished, DupInv, PlacesInv
  <2> QED BY <2>1, ValuesAre
<1>2. u \in Instructions(F, b) /\ ~HasClone(u)
  BY ReplacedIs DEF Instructions
<1>3. u \in DOMAIN F.from /\ u \in DOMAIN F.uses
  <2>1. u \in DOMAIN F.from
    BY <1>1, BlockIs DEF ToSet
  <2> QED BY <1>1, <2>1, FunctionIs
<1>4. ToSet(F.from[u]) = Preds(F, b) /\ \A k \in DOMAIN F.uses[u] : ThereAtEnd(F, F.dom, F.uses[u][k], F.from[u][k])
  <2>1. UseThere(F, F.dom, b, u)
    BY <1>2, UsesBefore
  <2> QED BY <2>1 DEF UseThere
<1>5. Now.from[u] = [i \in DOMAIN F.from[u] |-> EndOf(F.from[u][i])]
  BY <1>1, <1>3 DEF DupInv, FromEnds, Now
<1>6. ToSet(Now.from[u]) = {EndOf(p) : p \in ToSet(F.from[u])}
  BY <1>5 DEF ToSet
<1>7. Preds(Now, bb(b)) = {EndOf(p) : p \in Preds(F, b)}
  BY <1>1, GraphNow
<1>8. DOMAIN F.from[u] = DOMAIN F.uses[u] /\ \A k \in DOMAIN F.from[u] : F.from[u][k] \in F.block
  <2>1. PICK s, t : s = F.from[u] /\ t = F.uses[u]
    OBVIOUS
  <2>2. WellFormedCode(F)
    BY <1>1, CodeAssumption
  <2>3. s \in Seq(F.block) /\ t \in Seq({"arg", "global", "inst"} \X Nat)
    BY <1>3, <2>1, <2>2 DEF WellFormedCode
  <2>4. Len(s) = Len(t)
    BY <1>1, <1>3, <2>1, ValuesAre
  <2>5. DOMAIN s = DOMAIN t /\ \A k \in DOMAIN s : s[k] \in F.block
    BY <2>3, <2>4, LenProperties, ElementOfSeq
  <2> QED BY <2>1, <2>5
<1>9. ASSUME NEW k \in DOMAIN Now.uses[u]
      PROVE  ThereAtEnd(Now, DominatorsOf(Now), Now.uses[u][k], Now.from[u][k])
  <2>1. k \in DOMAIN F.uses[u] /\ Now.uses[u][k] = Current(F.uses[u][k]) /\ F.uses[u][k] \notin F.void
    BY <1>1, <1>2, OldUse
  <2>2. PICK v, p : v = F.uses[u][k] /\ p = F.from[u][k]
    OBVIOUS
  <2>3. p \in F.block /\ ThereAtEnd(F, F.dom, v, p) /\ v \notin F.void
    BY <1>4, <1>8, <2>1, <2>2
  <2>4. ThereAtEnd(Now, DominatorsOf(Now), Current(v), EndOf(p))
    BY <2>3, EndsThere
  <2>5. Now.from[u][k] = EndOf(p)
    BY <1>5, <1>8, <2>1, <2>2
  <2> QED BY <2>1, <2>2, <2>4, <2>5
<1> QED BY <1>4, <1>6, <1>7, <1>9

\* A value from another block.
LEMMA FromAnother ==
  ASSUME Finished, NEW b \in F.block, NEW d \in F.dom[b] \ {b},
         NEW v, v \notin F.void, Dominates(F, F.dom, v, d, b),
         NEW x \in Now.block, x[2] = b, NEW u
  PROVE  There(Now, DominatorsOf(Now), Current(v), x, u)
<1>1. \E y \in DominatorsOf(Now)[x] : y[2] = d /\ Dominates(Now, DominatorsOf(Now), Current(v), y, x)
  BY StaysThere
<1>2. PICK y \in DominatorsOf(Now)[x] : y[2] = d /\ Dominates(Now, DominatorsOf(Now), Current(v), y, x)
  BY <1>1
<1>3. y \in DominatorsOf(Now)[x] \ {x}
  BY <1>2
<1> QED BY <1>2, <1>3 DEF There

\* The uses of a block that was not split.
LEMMA WholeThere ==
  ASSUME Finished, NEW b \in Reachable(F), b \in F.block, b \notin Cut, NEW u \in Instructions(Now, bb(b))
  PROVE  UseThere(Now, DominatorsOf(Now), bb(b), u)
<1>1. Now.code[bb(b)] = F.code[b] /\ bb(b) \in Now.block /\ bb(b)[2] = b /\ F \in RIVFunctions
  <2>1. Now.code[bb(b)] = F.code[b]
    BY WholeIs
  <2>2. bb(b) \in Now.block
    BY NowIs DEF Finished, PlacesInv
  <2> QED BY <2>1, <2>2 DEF bb, Finished, DupInv
<1>2. u \in Instructions(F, b)
  BY <1>1 DEF Instructions
<1>3. CASE u \in ToSet(F.code[b].phis)
  <2>1. /\ ToSet(Now.from[u]) = Preds(Now, bb(b))
        /\ \A k \in DOMAIN Now.uses[u] : ThereAtEnd(Now, DominatorsOf(Now), Now.uses[u][k], Now.from[u][k])
    BY <1>3, PhisStayThere
  <2> QED BY <1>1, <1>3, <2>1 DEF UseThere
<1>4. CASE u \notin ToSet(F.code[b].phis)
  <2>1. u = F.code[b].term \/ \E k \in 1..Len(Body(b)) : u = Body(b)[k]
    BY <1>1, <1>2, <1>4, InstructionIs
  <2>2. ~HasClone(u)
    BY <2>1, ReplacedIs
  <2>3. ASSUME NEW k \in DOMAIN Now.uses[u] PROVE There(Now, DominatorsOf(Now), Now.uses[u][k], bb(b), u)
    <3>1. k \in DOMAIN F.uses[u] /\ Now.uses[u][k] = Current(F.uses[u][k]) /\ F.uses[u][k] \notin F.void
      BY <1>2, <2>2, OldUse
    <3>2. PICK v : v = F.uses[u][k]
      OBVIOUS
    <3>3. There(F, F.dom, v, b, u)
      <4>1. UseThere(F, F.dom, b, u)
        BY <1>2, UsesBefore
      <4> QED BY <1>4, <3>1, <3>2, <4>1 DEF UseThere
    <3>4. CASE v[1] \in {"arg", "global"}
      <4>1. Current(v) = v
        BY <3>4, OutsideIs
      <4> QED BY <3>1, <3>2, <3>4, <4>1 DEF There
    <3>5. CASE v \in Earlier(F, b, u)
      <4>1. v \in ToSet(F.code[b].phis) \/ \E j \in 1..Len(Body(b)) : v = Body(b)[j]
        <5>1. Len(Body(b)) \in Nat /\ DOMAIN Body(b) = 1..Len(Body(b))
          BY <1>1, BlockIs
        <5>2. CASE u = F.code[b].term
          <6>1. v \in ToSet(F.code[b].phis) \cup ToSet(Body(b))
            BY <1>1, <3>5, <5>2, EarlierIs
          <6> QED BY <5>1, <6>1 DEF ToSet
        <5>3. CASE \E i \in 1..Len(Body(b)) : u = Body(b)[i]
          <6>1. PICK i \in 1..Len(Body(b)) : u = Body(b)[i]
            BY <5>3
          <6>2. v \in ToSet(F.code[b].phis) \cup {Body(b)[j] : j \in 1..(i - 1)}
            BY <1>1, <3>5, <6>1, EarlierIs
          <6>3. \A j \in 1..(i - 1) : j \in 1..Len(Body(b))
            BY <5>1, <6>1
          <6> QED BY <6>2, <6>3
        <5> QED BY <2>1, <5>2, <5>3
      <4>2. ~HasClone(v)
        BY <4>1, ReplacedIs
      <4>3. Current(v) = v
        BY <4>2, ReplacedIs
      <4>4. Earlier(Now, bb(b), u) = Earlier(F, b, u)
        BY <1>1 DEF Earlier
      <4> QED BY <3>1, <3>2, <3>5, <4>3, <4>4 DEF There
    <3>6. CASE \E d \in F.dom[b] \ {b} : Dominates(F, F.dom, v, d, b)
      <4>1. PICK d \in F.dom[b] \ {b} : Dominates(F, F.dom, v, d, b)
        BY <3>6
      <4>2. PICK x : x = bb(b)
        OBVIOUS
      <4>3. x \in Now.block /\ x[2] = b /\ v \notin F.void
        BY <1>1, <3>1, <3>2, <4>2
      <4>4. There(Now, DominatorsOf(Now), Current(v), x, u)
        BY <4>1, <4>3, FromAnother
      <4> QED BY <3>1, <3>2, <4>2, <4>4
    <3> QED BY <3>3, <3>4, <3>5, <3>6 DEF There
  <2> QED BY <1>1, <1>4, <2>3 DEF UseThere
<1> QED BY <1>3, <1>4

\* The names of clones: an instruction of a block has one place.
LEMMA ClonesDiffer ==
  ASSUME F \in RIVFunctions, NEW b \in F.block, NEW side, NEW k \in 1..Len(Body(b)), NEW j \in 1..Len(Body(b)),
         <<side, Body(b)[k][2]>> = <<side, Body(b)[j][2]>>
  PROVE  j = k
<1>1. Body(b)[k] \in DOMAIN F.uses /\ Body(b)[j] \in DOMAIN F.uses
  BY BlockIs
<1>2. Body(b)[k] = <<"inst", Body(b)[k][2]>> /\ Body(b)[j] = <<"inst", Body(b)[j][2]>>
  BY <1>1, FunctionIs
<1>3. Body(b)[k] = Body(b)[j]
  BY <1>2
<1> QED BY <1>3, OnePlaceEach

\* An operand of a clone.
LEMMA CloneUseThere ==
  ASSUME Finished, NEW b \in Reachable(F), b \in Cut, NEW side \in {"then", "else"},
         NEW k \in 1..Len(Body(b)), NEW x, x = <<side, b>>, NEW u, u = <<side, Body(b)[k][2]>>
  PROVE  UseThere(Now, DominatorsOf(Now), x, u)
<1>1. F \in RIVFunctions /\ DupInv /\ Parts /\ b \in F.block /\ F.dom = DominatorsOf(F)
  <2>1. F \in RIVFunctions /\ DupInv /\ Parts /\ b \in F.block
    BY DEF Finished, DupInv, PlacesInv, Cut
  <2> QED BY <2>1, ValuesAre
<1>2. /\ Now.code[x].phis = <<>> /\ Now.code[x].term = <<"br", b>>
      /\ Now.code[x].body = [i \in 1..Len(Body(b)) |-> <<side, Body(b)[i][2]>>]
  <2>1. Now.code[x] = [phis |-> <<>>, term |-> <<"br", b>>,
                       body |-> [i \in 1..Len(Body(b)) |-> <<side, Body(b)[i][2]>>]]
    BY PartsAre
  <2> QED BY <2>1
<1>3. Len(Body(b)) \in Nat /\ Cloned(b) = Len(Body(b)) /\ bb(b) # x /\ x[2] = b
  BY PartsAre DEF bb
<1>4. x \in Now.block /\ bb(b) \in DominatorsOf(Now)[x]
  <2>1. x \in Now.block
    BY <1>1, NowIs
  <2>2. b \in F.dom[x[2]]
    BY <1>1, <1>3, TreeAssumption
  <2> QED BY <1>1, <2>1, <2>2, GraphNow
<1>5. u \notin ToSet(Now.code[x].phis) /\ u # Now.code[x].term /\ ToSet(Now.code[x].phis) = {}
  <2>1. ToSet(<<>>) = {}
    BY DEF ToSet
  <2> QED BY <1>2, <2>1
<1>6. Earlier(Now, x, u) = {Now.code[x].body[j] : j \in 1..(k - 1)}
  <2>1. PICK body : body = Now.code[x].body
    OBVIOUS
  <2>2. k \in DOMAIN body /\ body[k] = u
    BY <1>2, <2>1
  <2>3. \A j \in DOMAIN body : body[j] = u => j = k
    BY <1>1, <1>2, <2>1, ClonesDiffer
  <2>4. (CHOOSE j \in DOMAIN body : body[j] = u) = k
    BY <2>2, <2>3
  <2>5. Earlier(Now, x, u) = ToSet(Now.code[x].phis) \cup {body[j] : j \in 1..(k - 1)}
    BY <1>5, <2>1, <2>4 DEF Earlier
  <2> QED BY <1>5, <2>1, <2>5
<1>7. PICK us : us = F.uses[Body(b)[k]]
  OBVIOUS
<1>8. Now.uses[u] = [i \in DOMAIN us |-> OnSide(side, b, k, us[i])]
  <2>1. CloneUses(b)
    BY DEF Finished, PlacesInv
  <2>2. M.uses[u] = [i \in DOMAIN us |-> OnSide(side, b, k, us[i])]
    BY <1>3, <1>7, <2>1 DEF CloneUses
  <2> QED BY <2>2 DEF Now
<1>9. ASSUME NEW i \in DOMAIN us PROVE There(Now, DominatorsOf(Now), OnSide(side, b, k, us[i]), x, u)
  <2>1. PICK v, w : v = us[i] /\ w = Body(b)[k]
    OBVIOUS
  <2>2. w \in Instructions(F, b) /\ w \in DOMAIN F.uses /\ w \notin ToSet(F.code[b].phis)
    <3>1. w \in DOMAIN F.uses /\ DOMAIN Body(b) = 1..Len(Body(b))
      BY <1>1, <2>1, BlockIs
    <3>2. w \notin ToSet(F.code[b].phis)
      <4>1. \A z \in ToSet(F.code[b].phis) : Body(b)[k] # z
        BY <1>1, OnePlaceEach
      <4> QED BY <2>1, <4>1
    <3> QED BY <2>1, <3>1, <3>2 DEF Instructions, ToSet, Body
  <2>3. v \notin F.void
    BY <1>1, <1>7, <2>1, <2>2, OperandsAre
  <2>4. There(F, F.dom, v, b, w)
    <3>1. UseThere(F, F.dom, b, w)
      BY <2>2, UsesBefore
    <3> QED BY <1>7, <2>1, <2>2, <3>1 DEF UseThere
  <2>5. CASE v[1] \in {"arg", "global"}
    <3>1. \A j \in 1..(k - 1) : v # Body(b)[j]
      <4> SUFFICES ASSUME NEW j \in 1..(k - 1), v = Body(b)[j] PROVE FALSE
        OBVIOUS
      <4>1. j \in 1..Len(Body(b))
        BY <1>3
      <4>2. Body(b)[j] \in DOMAIN F.uses
        BY <1>1, <4>1, BlockIs
      <4>3. v[1] = "inst"
        BY <1>1, <4>2, FunctionIs
      <4> QED BY <2>5, <4>3
    <3>2. OnSide(side, b, k, v) = v
      BY <2>5, <3>1, OutsideIs DEF OnSide
    <3> QED BY <2>1, <2>5, <3>2 DEF There
  <2>6. CASE \E j \in 1..(k - 1) : v = Body(b)[j]
    <3>1. PICK j \in 1..(k - 1) : v = Body(b)[j]
      BY <2>6
    <3>2. OnSide(side, b, k, v) = <<side, v[2]>>
      BY <2>3, <2>6 DEF OnSide
    <3>3. j \in 1..Len(Body(b))
      BY <1>3
    <3>4. Now.code[x].body[j] = <<side, v[2]>>
      BY <1>2, <3>1, <3>3
    <3>5. <<side, v[2]>> \in Earlier(Now, x, u)
      BY <1>6, <3>4
    <3> QED BY <2>1, <3>2, <3>5 DEF There
  <2>7. CASE v \in ToSet(F.code[b].phis)
    <3>1. \A j \in 1..(k - 1) : v # Body(b)[j]
      <4> SUFFICES ASSUME NEW j \in 1..(k - 1) PROVE v # Body(b)[j]
        OBVIOUS
      <4>1. j \in 1..Len(Body(b))
        BY <1>3
      <4> QED BY <1>1, <2>7, <4>1, OnePlaceEach
    <3>2. ~HasClone(v) /\ v \in Instructions(F, b)
      BY <1>1, <2>7, ReplacedIs DEF Instructions
    <3>3. Current(v) = v
      BY <3>2, ReplacedIs
    <3>4. OnSide(side, b, k, v) = v
      BY <3>1, <3>3 DEF OnSide
    <3>5. v \in Instructions(Now, bb(b)) /\ Now.code[bb(b)].term = <<"test", b>>
      BY <2>7, PartsAre DEF Instructions
    <3>6. v = <<"inst", v[2]>>
      BY <1>1, <3>2, InstructionIs
    <3>7. v # Now.code[bb(b)].term
      BY <3>5, <3>6
    <3>8. Dominates(Now, DominatorsOf(Now), v, bb(b), x)
      BY <3>5, <3>7 DEF Dominates
    <3> QED BY <1>3, <1>4, <2>1, <3>4, <3>8 DEF There
  <2>8. CASE \E d \in F.dom[b] \ {b} : Dominates(F, F.dom, v, d, b)
    <3>1. PICK d \in F.dom[b] \ {b} : Dominates(F, F.dom, v, d, b)
      BY <2>8
    <3>2. d \in F.block /\ v \in Instructions(F, d)
      <4>1. d \in F.block
        <5>1. bb(b) \in Now.block /\ bb(b)[2] = b
          BY <1>1, NowIs DEF bb
        <5> QED BY <1>1, <3>1, <5>1, GraphNow
      <4> QED BY <3>1, <4>1 DEF Dominates, Instructions
    <3>3. \A j \in 1..(k - 1) : v # Body(b)[j]
      <4> SUFFICES ASSUME NEW j \in 1..(k - 1), v = Body(b)[j] PROVE FALSE
        OBVIOUS
      <4>1. j \in 1..Len(Body(b)) /\ DOMAIN Body(b) = 1..Len(Body(b))
        BY <1>1, <1>3, BlockIs
      <4>2. v \in Instructions(F, b)
        BY <4>1 DEF Instructions, ToSet, Body
      <4> QED BY <1>1, <3>1, <3>2, <4>2, ValuesAre
    <3>4. OnSide(side, b, k, v) = Current(v)
      BY <3>3 DEF OnSide
    <3>5. There(Now, DominatorsOf(Now), Current(v), x, u)
      BY <1>1, <1>3, <1>4, <2>3, <3>1, FromAnother
    <3> QED BY <2>1, <3>4, <3>5
  <2>9. v[1] \in {"arg", "global"} \/ v \in Earlier(F, b, w) \/ \E d \in F.dom[b] \ {b} : Dominates(F, F.dom, v, d, b)
    BY <2>4 DEF There
  <2>10. Earlier(F, b, w) = ToSet(F.code[b].phis) \cup {Body(b)[j] : j \in 1..(k - 1)}
    BY <1>1, <2>1, EarlierIs
  <2> QED BY <2>5, <2>6, <2>7, <2>8, <2>9, <2>10
<1> QED BY <1>5, <1>8, <1>9 DEF UseThere

\* The uses of the clones' blocks.
LEMMA SidesThere ==
  ASSUME Finished, NEW b \in Reachable(F), b \in Cut, NEW side \in {"then", "else"}, NEW x, x = <<side, b>>,
         NEW u \in Instructions(Now, x)
  PROVE  UseThere(Now, DominatorsOf(Now), x, u)
<1>1. Now.code[x] = [phis |-> <<>>, term |-> <<"br", b>>,
                     body |-> [i \in 1..Len(Body(b)) |-> <<side, Body(b)[i][2]>>]]
  BY PartsAre
<1>2. /\ ToSet(Now.code[x].phis) = {} /\ Now.code[x].term = <<"br", b>>
      /\ \A v \in ToSet(Now.code[x].body) : \E k \in 1..Len(Body(b)) : v = <<side, Body(b)[k][2]>>
  BY <1>1 DEF ToSet
<1>3. CASE u = <<"br", b>>
  <2>1. Now.uses[u] = <<>>
    BY <1>3 DEF Finished, PlacesInv, Tests, Now
  <2>2. DOMAIN Now.uses[u] = {}
    BY <2>1
  <2> QED BY <1>2, <2>2 DEF UseThere
<1>4. CASE \E k \in 1..Len(Body(b)) : u = <<side, Body(b)[k][2]>>
  BY <1>4, CloneUseThere
<1> QED BY <1>2, <1>3, <1>4 DEF Instructions

\* The uses of a split block's tail.
LEMMA TailThere ==
  ASSUME Finished, NEW b \in Reachable(F), b \in Cut, NEW x, x = <<"tail", b>>, NEW u \in Instructions(Now, x)
  PROVE  UseThere(Now, DominatorsOf(Now), x, u)
<1>1. F \in RIVFunctions /\ DupInv /\ Parts /\ b \in F.block /\ F.dom = DominatorsOf(F)
  <2>1. F \in RIVFunctions /\ DupInv /\ Parts /\ b \in F.block
    BY DEF Finished, DupInv, PlacesInv, Cut
  <2> QED BY <2>1, ValuesAre
<1>2. /\ EndOf(b) = x /\ Now.code[x].body = <<>> /\ Now.code[x].term = F.code[b].term
      /\ \A v \in ToSet(Now.code[x].phis) : ClonePhi(v, b)
      /\ \A k \in 1..Len(Body(b)) : Body(b)[k] \notin F.void => <<"phi", Body(b)[k][2]>> \in ToSet(Now.code[x].phis)
  BY PartsAre
<1>3. x \in Now.block /\ x[2] = b /\ bb(b) # x
  <2>1. EndOf(b) \in Now.block
    BY <1>1, NowIs
  <2> QED BY <1>2, <2>1 DEF bb
<1>4. bb(b) \in DominatorsOf(Now)[x]
  <2>1. b \in F.dom[x[2]]
    BY <1>1, <1>3, TreeAssumption
  <2> QED BY <1>1, <1>3, <2>1, GraphNow
<1>5. PICK t : t = F.code[b].term
  OBVIOUS
<1>6. t \in Instructions(F, b) /\ ~HasClone(t) /\ t[1] = "inst" /\ t \notin ToSet(F.code[b].phis)
  <2>1. t \in Instructions(F, b) /\ ~HasClone(t)
    BY <1>1, <1>5, ReplacedIs DEF Instructions
  <2>2. t = <<"inst", t[2]>>
    BY <1>1, <2>1, InstructionIs
  <2>3. t \notin ToSet(F.code[b].phis)
    BY <1>1, <1>5, ValuesAre
  <2> QED BY <2>1, <2>2, <2>3
<1>7. t \notin ToSet(Now.code[x].phis)
  BY <1>2, <1>6 DEF ClonePhi
<1>8. CASE u \in ToSet(Now.code[x].phis)
  <2>1. ClonePhi(u, b)
    BY <1>2, <1>8
  <2>2. PICK n, k : k \in 1..Len(Body(b)) /\ n = u[2] /\ u = <<"phi", Body(b)[k][2]>> /\ n = Body(b)[k][2]
    BY <2>1 DEF ClonePhi
  <2>3. Now.uses[u] = << <<"then", n>>, <<"else", n>> >> /\ Now.from[u] = << <<"then", b>>, <<"else", b>> >>
    BY <2>1, <2>2 DEF ClonePhi, Now
  <2>4. Preds(Now, x) = {<<"then", b>>, <<"else", b>>}
    BY <1>1, <1>2, GraphNow
  <2>5. ToSet(Now.from[u]) = {<<"then", b>>, <<"else", b>>}
    <3>1. \A p, q : ToSet(<<p, q>>) = {p, q}
      <4> SUFFICES ASSUME NEW p, NEW q PROVE ToSet(<<p, q>>) = {p, q}
        OBVIOUS
      <4>1. DOMAIN <<p, q>> = {1, 2} /\ <<p, q>>[1] = p /\ <<p, q>>[2] = q
        OBVIOUS
      <4> QED BY <4>1 DEF ToSet
    <3> QED BY <2>3, <3>1
  <2>6. ASSUME NEW side \in {"then", "else"}
        PROVE  ThereAtEnd(Now, DominatorsOf(Now), <<side, n>>, <<side, b>>)
    <3>1. PICK y : y = <<side, b>>
      OBVIOUS
    <3>2. Now.code[y] = [phis |-> <<>>, term |-> <<"br", b>>,
                         body |-> [i \in 1..Len(Body(b)) |-> <<side, Body(b)[i][2]>>]]
      BY <3>1, PartsAre
    <3>3. <<side, n>> \in ToSet(Now.code[y].body) /\ <<side, n>> # Now.code[y].term
      <4>1. PICK s : s = Now.code[y].body
        OBVIOUS
      <4>2. s = [i \in 1..Len(Body(b)) |-> <<side, Body(b)[i][2]>>]
        BY <3>2, <4>1
      <4>3. k \in DOMAIN s /\ s[k] = <<side, n>>
        BY <2>2, <4>2
      <4>4. <<side, n>> \in ToSet(s)
        BY <4>3 DEF ToSet
      <4> QED BY <3>2, <4>1, <4>4
    <3>4. y \in DominatorsOf(Now)[y]
      <4>1. y \in Now.block
        BY <1>1, <3>1, NowIs
      <4> QED BY <1>1, <4>1, GraphNow
    <3>5. Dominates(Now, DominatorsOf(Now), <<side, n>>, y, y)
      BY <3>3 DEF Dominates, Instructions
    <3> QED BY <3>1, <3>4, <3>5 DEF ThereAtEnd
  <2>7. DOMAIN Now.uses[u] = {1, 2} /\ Now.uses[u][1] = <<"then", n>> /\ Now.uses[u][2] = <<"else", n>>
        /\ Now.from[u][1] = <<"then", b>> /\ Now.from[u][2] = <<"else", b>>
    BY <2>3
  <2>8. \A i \in DOMAIN Now.uses[u] : ThereAtEnd(Now, DominatorsOf(Now), Now.uses[u][i], Now.from[u][i])
    BY <2>6, <2>7
  <2> QED BY <1>8, <2>4, <2>5, <2>8 DEF UseThere
<1>9. CASE u = t
  <2>1. Earlier(Now, x, u) = ToSet(Now.code[x].phis) \cup ToSet(Now.code[x].body)
    BY <1>2, <1>5, <1>7, <1>9 DEF Earlier
  <2>2. ASSUME NEW k \in DOMAIN Now.uses[u] PROVE There(Now, DominatorsOf(Now), Now.uses[u][k], x, u)
    <3>1. k \in DOMAIN F.uses[u] /\ Now.uses[u][k] = Current(F.uses[u][k]) /\ F.uses[u][k] \notin F.void
      BY <1>1, <1>6, <1>9, OldUse
    <3>2. PICK v : v = F.uses[u][k]
      OBVIOUS
    <3>3. There(F, F.dom, v, b, u)
      <4>1. UseThere(F, F.dom, b, u)
        BY <1>6, <1>9, UsesBefore
      <4> QED BY <1>6, <1>9, <3>1, <3>2, <4>1 DEF UseThere
    <3>4. CASE v[1] \in {"arg", "global"}
      <4>1. Current(v) = v
        BY <3>4, OutsideIs
      <4> QED BY <3>1, <3>2, <3>4, <4>1 DEF There
    <3>5. CASE v \in ToSet(F.code[b].phis)
      <4>1. ~HasClone(v) /\ v \in Instructions(F, b)
        BY <1>1, <3>5, ReplacedIs DEF Instructions
      <4>2. Current(v) = v
        BY <4>1, ReplacedIs
      <4>3. v \in Instructions(Now, bb(b)) /\ Now.code[bb(b)].term = <<"test", b>>
        BY <3>5, PartsAre DEF Instructions
      <4>4. v = <<"inst", v[2]>>
        BY <1>1, <4>1, InstructionIs
      <4>5. v # Now.code[bb(b)].term
        BY <4>3, <4>4
      <4>6. Dominates(Now, DominatorsOf(Now), v, bb(b), x)
        BY <4>3, <4>5 DEF Dominates
      <4> QED BY <1>3, <1>4, <3>1, <3>2, <4>2, <4>6 DEF There
    <3>6. CASE \E j \in 1..Len(Body(b)) : v = Body(b)[j]
      <4>1. HasClone(v)
        BY <3>6, ReplacedIs
      <4>2. Current(v) = <<"phi", v[2]>>
        BY <3>1, <3>2, <4>1, ReplacedIs
      <4>3. <<"phi", v[2]>> \in ToSet(Now.code[x].phis)
        BY <1>2, <3>1, <3>2, <3>6
      <4> QED BY <2>1, <3>1, <3>2, <4>2, <4>3 DEF There
    <3>7. CASE \E d \in F.dom[b] \ {b} : Dominates(F, F.dom, v, d, b)
      <4>1. PICK d \in F.dom[b] \ {b} : Dominates(F, F.dom, v, d, b)
        BY <3>7
      <4>2. v \notin F.void
        BY <3>1, <3>2
      <4>3. There(Now, DominatorsOf(Now), Current(v), x, u)
        BY <1>1, <1>3, <4>1, <4>2, FromAnother
      <4> QED BY <3>1, <3>2, <4>3
    <3>8. v \in Earlier(F, b, u) => v \in ToSet(F.code[b].phis) \/ \E j \in 1..Len(Body(b)) : v = Body(b)[j]
      <4>1. Earlier(F, b, u) = ToSet(F.code[b].phis) \cup ToSet(Body(b))
        BY <1>1, <1>5, <1>9, EarlierIs
      <4>2. DOMAIN Body(b) = 1..Len(Body(b))
        BY <1>1, BlockIs
      <4> QED BY <4>1, <4>2 DEF ToSet
    <3> QED BY <3>3, <3>4, <3>5, <3>6, <3>7, <3>8 DEF There
  <2> QED BY <1>7, <1>9, <2>2 DEF UseThere
<1>10. u \in ToSet(Now.code[x].phis) \/ u = t
  <2>1. ToSet(<<>>) = {}
    BY DEF ToSet
  <2> QED BY <1>2, <1>5, <2>1 DEF Instructions
<1> QED BY <1>8, <1>9, <1>10

-----------------------------------------------------------------------------
(* Context values.                                                          *)

\* The value a block was chosen with: the instruction that tests it uses it as
\* it is now.
LEMMA TestIs ==
  ASSUME Finished, NEW b \in Cut
  PROVE  \E i \in 1..Len(Targets) :
           /\ Targets[i][1] = b /\ Now.uses[<<"isnull", b>>] = <<Current(Targets[i][2])>>
           /\ Now.uses[<<"test", b>>] = << <<"isnull", b>> >>
           /\ b \in Reachable(F) /\ Targets[i][2] \in ReachableIntegers(b)
           /\ \A j \in 1..Len(Targets) : Targets[j][1] = b => j = i
<1>1. Tests(b) /\ TargetsReached /\ Choice
  BY DEF Finished, PlacesInv, DupInv
<1>2. PICK i \in 1..Len(Targets) : Targets[i][1] = b /\ M.uses[<<"isnull", b>>] = <<Current(Targets[i][2])>>
  BY <1>1 DEF Tests
<1>3. Targets[i][1] \in Reachable(F) /\ Targets[i][2] \in ReachableIntegers(Targets[i][1])
  BY <1>1 DEF TargetsReached
<1>4. \A j \in 1..Len(Targets) : Targets[j][1] = b => j = i
  BY <1>1, <1>2 DEF Choice
<1>5. M.uses[<<"test", b>>] = << <<"isnull", b>> >> /\ Now.uses = M.uses
  BY <1>1 DEF Tests, Now
<1> QED BY <1>2, <1>3, <1>4, <1>5

\* What a target promises, at the end.
LEMMA TargetsAre ==
  ASSUME Finished
  PROVE  DOMAIN Targets = 1..Len(Targets) /\ \A i \in 1..Len(Targets) : Targets[i][1] \in Cut
<1>1. PICK V : Targets \in Seq(F.block \X V)
  BY DEF Finished, DupInv, Choice
<1>2. DOMAIN Targets = 1..Len(Targets)
  BY <1>1, LenProperties
<1>3. \A i \in 1..Len(Targets) : Targets[i][1] \in Cut
  BY DEF Finished, PlacesInv, TargetsReached
<1> QED BY <1>2, <1>3

\* The uses of a split block's head.
LEMMA HeadThere ==
  ASSUME Finished, ~ChosenUnwinding, NEW b \in Reachable(F), b \in Cut,
         NEW x, x = bb(b), NEW u \in Instructions(Now, x)
  PROVE  UseThere(Now, DominatorsOf(Now), x, u)
<1>1. F \in RIVFunctions /\ DupInv /\ Parts /\ b \in F.block /\ F.dom = DominatorsOf(F)
  <2>1. F \in RIVFunctions /\ DupInv /\ Parts /\ b \in F.block
    BY DEF Finished, DupInv, PlacesInv, Cut
  <2> QED BY <2>1, ValuesAre
<1>2. /\ Now.code[x].phis = F.code[b].phis /\ Now.code[x].body = << <<"isnull", b>> >>
      /\ Now.code[x].term = <<"test", b>>
  BY PartsAre
<1>3. x \in Now.block /\ x[2] = b
  BY <1>1, NowIs DEF bb
<1>4. \A v \in ToSet(F.code[b].phis) : v[1] = "inst"
  <2> SUFFICES ASSUME NEW v \in ToSet(F.code[b].phis) PROVE v[1] = "inst"
    OBVIOUS
  <2>1. v \in Instructions(F, b)
    BY DEF Instructions
  <2>2. v = <<"inst", v[2]>>
    BY <1>1, <2>1, InstructionIs
  <2> QED BY <2>2
<1>5. <<"isnull", b>> \notin ToSet(F.code[b].phis) /\ <<"test", b>> \notin ToSet(F.code[b].phis)
  <2>1. <<"isnull", b>>[1] # "inst" /\ <<"test", b>>[1] # "inst"
    OBVIOUS
  <2> QED BY <1>4, <2>1
<1>6. PICK i \in 1..Len(Targets) :
        /\ Targets[i][1] = b /\ Now.uses[<<"isnull", b>>] = <<Current(Targets[i][2])>>
        /\ Now.uses[<<"test", b>>] = << <<"isnull", b>> >>
        /\ Targets[i][2] \in ReachableIntegers(b)
  BY TestIs
<1>7. ToSet(<< <<"isnull", b>> >>) = {<<"isnull", b>>}
  <2>1. \A p : DOMAIN <<p>> = {1} /\ <<p>>[1] = p
    OBVIOUS
  <2> QED BY <2>1 DEF ToSet
<1>8. CASE u \in ToSet(F.code[b].phis)
  <2>1. /\ ToSet(Now.from[u]) = Preds(Now, bb(b))
        /\ \A k \in DOMAIN Now.uses[u] : ThereAtEnd(Now, DominatorsOf(Now), Now.uses[u][k], Now.from[u][k])
    BY <1>1, <1>8, PhisStayThere
  <2> QED BY <1>2, <1>8, <2>1 DEF UseThere
<1>9. CASE u = <<"test", b>>
  <2>1. <<"isnull", b>> \in Earlier(Now, x, u)
    BY <1>2, <1>5, <1>7, <1>9 DEF Earlier
  <2>2. PICK s, w : s = Now.uses[u] /\ w = <<"isnull", b>>
    OBVIOUS
  <2>3. s = <<w>>
    BY <1>6, <1>9, <2>2
  <2>4. \A k \in DOMAIN s : s[k] = w
    BY <2>3
  <2> QED BY <1>2, <1>5, <1>9, <2>1, <2>2, <2>4 DEF UseThere, There
<1>10. CASE u = <<"isnull", b>>
  <2>1. PICK v : v = Targets[i][2]
    OBVIOUS
  <2>2. PICK s, w : s = Now.uses[u] /\ w = Current(v)
    OBVIOUS
  <2>3. s = <<w>>
    BY <1>6, <1>10, <2>1, <2>2
  <2>4. \A k \in DOMAIN s : s[k] = w
    BY <2>3
  <2>5. There(Now, DominatorsOf(Now), w, x, u)
    <3>1. CASE v \in F.params \cup F.globals
      <4>1. v[1] \in {"arg", "global"}
        BY <1>1, <3>1, ValuesAre
      <4>2. Current(v) = v
        BY <4>1, OutsideIs
      <4> QED BY <2>2, <4>1, <4>2 DEF There
    <3>2. CASE \E d \in F.dom[b] \ {b} : v \in F.ints[d]
      <4>1. PICK d \in F.dom[b] \ {b} : v \in F.ints[d]
        BY <3>2
      <4>2. d \in F.block
        BY <1>1, <1>3, <4>1, GraphNow
      <4>3. v \in Instructions(F, d) /\ v \notin F.void
        BY <1>1, <4>1, <4>2, ValuesAre
      <4>4. Dominates(F, F.dom, v, d, b)
        <5>1. v = F.code[d].term => AfterInvoke(F, F.dom, d, b)
          BY <1>6, <2>1, <4>2, TargetsAre DEF ChosenUnwinding
        <5> QED BY <4>3, <5>1 DEF Dominates
      <4>5. There(Now, DominatorsOf(Now), Current(v), x, u)
        BY <1>1, <1>3, <4>1, <4>3, <4>4, FromAnother
      <4> QED BY <2>2, <4>5
    <3> QED BY <1>6, <2>1, <3>1, <3>2 DEF ReachableIntegers
  <2> QED BY <1>2, <1>5, <1>10, <2>2, <2>4, <2>5 DEF UseThere
<1>11. u \in ToSet(F.code[b].phis) \/ u = <<"test", b>> \/ u = <<"isnull", b>>
  BY <1>2, <1>7 DEF Instructions
<1> QED BY <1>8, <1>9, <1>10, <1>11

\* Unless an invoke's result was chosen for a block it does not reach, all that
\* is used is there.
LEMMA AllThere ==
  ASSUME Finished, ~ChosenUnwinding
  PROVE  UsesThere(Now)
<1>1. DupInv /\ Parts /\ F.dom = DominatorsOf(F)
  <2>1. F \in RIVFunctions /\ DupInv /\ Parts
    BY DEF Finished, DupInv, PlacesInv
  <2> QED BY <2>1, ValuesAre
<1>2. ASSUME NEW x \in Reachable(Now), NEW u \in Instructions(Now, x) PROVE UseThere(Now, DominatorsOf(Now), x, u)
  <2>1. PICK b : b = x[2]
    OBVIOUS
  <2>2. x \in Now.block /\ b \in Reachable(F)
    BY <1>1, <2>1, GraphNow
  <2>3. b \in F.block
    BY <1>1, <2>2, GraphNow
  <2>4. x = EndOf(b) \/ (b \in Cut /\ (x = bb(b) \/ x = <<"then", b>> \/ x = <<"else", b>>))
    BY <1>1, <2>1, <2>2, NowIs
  <2>5. CASE b \notin Cut
    <3>1. x = bb(b)
      BY <2>3, <2>4, <2>5, WholeIs
    <3>2. u \in Instructions(Now, bb(b))
      BY <1>2, <3>1
    <3>3. UseThere(Now, DominatorsOf(Now), bb(b), u)
      BY <2>2, <2>3, <2>5, <3>2, WholeThere
    <3> QED BY <3>1, <3>3
  <2>6. CASE b \in Cut /\ x = EndOf(b)
    <3>1. x = <<"tail", b>>
      BY <2>6, PartsAre
    <3> QED BY <1>2, <2>2, <2>6, <3>1, TailThere
  <2>7. CASE b \in Cut /\ x = bb(b)
    BY <1>2, <2>2, <2>7, HeadThere
  <2>8. CASE b \in Cut /\ (x = <<"then", b>> \/ x = <<"else", b>>)
    <3>1. PICK side \in {"then", "else"} : x = <<side, b>>
      BY <2>8
    <3> QED BY <1>2, <2>2, <2>8, <3>1, SidesThere
  <2> QED BY <2>4, <2>5, <2>6, <2>7, <2>8
<1> QED BY <1>2, UsesAre

\* The terminator of a block is only where it was.
LEMMA TerminatorPlace ==
  ASSUME Finished, NEW d \in F.block, NEW y \in Now.block, F.code[d].term \in Instructions(Now, y)
  PROVE  y = EndOf(d) /\ Now.code[y].term = F.code[d].term
<1>1. F \in RIVFunctions /\ DupInv /\ Parts
  BY DEF Finished, DupInv, PlacesInv
<1>2. PICK c, v : c = y[2] /\ v = F.code[d].term
  OBVIOUS
<1>3. c \in F.block /\ (y = EndOf(c) \/ (c \in Cut /\ (y = bb(c) \/ y = <<"then", c>> \/ y = <<"else", c>>)))
  BY <1>1, <1>2, NowIs
<1>4. v[1] = "inst" /\ v \in Instructions(F, d) /\ v \notin ToSet(F.code[c].phis)
  <2>1. v \in Instructions(F, d)
    BY <1>2 DEF Instructions
  <2>2. v = <<"inst", v[2]>>
    BY <1>1, <2>1, InstructionIs
  <2>3. v \notin ToSet(F.code[c].phis)
    BY <1>1, <1>2, <1>3, ValuesAre
  <2> QED BY <2>1, <2>2, <2>3
<1>5. ASSUME v \in Instructions(F, c) PROVE c = d
  BY <1>1, <1>3, <1>4, <1>5, ValuesAre
<1>6. v \in ToSet(Now.code[y].phis) \/ v \in ToSet(Now.code[y].body) \/ v = Now.code[y].term
  BY <1>2 DEF Instructions
<1>7. CASE c \notin Cut
  <2>1. y = bb(c) /\ y = EndOf(c) /\ Now.code[y] = F.code[c]
    BY <1>3, <1>7, WholeIs
  <2>2. v \in Instructions(F, c)
    BY <1>6, <2>1 DEF Instructions
  <2> QED BY <1>2, <1>5, <2>1, <2>2
<1>8. CASE c \in Cut /\ y = EndOf(c)
  <2>1. /\ Now.code[y].body = <<>> /\ Now.code[y].term = F.code[c].term
        /\ \A w \in ToSet(Now.code[y].phis) : ClonePhi(w, c)
    BY <1>8, PartsAre
  <2>2. ToSet(<<>>) = {}
    BY DEF ToSet
  <2>3. v \notin ToSet(Now.code[y].phis)
    BY <1>4, <2>1 DEF ClonePhi
  <2>4. v = F.code[c].term
    BY <1>6, <2>1, <2>2, <2>3
  <2>5. v \in Instructions(F, c)
    BY <2>4 DEF Instructions
  <2> QED BY <1>2, <1>5, <1>8, <2>1, <2>5
<1>9. CASE c \in Cut /\ y = bb(c)
  <2>1. /\ Now.code[y].phis = F.code[c].phis /\ Now.code[y].body = << <<"isnull", c>> >>
        /\ Now.code[y].term = <<"test", c>>
    BY <1>9, PartsAre
  <2>2. ToSet(<< <<"isnull", c>> >>) = {<<"isnull", c>>}
    <3>1. \A p : DOMAIN <<p>> = {1} /\ <<p>>[1] = p
      OBVIOUS
    <3> QED BY <3>1 DEF ToSet
  <2>3. v \notin {<<"isnull", c>>} /\ v # <<"test", c>>
    BY <1>4
  <2> QED BY <1>4, <1>6, <2>1, <2>2, <2>3
<1>10. CASE c \in Cut /\ (y = <<"then", c>> \/ y = <<"else", c>>)
  <2>1. PICK side \in {"then", "else"} : y = <<side, c>>
    BY <1>10
  <2>2. Now.code[y] = [phis |-> <<>>, term |-> <<"br", c>>,
                       body |-> [k \in 1..Len(Body(c)) |-> <<side, Body(c)[k][2]>>]]
    BY <1>10, <2>1, PartsAre
  <2>3. /\ ToSet(Now.code[y].phis) = {} /\ Now.code[y].term = <<"br", c>>
        /\ \A w \in ToSet(Now.code[y].body) : \E k \in 1..Len(Body(c)) : w = <<side, Body(c)[k][2]>>
    BY <2>2 DEF ToSet
  <2>4. v # <<"br", c>> /\ \A k : v # <<side, k>>
    BY <1>4
  <2> QED BY <1>6, <2>3, <2>4
<1> QED BY <1>3, <1>7, <1>8, <1>9, <1>10

\* Where an invoke's result was chosen for a block it does not reach, the test
\* uses it before it is there.
LEMMA UnwindingNotThere ==
  ASSUME Finished, ChosenUnwinding
  PROVE  ~UsesThere(Now)
<1> SUFFICES ASSUME UsesThere(Now) PROVE FALSE
  OBVIOUS
<1>1. F \in RIVFunctions /\ DupInv /\ Parts /\ F.dom = DominatorsOf(F)
  <2>1. F \in RIVFunctions /\ DupInv /\ Parts
    BY DEF Finished, DupInv, PlacesInv
  <2> QED BY <2>1, ValuesAre
<1>2. PICK k \in 1..Len(Targets) : \E d \in F.block :
        Targets[k][2] = F.code[d].term /\ ~AfterInvoke(F, F.dom, d, Targets[k][1])
  BY TargetsAre DEF ChosenUnwinding
<1>3. PICK d \in F.block : Targets[k][2] = F.code[d].term /\ ~AfterInvoke(F, F.dom, d, Targets[k][1])
  BY <1>2
<1>4. PICK b : b = Targets[k][1]
  OBVIOUS
<1>5. b \in Cut /\ b \in F.block
  BY <1>4, TargetsAre DEF Cut
<1>6. PICK v : v = F.code[d].term
  OBVIOUS
<1>7. Current(v) = v /\ v[1] = "inst" /\ v \notin ToSet(F.code[b].phis)
  <2>1. ~HasClone(v) /\ v \in Instructions(F, d)
    BY <1>6, ReplacedIs DEF Instructions
  <2>2. v = <<"inst", v[2]>>
    BY <1>1, <2>1, InstructionIs
  <2>3. v \notin ToSet(F.code[b].phis)
    BY <1>1, <1>5, <1>6, ValuesAre
  <2> QED BY <2>1, <2>2, <2>3, ReplacedIs
<1>8. Now.uses[<<"isnull", b>>] = <<v>> /\ b \in Reachable(F)
  <2>1. PICK i \in 1..Len(Targets) :
           /\ Targets[i][1] = b /\ Now.uses[<<"isnull", b>>] = <<Current(Targets[i][2])>>
           /\ b \in Reachable(F)
           /\ \A j \in 1..Len(Targets) : Targets[j][1] = b => j = i
    BY <1>5, TestIs
  <2>2. k = i
    BY <1>4, <2>1
  <2> QED BY <1>3, <1>6, <1>7, <2>1, <2>2
<1>9. PICK x, u : x = bb(b) /\ u = <<"isnull", b>>
  OBVIOUS
<1>10. /\ Now.code[x].phis = F.code[b].phis /\ Now.code[x].body = <<u>> /\ Now.code[x].term = <<"test", b>>
       /\ x \in Reachable(Now) /\ x \in Now.block
  <2>1. x \in Reachable(Now)
    BY <1>1, <1>8, <1>9, GraphNow
  <2>2. x \in Now.block
    BY <1>1, <1>5, <1>9, NowIs
  <2> QED BY <1>5, <1>9, <2>1, <2>2, PartsAre
<1>11. u \notin ToSet(F.code[b].phis) /\ u # <<"test", b>>
  <2> SUFFICES ASSUME u \in ToSet(F.code[b].phis) PROVE FALSE
    BY <1>9
  <2>1. u \in Instructions(F, b)
    BY DEF Instructions
  <2>2. u = <<"inst", u[2]>>
    BY <1>1, <1>5, <2>1, InstructionIs
  <2> QED BY <1>9, <2>2
<1>12. DOMAIN <<u>> = {1} /\ <<u>>[1] = u /\ ToSet(<<u>>) = {u}
  <2>1. DOMAIN <<u>> = {1} /\ <<u>>[1] = u
    OBVIOUS
  <2> QED BY <2>1 DEF ToSet
<1>13. There(Now, DominatorsOf(Now), v, x, u)
  <2>1. u \in Instructions(Now, x)
    BY <1>10, <1>12 DEF Instructions
  <2>2. UseThere(Now, DominatorsOf(Now), x, u)
    BY <1>10, <2>1, UsesAre
  <2>3. \A i \in DOMAIN Now.uses[u] : There(Now, DominatorsOf(Now), Now.uses[u][i], x, u)
    BY <1>10, <1>11, <2>2 DEF UseThere
  <2>4. 1 \in DOMAIN Now.uses[u] /\ Now.uses[u][1] = v
    BY <1>8, <1>9
  <2> QED BY <2>3, <2>4
<1>14. v \notin Earlier(Now, x, u)
  <2>1. PICK body : body = Now.code[x].body
    OBVIOUS
  <2>2. (CHOOSE j \in DOMAIN body : body[j] = u) = 1
    BY <1>10, <1>12, <2>1
  <2>3. 1..(1 - 1) = {}
    OBVIOUS
  <2>4. Earlier(Now, x, u) = ToSet(F.code[b].phis) \cup {body[j] : j \in {}}
    BY <1>10, <1>11, <2>1, <2>2, <2>3 DEF Earlier
  <2> QED BY <1>7, <2>4
<1>15. PICK y \in DominatorsOf(Now)[x] : Dominates(Now, DominatorsOf(Now), v, y, x)
  BY <1>7, <1>13, <1>14 DEF There
<1>16. y \in Now.block
  BY <1>1, <1>10, GraphNow
<1>17. y = EndOf(d) /\ Now.code[y].term = v
  <2>1. v \in Instructions(Now, y)
    BY <1>15 DEF Dominates, Instructions
  <2> QED BY <1>6, <1>16, <2>1, TerminatorPlace
<1>18. AfterInvoke(Now, DominatorsOf(Now), EndOf(d), x)
  BY <1>15, <1>17 DEF Dominates
<1>19. PICK q \in Seq(F.block) : q = F.succ[d]
  BY <1>1, CodeAssumption DEF WellFormedCode
<1>20. Now.succ[EndOf(d)] = [i \in DOMAIN q |-> bb(q[i])]
  <2>1. Now.succ[EndOf(d)] = Leaves(d)
    BY WholeIs, PartsAre
  <2> QED BY <1>19, <2>1 DEF Leaves
<1>21. q # <<>> /\ 1 \in DOMAIN q
  <2>1. q # <<>>
    BY <1>18, <1>20 DEF AfterInvoke
  <2> QED BY <1>19, <2>1, EmptySeq, LenProperties
<1>22. PICK s : s = q[1]
  OBVIOUS
<1>23. s \in F.block /\ Now.succ[EndOf(d)][1] = bb(s)
  BY <1>19, <1>20, <1>21, <1>22, ElementOfSeq
<1>24. bb(s) \in DominatorsOf(Now)[bb(b)] /\ Preds(Now, bb(s)) = {EndOf(d)}
  BY <1>9, <1>18, <1>23 DEF AfterInvoke
<1>25. s \in F.dom[b]
  BY <1>1, <1>5, <1>23, <1>24, GraphNow
<1>26. Preds(F, s) = {d}
  <2>1. Preds(Now, bb(s)) = {EndOf(p) : p \in Preds(F, s)}
    BY <1>1, <1>23, GraphNow
  <2>2. {EndOf(p) : p \in Preds(F, s)} = {EndOf(d)}
    BY <1>24, <2>1
  <2>3. \A p \in F.block : EndOf(p)[2] = p
    BY <1>1, NowIs
  <2>4. Preds(F, s) \subseteq F.block
    BY DEF Preds
  <2> QED BY <2>2, <2>3, <2>4
<1>27. AfterInvoke(F, F.dom, d, b)
  BY <1>19, <1>21, <1>22, <1>25, <1>26 DEF AfterInvoke
<1> QED BY <1>3, <1>4, <1>27

\* findBBsToDuplicate chooses (DuplicateBB.cpp:91) and cloneBB tests, splits and
\* merges (DuplicateBB.cpp:145): whatever is chosen, what is left uses values
\* that are there, but for the results of invokes.
THEOREM ContextsAreThere == DuplicateSpec => []ContextsThere
<1> DEFINE Inv == DupInv /\ RIVInv /\ PlacesInv
<1>1. DuplicateInit => Inv
  <2>1. DuplicateInit => RIVInit
    BY DEF DuplicateInit
  <2> QED BY <2>1, InitDup, InitRIVInv, InitPlaces
<1>2. Inv /\ [DuplicateNext]_duplicateVars => Inv'
  <2> SUFFICES ASSUME DupInv, RIVInv, PlacesInv, [DuplicateNext]_duplicateVars
               PROVE  DupInv' /\ RIVInv' /\ PlacesInv'
    OBVIOUS
  <2>1. RIVInv'
    <3>1. [ProcessParent]_rivVars
      BY DuplicateStepRIV
    <3>2. CASE UNCHANGED rivVars
      BY <3>2 DEF RIVInv, rivVars, Waiting, ReachableIntegers
    <3> QED BY <3>1, <3>2, StepRIVInv
  <2>2. CASE BuildRIV \/ Chosen \/ Duplicated \/ DuplicateHalt \/ UNCHANGED duplicateVars
    BY <2>1, <2>2, OthersKeep, OthersPlaces
  <2>3. CASE ChooseTarget
    BY <2>1, <2>3, ChooseTargetKeeps, ChooseTargetPlaces
  <2>4. CASE Split
    BY <2>1, <2>4, SplitKeeps, SplitPlaces
  <2>5. CASE CloneVoid
    BY <2>1, <2>5, CloneVoidKeeps, CloneVoidPlaces
  <2>6. CASE CloneValue
    BY <2>1, <2>6, CloneValueKeeps, CloneValuePlaces
  <2>7. CASE Purge
    BY <2>1, <2>7, PurgeKeeps, PurgePlaces
  <2> QED BY <2>2, <2>3, <2>4, <2>5, <2>6, <2>7 DEF DuplicateNext
<1>3. Inv => ContextsThere
  <2>1. ASSUME Finished PROVE UsesThere(Now) <=> ~ChosenUnwinding
    BY <2>1, AllThere, UnwindingNotThere
  <2> QED BY <2>1 DEF Finished, ContextsThere
<1> HIDE DEF Inv
<1> QED BY <1>1, <1>2, <1>3, PTL DEF DuplicateSpec
=============================================================================
