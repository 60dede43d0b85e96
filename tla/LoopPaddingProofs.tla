-------------------------- MODULE LoopPaddingProofs --------------------------
(* What LoopPadding states holds for every width of the integers and all     *)
(* loops: where the guards are built without a guard (CrashesOnNextIndex),   *)
(* what a loop that counts down accesses and has an effect on, and what      *)
(* becomes of the loops that count up.                                       *)
(*                                                                           *)
(* The pass's part of the invariant, Rewritten, says of every variable what  *)
(* it is as a function of the loop and of gep. With it the padded loop's     *)
(* execution is a loop over an interval (Downward, Upward), and the original *)
(* one's elements are an interval too: what is left is to compare the two.   *)
EXTENDS LoopPadding, Facts, SequenceTheorems

\* The least number that a comparison with the bound b lets a loop that counts
\* down go on with, and the greatest for one that counts up.
Least(p, b) == IF isGT(p) THEN Signed(b) + 1 ELSE Signed(b)

Greatest(p, b) == IF isLE(p) THEN Signed(b) ELSE Signed(b) - 1

-----------------------------------------------------------------------------
(* The invariant.                                                           *)

Active == gep > 1 /\ loop.index # "cast"

BoundPadded == Active /\ loop.bound.secret

InitPadded == Active /\ loop.init.secret /\ loop.index = "phi"

Rewritten ==
  /\ loop \in Loops
  /\ gep \in 1..(Len(loop.sizes) + 1)
  /\ applyBranchLS = Active
  /\ applyBranchEnd = IF BoundPadded THEN loop.bound ELSE Absent
  /\ applyBranchInit = IF InitPadded THEN loop.init ELSE Absent
  /\ padded = [loop EXCEPT
       !.bound = IF BoundPadded THEN [secret |-> FALSE, value |-> PaddedBound(loop.pred)] ELSE @,
       !.init  = IF InitPadded THEN [secret |-> FALSE, value |-> PaddedInit(loop.pred)] ELSE @]

Guarded ==
  /\ pc \in {"rewrite", "run", "ended", "crashed"}
  /\ pc # "rewrite" => gep > 1
  /\ pc \in {"run", "ended", "crashed"} =>
       (pc = "crashed" <=> Selects /\ applyBranchEnd = Absent /\ applyBranchInit = Absent)

Executed == i \in Word /\ stored \subseteq touched

Fresh == pc = "rewrite" => touched = {} /\ stored = {}

\* An access whose select keeps it, or that has none.
HasEffect(n) == loop.access # "other" => finalCmp(n)

\* Between them the padded loop's first and last index.
First == padded.init.value

Downward ==
  CountsDown(loop) /\ pc \in {"run", "ended"} =>
    LET low == Least(loop.pred, padded.bound.value)
    IN  /\ pc = "run" => i \in low..First /\ touched = (i + 1)..First
        /\ pc = "ended" => touched = low..First
        /\ \A e \in touched : e \in stored <=> HasEffect(e)

PadsUp(l) == (CountsUp(l) \/ CountsToExit(l)) /\ l.bound.secret

Upward ==
  PadsUp(loop) /\ pc \in {"run", "ended"} =>
    LET high == Greatest(loop.pred, padded.bound.value)
    IN  /\ pc = "run" => i \in First..high /\ touched = First..(i - 1)
        /\ pc = "ended" => touched = First..high
        /\ \A e \in touched : e \in stored <=> HasEffect(e)

IInv == Rewritten /\ Guarded /\ Executed /\ Fresh /\ Downward /\ Upward

-----------------------------------------------------------------------------
(* Words.                                                                   *)

LEMMA ModulusFact == Modulus \in Nat \ {0} /\ Modulus = SignBit + SignBit /\ SignBit \in Nat \ {0}
BY SignBitAssumption DEF Modulus

\* Sums of two words, and differences.
LEMMA Wraps ==
  ASSUME NEW y \in Int
  PROVE  /\ y % Modulus \in Word
         /\ y \in 0..(Modulus - 1) => y % Modulus = y
         /\ y \in Modulus..(2 * Modulus - 1) => y % Modulus = y - Modulus
         /\ y \in (-Modulus)..(-1) => y % Modulus = y + Modulus
<1>1. PICK m \in Nat \ {0} : m = Modulus
  BY ModulusFact
<1>2. y % m \in 0..(m - 1)
  OBVIOUS
<1>3. ASSUME y \in 0..(m - 1) PROVE y % m = y
  <2>1. (m * 0 + y) % m = y
    BY <1>3, RemainderUnique
  <2> QED BY <2>1
<1>4. ASSUME y \in m..(2 * m - 1) PROVE y % m = y - m
  <2>1. y - m \in 0..(m - 1)
    BY <1>4
  <2>2. (m * 1 + (y - m)) % m = y - m
    BY <2>1, RemainderUnique
  <2> QED BY <2>2
<1>5. ASSUME y \in (-m)..(-1) PROVE y % m = y + m
  <2>1. y + m \in 0..(m - 1)
    BY <1>5
  <2>2. (m * (-1) + (y + m)) % m = y + m
    BY <2>1, RemainderUnique
  <2>3. m * (-1) + (y + m) = y
    OBVIOUS
  <2> QED BY <2>2, <2>3
<1> QED
  BY <1>1, <1>2, <1>3, <1>4, <1>5 DEF Word

LEMMA SignedFacts ==
  ASSUME NEW x \in Word
  PROVE  /\ Signed(x) \in (-SignBit)..(SignBit - 1)
         /\ Signed(x) >= 0 <=> x < SignBit
         /\ x < SignBit => Signed(x) = x
         /\ Signed(Modulus - 1) = -1
BY ModulusFact DEF Signed, Word

\* The index before and after one of the elements.
LEMMA IndexBefore ==
  ASSUME NEW n \in 0..(SignBit - 1)
  PROVE  Plus(n, -1) \in Word /\ Signed(Plus(n, -1)) = n - 1 /\ (n > 0 => Plus(n, -1) = n - 1)
<1>1. n + (-1) = n - 1 /\ n - 1 \in Int
  OBVIOUS
<1>2. CASE n = 0
  <2>1. (n - 1) % Modulus = Modulus - 1
    BY <1>2, ModulusFact, Wraps
  <2>2. Modulus - 1 \in Word
    BY ModulusFact DEF Word
  <2> QED
    BY <1>1, <1>2, <2>1, <2>2, SignedFacts DEF Plus
<1>3. CASE n > 0
  <2>1. (n - 1) % Modulus = n - 1
    BY <1>3, ModulusFact, Wraps
  <2>2. n - 1 \in Word /\ n - 1 < SignBit
    BY <1>3, ModulusFact DEF Word
  <2> QED
    BY <1>1, <2>1, <2>2, SignedFacts DEF Plus
<1> QED
  BY <1>2, <1>3

LEMMA IndexAfter ==
  ASSUME NEW n \in 0..(SignBit - 2)
  PROVE  Plus(n, 1) = n + 1 /\ n + 1 \in Word /\ Signed(n + 1) = n + 1
<1>1. (n + 1) % Modulus = n + 1
  BY ModulusFact, Wraps
<1>2. n + 1 \in Word /\ n + 1 < SignBit
  BY ModulusFact DEF Word
<1> QED
  BY <1>1, <1>2, SignedFacts DEF Plus

\* The comparisons as bounds.
LEMMA HoldsAbove ==
  ASSUME NEW p \in {"sgt", "sge"}, NEW x \in Word, NEW y \in Word
  PROVE  /\ Holds(p, x, y) <=> Signed(x) >= Least(p, y)
         /\ Least(p, y) \in Int
<1>1. Signed(x) \in Int /\ Signed(y) \in Int
  BY SignedFacts, ModulusFact
<1> QED
  BY <1>1 DEF Holds, Least, isGT, isGE, isLT, isLE, isUnsigned

LEMMA HoldsBelow ==
  ASSUME NEW p \in {"slt", "sle"}, NEW x \in Word, NEW y \in Word
  PROVE  /\ Holds(p, x, y) <=> Signed(x) <= Greatest(p, y)
         /\ Greatest(p, y) \in Int
<1>1. Signed(x) \in Int /\ Signed(y) \in Int
  BY SignedFacts, ModulusFact
<1> QED
  BY <1>1 DEF Holds, Greatest, isGT, isGE, isLT, isLE, isUnsigned

LEMMA HoldsEqual ==
  ASSUME NEW x \in Word, NEW y \in Word
  PROVE  /\ Holds("eq", x, y) <=> Signed(x) = Greatest("eq", y) + 1
         /\ Greatest("eq", y) \in Int
<1>1. Signed(x) \in Int /\ Signed(y) \in Int
  BY SignedFacts, ModulusFact
<1> QED
  BY <1>1 DEF Holds, Greatest, isGT, isGE, isLT, isLE, isUnsigned

-----------------------------------------------------------------------------
(* Loops.                                                                   *)

LEMMA SmallestFact ==
  ASSUME NEW l \in Loops
  PROVE  /\ Smallest(l) \in Size
         /\ \A k \in DOMAIN l.sizes : Smallest(l) <= l.sizes[k]
<1>1. l.sizes \in Seq(Size) /\ l.sizes # <<>>
  BY LoopsAssumption DEF Loop
<1> DEFINE T == {l.sizes[k] : k \in DOMAIN l.sizes}
<1>2. T \subseteq Size /\ Size \subseteq Nat
  <2>1. \A k \in DOMAIN l.sizes : l.sizes[k] \in Size
    BY <1>1
  <2>2. Size \subseteq Nat
    BY ModulusFact DEF Size
  <2> QED
    BY <2>1, <2>2
<1>3. T # {}
  <2>1. 1 \in DOMAIN l.sizes
    BY <1>1, Len(l.sizes) \in Nat /\ Len(l.sizes) # 0, EmptySeq
  <2> QED
    BY <2>1
<1> HIDE DEF T
<1>4. \E m \in T : \A n \in T : m <= n
  BY <1>2, <1>3, LeastNat
<1>5. SetMin(T) \in T /\ \A n \in T : SetMin(T) <= n
  BY <1>4 DEF SetMin
<1> QED
  BY <1>2, <1>5 DEF T, Smallest

LEMMA LoopFacts ==
  ASSUME NEW l \in Loops
  PROVE  /\ l \in Loop /\ Len(l.sizes) \in Nat /\ Len(l.sizes) >= 1
         /\ l.init.secret \/ l.bound.secret
         /\ l.init.value \in Word /\ l.bound.value \in Word
         /\ l.init \in Limit /\ l.bound \in Limit
         /\ Smallest(l) \in Nat /\ Smallest(l) >= 1 /\ Smallest(l) + 2 <= SignBit
BY LoopsAssumption, SmallestFact, ModulusFact, EmptySeq DEF Loop, Limit, Size

\* The latch of a loop over its elements.
LEMMA AgainDown ==
  ASSUME NEW l, l \in Loop, CountsDown(l), NEW n \in 0..(SignBit - 1)
  PROVE  /\ Again(l, n) <=> n - 1 >= Least(l.pred, l.bound.value)
         /\ Next_(l, n) = Plus(n, -1) /\ Element(l, n) = n
<1>1. Plus(n, -1) \in Word /\ Signed(Plus(n, -1)) = n - 1
  BY IndexBefore
<1>2. l.pred \in {"sgt", "sge"} /\ l.bound.value \in Word /\ ~l.leave /\ l.on = "next"
      /\ l.step = -1 /\ l.index = "phi"
  BY DEF CountsDown, Loop, Limit
<1>3. Holds(l.pred, Plus(n, -1), l.bound.value) <=> n - 1 >= Least(l.pred, l.bound.value)
  BY <1>1, <1>2, HoldsAbove
<1>4. Next_(l, n) = Plus(n, -1)
  BY <1>2 DEF Next_
<1>5. Again(l, n) <=> Holds(l.pred, Plus(n, -1), l.bound.value)
  BY <1>2, <1>4 DEF Again, Holds, Loop
<1>6. n \in Word /\ n < SignBit
  BY ModulusFact DEF Word
<1> QED
  BY <1>2, <1>3, <1>4, <1>5, <1>6, SignedFacts DEF Element

LEMMA AgainUp ==
  ASSUME NEW l, l \in Loop, CountsUp(l) \/ CountsToExit(l), NEW n \in 0..(SignBit - 2)
  PROVE  /\ CountsUp(l) => (Again(l, n) <=> n + 1 <= Greatest(l.pred, l.bound.value))
         /\ CountsToExit(l) => (Again(l, n) <=> n # Greatest(l.pred, l.bound.value))
         /\ Next_(l, n) = n + 1 /\ Element(l, n) = n
<1>1. Plus(n, 1) = n + 1 /\ n + 1 \in Word /\ Signed(n + 1) = n + 1
  BY IndexAfter
<1>2. l.bound.value \in Word /\ l.on = "next" /\ l.step = 1 /\ l.index = "phi"
  BY DEF CountsUp, CountsToExit, Loop, Limit
<1>3. Next_(l, n) = n + 1
  BY <1>1, <1>2 DEF Next_
<1>4. n \in Word /\ n < SignBit /\ n \in Int
  BY ModulusFact DEF Word
<1>5. CASE CountsUp(l)
  <2>1. Holds(l.pred, n + 1, l.bound.value) <=> n + 1 <= Greatest(l.pred, l.bound.value)
    BY <1>1, <1>2, <1>5, HoldsBelow DEF CountsUp
  <2>2. Again(l, n) <=> Holds(l.pred, n + 1, l.bound.value)
    BY <1>2, <1>3, <1>5 DEF Again, Holds, CountsUp, Loop
  <2> QED
    BY <1>2, <1>3, <1>4, <1>5, <2>1, <2>2, SignedFacts DEF Element, CountsUp, CountsToExit
<1>6. CASE CountsToExit(l)
  <2>1. Holds("eq", n + 1, l.bound.value) <=> n + 1 = Greatest("eq", l.bound.value) + 1
    BY <1>1, <1>2, HoldsEqual
  <2>2. Greatest("eq", l.bound.value) \in Int
    BY <1>2, HoldsEqual
  <2>3. Again(l, n) <=> ~Holds("eq", n + 1, l.bound.value)
    BY <1>2, <1>3, <1>6 DEF Again, Holds, CountsToExit
  <2>4. l.pred = "eq"
    BY <1>6 DEF CountsToExit
  <2> QED
    BY <1>2, <1>3, <1>4, <1>6, <2>1, <2>2, <2>3, <2>4, SignedFacts DEF Element, CountsUp, CountsToExit
<1> QED
  BY <1>5, <1>6

-----------------------------------------------------------------------------
(* The elements of the original loop.                                       *)

Index(l, k) == Plus(l.init.value, k * l.step)

Runs(l, k) == \A j \in 0..(k - 1) : Again(l, Index(l, j))

LEMMA OriginalElementsAre ==
  ASSUME NEW l, l.entered
  PROVE  OriginalElements(l) = {Element(l, Index(l, k)) : k \in {m \in Word : Runs(l, m)}}
BY DEF OriginalElements, Index, Runs

\* The first index is one of the elements', for the first iteration has no
\* condition.
LEMMA FirstElement ==
  ASSUME NEW l \in Loops, l.entered, l.index = "phi"
  PROVE  /\ l.init.value \in 0..(Smallest(l) - 1)
         /\ Signed(l.init.value) = l.init.value
<1>1. l.step \in {1, -1} /\ l.init.value \in Word
  BY LoopFacts DEF Loop
<1>2. 0 \in Word /\ Runs(l, 0)
  BY ModulusFact DEF Word, Runs
<1>3. Index(l, 0) = l.init.value
  <2>1. 0 * l.step = 0
    BY <1>1
  <2>2. l.init.value + 0 = l.init.value /\ l.init.value \in 0..(Modulus - 1)
    BY <1>1, ModulusFact DEF Word
  <2> QED
    BY <2>1, <2>2, Wraps DEF Index, Plus
<1>4. Element(l, Index(l, 0)) \in OriginalElements(l)
  BY <1>2, OriginalElementsAre
<1>5. Signed(l.init.value) \in 0..(Smallest(l) - 1)
  BY <1>3, <1>4, LoopsAssumption DEF InBounds, Element
<1> QED
  BY <1>1, <1>5, SignedFacts, LoopFacts

\* A loop that counts down goes from the first index to the least that its
\* comparison admits: were that below 0, it would access the element -1.
LEMMA OriginalDown ==
  ASSUME NEW l \in Loops, CountsDown(l), l.entered
  PROVE  /\ OriginalElements(l) = Least(l.pred, l.bound.value)..l.init.value
         /\ Least(l.pred, l.bound.value) >= 0
<1>1. l \in Loop /\ l.step = -1 /\ l.index = "phi" /\ l.pred \in {"sgt", "sge"}
      /\ l.init.value \in Word /\ l.bound.value \in Word
  BY LoopFacts DEF CountsDown
<1>2. PICK a, b : a = l.init.value /\ b = Least(l.pred, l.bound.value)
  OBVIOUS
<1>3. a \in 0..(Smallest(l) - 1) /\ Signed(a) = a
  BY <1>1, <1>2, FirstElement
<1>4. b \in Int /\ b <= a
  <2>1. Holds(l.pred, a, l.bound.value)
    BY <1>2, LoopsAssumption DEF EnteredAsFor
  <2> QED
    BY <1>1, <1>2, <1>3, <2>1, HoldsAbove
<1>5. a \in Nat /\ a + 3 <= SignBit
  <2>1. PICK m \in Nat : m = Smallest(l) /\ m + 2 <= SignBit
    BY LoopFacts
  <2> QED
    BY <1>3, <2>1, ModulusFact
<1>6. ASSUME NEW k \in 0..a
      PROVE  /\ Index(l, k) = a - k /\ Element(l, Index(l, k)) = a - k
             /\ Again(l, Index(l, k)) <=> a - k - 1 >= b
             /\ k \in Word
  <2>1. a + k * (-1) = a - k /\ a - k \in 0..(SignBit - 1) /\ a - k \in 0..(Modulus - 1) /\ k \in Word
    BY <1>5, ModulusFact DEF Word
  <2>2. Index(l, k) = a - k
    BY <1>1, <1>2, <2>1, Wraps DEF Index, Plus
  <2> QED
    BY <1>1, <1>2, <2>1, <2>2, AgainDown
<1>7. b >= 0
  <2> SUFFICES ASSUME b <= -1 PROVE FALSE
    BY <1>4
  <2>1. Runs(l, a + 1)
    BY <1>4, <1>5, <1>6 DEF Runs
  <2>2. a + 1 \in Word
    BY <1>5, ModulusFact DEF Word
  <2>3. Element(l, Index(l, a + 1)) = -1
    <3>1. a + (a + 1) * (-1) = -1
      BY <1>5
    <3>2. (-1) % Modulus = Modulus - 1
      BY ModulusFact, Wraps
    <3>3. Modulus - 1 \in Word
      BY ModulusFact DEF Word
    <3> QED
      BY <1>1, <1>2, <3>1, <3>2, <3>3, SignedFacts DEF Index, Plus, Element
  <2>4. -1 \in OriginalElements(l)
    BY <2>1, <2>2, <2>3, OriginalElementsAre
  <2> QED
    BY <2>4, LoopsAssumption DEF InBounds
<1>8. ASSUME NEW k \in Word, Runs(l, k)
      PROVE  Element(l, Index(l, k)) \in b..a
  <2>1. k \in Nat
    BY ModulusFact DEF Word
  <2>2. k <= a - b
    <3> SUFFICES ASSUME k > a - b PROVE FALSE
      BY <1>4, <1>5, <2>1
    <3>1. a - b \in 0..(k - 1) /\ a - b \in 0..a /\ a - (a - b) - 1 = b - 1
      BY <1>4, <1>5, <1>7, <2>1
    <3>2. Again(l, Index(l, a - b))
      BY <1>8, <3>1 DEF Runs
    <3>3. a - (a - b) - 1 >= b
      BY <1>6, <3>1, <3>2
    <3> QED
      BY <1>4, <1>5, <3>1, <3>3
  <2>3. k \in 0..a
    BY <1>4, <1>5, <1>7, <2>1, <2>2
  <2>4. Element(l, Index(l, k)) = a - k
    BY <1>6, <2>3
  <2> QED
    BY <1>4, <1>5, <2>1, <2>2, <2>4
<1>9. ASSUME NEW e \in b..a
      PROVE  \E k \in Word : Runs(l, k) /\ Element(l, Index(l, k)) = e
  <2>1. a - e \in 0..a /\ a - (a - e) = e
    BY <1>4, <1>5, <1>7
  <2>2. Element(l, Index(l, a - e)) = e /\ a - e \in Word
    BY <1>6, <2>1
  <2>3. ASSUME NEW j \in 0..(a - e - 1) PROVE Again(l, Index(l, j))
    <3>1. j \in 0..a /\ a - j - 1 >= b
      BY <1>4, <1>5, <1>7
    <3> QED
      BY <1>6, <3>1
  <2>4. Runs(l, a - e)
    BY <2>3 DEF Runs
  <2> QED
    BY <2>2, <2>4
<1>10. OriginalElements(l) = b..a
  <2>1. ASSUME NEW e \in OriginalElements(l) PROVE e \in b..a
    <3>1. PICK k \in Word : Runs(l, k) /\ e = Element(l, Index(l, k))
      BY OriginalElementsAre
    <3> QED
      BY <1>8, <3>1
  <2>2. ASSUME NEW e \in b..a PROVE e \in OriginalElements(l)
    <3>1. PICK k \in Word : Runs(l, k) /\ Element(l, Index(l, k)) = e
      BY <1>9
    <3> QED
      BY <3>1, OriginalElementsAre
  <2> QED
    BY <2>1, <2>2
<1> QED
  BY <1>2, <1>7, <1>10

\* And one that counts up to the greatest: were that not an element, it would
\* access the one after the last.
LEMMA OriginalUp ==
  ASSUME NEW l \in Loops, CountsUp(l) \/ CountsToExit(l), l.entered
  PROVE  /\ OriginalElements(l) = l.init.value..Greatest(l.pred, l.bound.value)
         /\ Greatest(l.pred, l.bound.value) < Smallest(l)
<1>1. l \in Loop /\ l.step = 1 /\ l.index = "phi" /\ l.pred \in {"slt", "sle", "eq"}
      /\ l.init.value \in Word /\ l.bound.value \in Word
  BY LoopFacts DEF CountsUp, CountsToExit
<1>2. PICK a, b : a = l.init.value /\ b = Greatest(l.pred, l.bound.value)
  OBVIOUS
<1>3. a \in 0..(Smallest(l) - 1) /\ Signed(a) = a
  BY <1>1, <1>2, FirstElement
<1>4. b \in Int /\ a <= b
  <2>1. CASE CountsUp(l)
    <3>1. Holds(l.pred, a, l.bound.value)
      BY <1>2, <2>1, LoopsAssumption DEF EnteredAsFor
    <3> QED
      BY <1>1, <1>2, <1>3, <2>1, <3>1, HoldsBelow DEF CountsUp
  <2>2. CASE CountsToExit(l)
    <3>1. Holds("slt", a, l.bound.value)
      BY <1>2, <2>2, LoopsAssumption DEF EnteredAsFor
    <3>2. Greatest("slt", l.bound.value) = b
      BY <1>2, <2>2 DEF CountsToExit, Greatest, isLE
    <3> QED
      BY <1>1, <1>2, <1>3, <3>1, <3>2, HoldsBelow
  <2> QED
    BY <2>1, <2>2
<1>5. PICK m \in Nat : m = Smallest(l) /\ a \in Nat /\ a < m /\ m + 2 <= SignBit
  BY <1>3, LoopFacts
<1>6. ASSUME NEW k \in 0..(m - a)
      PROVE  /\ Index(l, k) = a + k /\ Element(l, Index(l, k)) = a + k
             /\ a + k <= b => (Again(l, Index(l, k)) <=> a + k < b)
             /\ k \in Word
  <2>1. a + k * 1 = a + k /\ a + k \in 0..(SignBit - 2) /\ a + k \in 0..(Modulus - 1) /\ k \in Word
    BY <1>5, ModulusFact DEF Word
  <2>2. Index(l, k) = a + k
    BY <1>1, <1>2, <2>1, Wraps DEF Index, Plus
  <2>3. a + k \in Int
    BY <2>1
  <2>4. /\ CountsUp(l) => (Again(l, a + k) <=> a + k + 1 <= b)
        /\ CountsToExit(l) => (Again(l, a + k) <=> a + k # b)
        /\ Element(l, a + k) = a + k
    BY <1>1, <1>2, <2>1, AgainUp
  <2> QED
    BY <1>4, <2>1, <2>2, <2>3, <2>4
<1>7. b < m
  <2> SUFFICES ASSUME b >= m PROVE FALSE
    BY <1>4, <1>5
  <2>1. m - a \in 0..(m - a) /\ a + (m - a) = m
    BY <1>5
  <2>2. ASSUME NEW j \in 0..(m - a - 1) PROVE Again(l, Index(l, j))
    <3>1. j \in 0..(m - a) /\ a + j < b /\ a + j <= b
      BY <1>4, <1>5
    <3>2. Again(l, Index(l, j)) <=> a + j < b
      BY <1>6, <3>1
    <3> QED
      BY <3>1, <3>2
  <2>3. Runs(l, m - a)
    BY <2>2 DEF Runs
  <2>4. m \in OriginalElements(l)
    BY <1>6, <2>1, <2>3, OriginalElementsAre
  <2> QED
    BY <1>5, <2>4, LoopsAssumption DEF InBounds
<1>8. ASSUME NEW k \in Word, Runs(l, k)
      PROVE  Element(l, Index(l, k)) \in a..b
  <2>1. k \in Nat
    BY ModulusFact DEF Word
  <2>2. k <= b - a
    <3> SUFFICES ASSUME k > b - a PROVE FALSE
      BY <1>4, <1>5, <2>1
    <3>1. b - a \in 0..(k - 1) /\ b - a \in 0..(m - a) /\ a + (b - a) = b
      BY <1>4, <1>5, <1>7, <2>1
    <3>2. Again(l, Index(l, b - a))
      BY <1>8, <3>1 DEF Runs
    <3>3. b < b
      BY <1>4, <1>6, <3>1, <3>2
    <3> QED
      BY <1>4, <3>3
  <2>3. k \in 0..(m - a)
    BY <1>4, <1>5, <1>7, <2>1, <2>2
  <2>4. Element(l, Index(l, k)) = a + k
    BY <1>6, <2>3
  <2> QED
    BY <1>4, <1>5, <2>1, <2>2, <2>4
<1>9. ASSUME NEW e \in a..b
      PROVE  \E k \in Word : Runs(l, k) /\ Element(l, Index(l, k)) = e
  <2>1. e - a \in 0..(m - a) /\ a + (e - a) = e
    BY <1>4, <1>5, <1>7
  <2>2. Element(l, Index(l, e - a)) = e /\ e - a \in Word
    BY <1>6, <2>1
  <2>3. ASSUME NEW j \in 0..(e - a - 1) PROVE Again(l, Index(l, j))
    <3>1. j \in 0..(m - a) /\ a + j < b
      BY <1>4, <1>5, <1>7
    <3> QED
      BY <1>4, <1>5, <1>6, <3>1
  <2>4. Runs(l, e - a)
    BY <2>3 DEF Runs
  <2> QED
    BY <2>2, <2>4
<1>10. OriginalElements(l) = a..b
  <2>1. ASSUME NEW e \in OriginalElements(l) PROVE e \in a..b
    <3>1. PICK k \in Word : Runs(l, k) /\ e = Element(l, Index(l, k))
      BY OriginalElementsAre
    <3> QED
      BY <1>8, <3>1
  <2>2. ASSUME NEW e \in a..b PROVE e \in OriginalElements(l)
    <3>1. PICK k \in Word : Runs(l, k) /\ Element(l, Index(l, k)) = e
      BY <1>9
    <3> QED
      BY <3>1, OriginalElementsAre
  <2> QED
    BY <2>1, <2>2
<1> QED
  BY <1>2, <1>5, <1>7, <1>10

-----------------------------------------------------------------------------
(* The padded loop.                                                         *)

LEMMA PaddedLoop ==
  ASSUME Rewritten
  PROVE  /\ padded \in Loop /\ loop \in Loops /\ loop \in Loop
         /\ padded.pred = loop.pred /\ padded.step = loop.step /\ padded.on = loop.on
         /\ padded.leave = loop.leave /\ padded.index = loop.index
         /\ padded.sizes = loop.sizes /\ padded.entered = loop.entered
         /\ padded.bound = IF BoundPadded THEN [secret |-> FALSE, value |-> PaddedBound(loop.pred)]
                                          ELSE loop.bound
         /\ padded.init = IF InitPadded THEN [secret |-> FALSE, value |-> PaddedInit(loop.pred)]
                                        ELSE loop.init
<1>1. loop \in Loops /\ loop \in Loop
  BY LoopFacts DEF Rewritten
<1>2. PICK m \in Nat : m = minSizeArrays /\ m >= 1 /\ m + 2 <= SignBit
  BY <1>1, LoopFacts DEF minSizeArrays
<1>3. PaddedBound(loop.pred) \in Word /\ PaddedInit(loop.pred) \in Word
  BY <1>2, ModulusFact DEF PaddedBound, PaddedInit, Word
<1>4. [secret |-> FALSE, value |-> PaddedBound(loop.pred)] \in Limit
      /\ [secret |-> FALSE, value |-> PaddedInit(loop.pred)] \in Limit
  BY <1>3 DEF Limit
<1> QED
  BY <1>1, <1>4 DEF Rewritten, Loop

LEMMA DownLimits ==
  ASSUME Rewritten, gep > 1, CountsDown(loop)
  PROVE  /\ CountsDown(padded) /\ BoundPadded = loop.bound.secret /\ InitPadded = loop.init.secret
         /\ First = IF loop.init.secret THEN minSizeArrays - 1 ELSE loop.init.value
         /\ Least(loop.pred, padded.bound.value) =
              IF loop.bound.secret THEN 0 ELSE Least(loop.pred, loop.bound.value)
         /\ First \in 0..(minSizeArrays - 1)
         /\ Least(loop.pred, padded.bound.value) \in 0..First
<1>1. PICK m \in Nat : m = minSizeArrays /\ m = Smallest(loop) /\ m >= 1 /\ m + 2 <= SignBit
  BY PaddedLoop, LoopFacts DEF minSizeArrays
<1>2. /\ BoundPadded = loop.bound.secret /\ InitPadded = loop.init.secret
      /\ loop.init.secret \in BOOLEAN /\ loop.bound.secret \in BOOLEAN
  BY PaddedLoop DEF BoundPadded, InitPadded, Active, CountsDown, Loop, Limit
<1>3. CountsDown(padded)
  BY PaddedLoop DEF CountsDown
<1>4. loop.pred \in {"sgt", "sge"} /\ loop.init.value \in Word /\ loop.bound.value \in Word
  BY PaddedLoop, LoopFacts DEF CountsDown
<1>5. First = IF loop.init.secret THEN m - 1 ELSE loop.init.value
  BY <1>1, <1>2, <1>4, PaddedLoop DEF First, PaddedInit, isGT, isGE
<1>6. First \in 0..(m - 1)
  BY <1>1, <1>2, <1>5, PaddedLoop, LoopsAssumption DEF LimitsFit
<1>7. Least(loop.pred, padded.bound.value) =
        IF loop.bound.secret THEN 0 ELSE Least(loop.pred, loop.bound.value)
  <2>1. CASE loop.bound.secret
    <3>1. padded.bound.value = IF loop.pred = "sgt" THEN Modulus - 1 ELSE 0
      <4>1. padded.bound.value = PaddedBound(loop.pred)
        BY <1>2, <2>1, PaddedLoop
      <4> QED
        BY <1>4, <4>1 DEF PaddedBound, isGT, isGE, isLT
    <3>2. Signed(Modulus - 1) = -1 /\ Signed(0) = 0
      BY ModulusFact, SignedFacts DEF Signed, Word
    <3> QED
      BY <1>4, <2>1, <3>1, <3>2 DEF Least, isGT
  <2>2. CASE ~loop.bound.secret
    BY <1>2, <2>2, PaddedLoop
  <2> QED
    BY <2>1, <2>2
<1>8. Least(loop.pred, padded.bound.value) \in 0..First
  <2>1. CASE loop.bound.secret
    BY <1>1, <1>6, <1>7, <2>1
  <2>2. CASE ~loop.bound.secret
    <3>1. loop.init.secret
      BY <2>2, PaddedLoop, LoopsAssumption
    <3>2. Holds(loop.pred, m - 1, loop.bound.value) /\ ~Holds(loop.pred, Modulus - 1, loop.bound.value)
      BY <1>1, <2>2, PaddedLoop, LoopsAssumption DEF LimitsFit
    <3>3. m - 1 \in Word /\ Modulus - 1 \in Word
      BY <1>1, ModulusFact DEF Word
    <3>4. Signed(m - 1) = m - 1 /\ Signed(Modulus - 1) = -1
      BY <1>1, ModulusFact DEF Signed
    <3>5. PICK b \in Int : b = Least(loop.pred, loop.bound.value)
      BY <1>4, HoldsAbove
    <3>6. m - 1 >= b /\ ~(-1 >= b)
      BY <1>4, <3>2, <3>3, <3>4, <3>5, HoldsAbove
    <3> QED
      BY <1>1, <1>5, <1>7, <2>2, <3>1, <3>5, <3>6
  <2> QED
    BY <2>1, <2>2
<1> QED
  BY <1>1, <1>2, <1>3, <1>5, <1>6, <1>7, <1>8

LEMMA UpLimits ==
  ASSUME Rewritten, gep > 1, PadsUp(loop)
  PROVE  /\ CountsUp(padded) <=> CountsUp(loop)
         /\ CountsToExit(padded) <=> CountsToExit(loop)
         /\ BoundPadded /\ InitPadded = loop.init.secret
         /\ First = IF loop.init.secret THEN 0 ELSE loop.init.value
         /\ Greatest(loop.pred, padded.bound.value) =
              CASE loop.pred = "slt" -> minSizeArrays - 2
                [] loop.pred = "sle" -> minSizeArrays
                [] loop.pred = "eq"  -> minSizeArrays - 1
         /\ First \in Nat /\ Greatest(loop.pred, padded.bound.value) \in Nat
         /\ First <= Greatest(loop.pred, padded.bound.value)
<1>1. PICK m \in Nat : m = minSizeArrays /\ m = Smallest(loop) /\ m >= 1 /\ m + 2 <= SignBit
  BY PaddedLoop, LoopFacts DEF minSizeArrays
<1>2. BoundPadded /\ InitPadded = loop.init.secret /\ loop.init.secret \in BOOLEAN
  BY PaddedLoop DEF BoundPadded, InitPadded, Active, PadsUp, CountsUp, CountsToExit, Loop, Limit
<1>3. (CountsUp(padded) <=> CountsUp(loop)) /\ (CountsToExit(padded) <=> CountsToExit(loop))
  BY PaddedLoop DEF CountsUp, CountsToExit
<1>4. loop.pred \in {"slt", "sle", "eq"} /\ loop.init.value \in Word
  BY PaddedLoop, LoopFacts DEF PadsUp, CountsUp, CountsToExit
<1>5. First = IF loop.init.secret THEN 0 ELSE loop.init.value
  BY <1>2, <1>4, PaddedLoop DEF First, PaddedInit, isGT, isGE
<1>6. padded.bound.value = IF loop.pred = "slt" THEN m - 1 ELSE m
  BY <1>1, <1>2, <1>4, PaddedLoop DEF PaddedBound, isGT, isGE, isLT
<1>7. Signed(m - 1) = m - 1 /\ Signed(m) = m
  BY <1>1, ModulusFact DEF Signed
<1>8. Greatest(loop.pred, padded.bound.value) =
        CASE loop.pred = "slt" -> m - 2 [] loop.pred = "sle" -> m [] loop.pred = "eq"  -> m - 1
  BY <1>1, <1>4, <1>6, <1>7 DEF Greatest, isLE
<1>9. CASE loop.pred = "eq"
  <2>1. loop.init.secret \/ loop.init.value \in 0..(m - 1)
    BY <1>1, <1>9, PaddedLoop, LoopsAssumption DEF LimitsFit, PadsUp, CountsUp, CountsToExit
  <2> QED
    BY <1>1, <1>2, <1>3, <1>5, <1>8, <1>9, <2>1
<1>10. CASE loop.pred # "eq"
  <2>1. m >= 2 /\ (loop.init.secret \/ loop.init.value \in 0..(m - 2))
    BY <1>1, <1>10, PaddedLoop, LoopsAssumption DEF LimitsFit, PadsUp, CountsToExit
  <2> QED
    BY <1>1, <1>2, <1>3, <1>4, <1>5, <1>8, <1>10, <2>1
<1> QED
  BY <1>9, <1>10

-----------------------------------------------------------------------------
(* The invariant holds: the pass.                                           *)

LEMMA InitInv == Init => IInv
<1> SUFFICES ASSUME Init PROVE IInv
  OBVIOUS
<1>1. loop \in Loop /\ Len(loop.sizes) \in Nat
  BY LoopFacts DEF Init
<1>2. gep \in 1..(Len(loop.sizes) + 1) /\ ~Active /\ ~BoundPadded /\ ~InitPadded
  BY <1>1 DEF Init, Active, BoundPadded, InitPadded
<1>3. Rewritten
  <2>1. loop = [loop EXCEPT !.bound = @, !.init = @]
    BY <1>1 DEF Loop
  <2>2. applyBranchLS = Active
    BY <1>2 DEF Init, Active
  <2> QED
    BY <1>2, <2>1, <2>2 DEF Init, Rewritten
<1>4. i \in Word
  BY ModulusFact DEF Init, Word
<1> QED
  BY <1>3, <1>4 DEF Init, IInv, Guarded, Executed, Fresh, Downward, Upward

LEMMA RewriteIndexInv == IInv /\ RewriteIndex => IInv'
<1> SUFFICES ASSUME IInv, RewriteIndex PROVE IInv'
  OBVIOUS
<1> USE DEF IInv
<1>1. PICK n \in Nat : n = Len(loop.sizes) /\ gep \in 1..(n + 1) /\ gep <= n
  BY PaddedLoop, LoopFacts DEF RewriteIndex, Rewritten
<1>2. loop' = loop /\ gep' = gep + 1 /\ gep' > 1 /\ pc = "rewrite" /\ pc' = "rewrite"
  BY <1>1 DEF RewriteIndex
<1>3. /\ Active' = TRUE /\ BoundPadded' = loop.bound.secret
      /\ InitPadded' = (loop.init.secret /\ loop.index = "phi")
  BY <1>1, <1>2, PaddedLoop
     DEF RewriteIndex, ConditionUsesIndex, Active, BoundPadded, InitPadded, Loop, Limit
<1>4. (PaddedBound(loop.pred))' = PaddedBound(loop.pred) /\ (PaddedInit(loop.pred))' = PaddedInit(loop.pred)
  BY <1>2 DEF PaddedBound, PaddedInit, minSizeArrays
<1>5. loop \in Loop /\ loop \in Loops /\ loop.bound.secret \in BOOLEAN /\ loop.init.secret \in BOOLEAN
  BY PaddedLoop DEF Loop, Limit
<1>6. gep' \in 1..(n + 1)
  BY <1>1, <1>2
<1>7. CASE Active
  <2>1. ~padded.bound.secret /\ ~PhiIndexFound
    BY <1>5, <1>7, PaddedLoop DEF PhiIndexFound, BoundPadded, InitPadded
  <2>2. applyBranchEnd' = applyBranchEnd /\ applyBranchInit' = applyBranchInit /\ applyBranchLS' = TRUE
    BY <2>1 DEF RewriteIndex
  <2>3. padded' = padded
    BY <2>1, PaddedLoop DEF RewriteIndex, Loop
  <2>4. BoundPadded = loop.bound.secret /\ InitPadded = (loop.init.secret /\ loop.index = "phi")
    BY <1>5, <1>7 DEF BoundPadded, InitPadded
  <2>5. Rewritten'
    BY <1>1, <1>2, <1>3, <1>4, <1>5, <1>6, <2>2, <2>3, <2>4 DEF Rewritten
  <2> QED
    BY <1>2, <2>5 DEF RewriteIndex, runVars, Guarded, Executed, Fresh, Downward, Upward
<1>8. CASE ~Active
  <2>1. padded = loop /\ applyBranchEnd = Absent /\ applyBranchInit = Absent
    BY <1>5, <1>8 DEF Rewritten, BoundPadded, InitPadded, Loop
  <2>2. PhiIndexFound = (loop.init.secret /\ loop.index = "phi")
    BY <1>5, <2>1 DEF PhiIndexFound
  <2>3. Rewritten'
    BY <1>1, <1>2, <1>3, <1>4, <1>5, <1>6, <2>1, <2>2 DEF Rewritten, RewriteIndex
  <2> QED
    BY <1>2, <2>3 DEF RewriteIndex, runVars, Guarded, Executed, Fresh, Downward, Upward
<1> QED
  BY <1>7, <1>8

LEMMA SkipIndexInv == IInv /\ SkipIndex => IInv'
<1> SUFFICES ASSUME IInv, SkipIndex PROVE IInv'
  OBVIOUS
<1> USE DEF IInv
<1>1. PICK n \in Nat : n = Len(loop.sizes) /\ gep \in 1..(n + 1) /\ gep <= n
  BY PaddedLoop, LoopFacts DEF SkipIndex, Rewritten
<1>2. /\ loop' = loop /\ padded' = padded /\ gep' = gep + 1 /\ gep' \in 1..(n + 1)
      /\ pc = "rewrite" /\ pc' = "rewrite" /\ loop.index = "cast"
  BY <1>1 DEF SkipIndex, ConditionUsesIndex
<1>3. ~Active /\ ~BoundPadded /\ ~InitPadded /\ ~Active' /\ ~BoundPadded' /\ ~InitPadded'
  BY <1>2 DEF Active, BoundPadded, InitPadded
<1>4. Rewritten'
  <2>1. applyBranchLS' = Active'
    BY <1>3 DEF SkipIndex, Rewritten, Active
  <2>2. loop = [loop EXCEPT !.bound = @, !.init = @]
    BY PaddedLoop DEF Loop
  <2>3. padded = loop /\ applyBranchEnd = Absent /\ applyBranchInit = Absent
    BY <1>3, <2>2 DEF Rewritten
  <2> QED
    BY <1>1, <1>2, <1>3, <2>1, <2>2, <2>3 DEF SkipIndex, Rewritten
<1> QED
  BY <1>2, <1>4 DEF SkipIndex, runVars, Guarded, Executed, Fresh, Downward, Upward


LEMMA EmitGuardInv == IInv /\ EmitGuard => IInv'
<1> SUFFICES ASSUME IInv, EmitGuard PROVE IInv'
  OBVIOUS
<1> USE DEF IInv
<1>1. /\ UNCHANGED <<loop, padded, gep, applyBranchLS, applyBranchEnd, applyBranchInit>>
      /\ pc = "rewrite" /\ pc' \in {"run", "crashed"} /\ i' = First /\ gep > 1
      /\ touched' = {} /\ stored' = {}
  <2>1. PICK n \in Nat : n = Len(loop.sizes) /\ n >= 1 /\ gep \in 1..(n + 1)
    BY PaddedLoop, LoopFacts DEF Rewritten
  <2>2. inputBranch
    BY PaddedLoop, LoopFacts DEF inputBranch
  <2> QED
    BY <2>1, <2>2 DEF EmitGuard, rewritten, passVars, Fresh, First
<1>2. Rewritten'
  BY <1>1 DEF Rewritten, Active, BoundPadded, InitPadded, PaddedBound, PaddedInit, minSizeArrays
<1>3. Guarded'
  BY <1>1 DEF EmitGuard, Guarded, Selects
<1>4. Executed'
  BY <1>1, PaddedLoop DEF Executed, First, Loop, Limit
<1>5. Downward'
  <2> SUFFICES ASSUME CountsDown(loop), pc' = "run" PROVE Downward'
    BY <1>1 DEF Downward
  <2>1. PICK low \in Int, first \in Int :
          low = Least(loop.pred, padded.bound.value) /\ first = First /\ low <= first
    BY <1>1, DownLimits, LoopFacts, PaddedLoop DEF minSizeArrays
  <2>2. first \in low..first /\ (first + 1)..first = {}
    BY <2>1
  <2> QED
    BY <1>1, <2>1, <2>2 DEF Downward, First
<1>6. Upward'
  <2> SUFFICES ASSUME PadsUp(loop), pc' = "run" PROVE Upward'
    BY <1>1 DEF Upward
  <2>1. PICK high \in Int, first \in Int :
          high = Greatest(loop.pred, padded.bound.value) /\ first = First /\ first <= high
    BY <1>1, UpLimits
  <2>2. first \in first..high /\ first..(first - 1) = {}
    BY <2>1
  <2> QED
    BY <1>1, <2>1, <2>2 DEF Upward, First
<1> QED
  BY <1>1, <1>2, <1>3, <1>4, <1>5, <1>6 DEF Fresh

-----------------------------------------------------------------------------
(* The invariant holds: the execution.                                      *)

LEMMA IterateInv == IInv /\ Iterate => IInv'
<1> SUFFICES ASSUME IInv, Iterate PROVE IInv'
  OBVIOUS
<1> USE DEF IInv
<1>1. /\ UNCHANGED <<loop, padded, gep, applyBranchLS, applyBranchEnd, applyBranchInit>>
      /\ pc = "run" /\ pc' \in {"run", "ended"} /\ gep > 1
      /\ pc' = "run" <=> Again(padded, i)
      /\ i' = Next_(padded, i) /\ touched' = touched \cup {Element(padded, i)}
  BY DEF Iterate, passVars, Guarded
<1>2. Rewritten'
  BY <1>1 DEF Rewritten, Active, BoundPadded, InitPadded, PaddedBound, PaddedInit, minSizeArrays
<1>3. Guarded'
  BY <1>1 DEF Guarded, Selects
<1>4. Executed'
  <2>1. i + padded.step \in Int
    BY PaddedLoop, ModulusFact DEF Executed, Word, Loop
  <2>2. i' \in Word
    BY <1>1, <2>1, Wraps DEF Next_, Plus
  <2>3. stored' \subseteq touched'
    BY <1>1 DEF Executed, Iterate
  <2> QED
    BY <2>2, <2>3 DEF Executed
<1>5. ASSUME NEW e
      PROVE  /\ (HasEffect(e))' <=> HasEffect(e)
             /\ First' = First
             /\ (e \in stored') <=> (e \in stored \/ (e = Element(padded, i) /\ (Selects => finalCmp(i))))
  BY <1>1 DEF HasEffect, finalCmp, First, Iterate
<1>6. CountsDown(loop) \/ PadsUp(loop) => ((Selects => finalCmp(i)) <=> HasEffect(i))
  BY <1>1, PaddedLoop
     DEF Rewritten, Active, Selects, HasEffect, CountsDown, PadsUp, CountsUp, CountsToExit
<1>7. Downward'
  <2> SUFFICES ASSUME CountsDown(loop) PROVE Downward'
    BY <1>1 DEF Downward
  <2>1. PICK low \in Nat, first \in Nat : /\ low = Least(loop.pred, padded.bound.value) /\ first = First
                                          /\ first + 3 <= SignBit
    <3>1. PICK m \in Nat : m = minSizeArrays /\ m + 2 <= SignBit
      BY PaddedLoop, LoopFacts DEF minSizeArrays
    <3>2. First \in 0..(m - 1) /\ Least(loop.pred, padded.bound.value) \in 0..First
      BY <1>1, <3>1, DownLimits
    <3> QED
      BY <3>1, <3>2, ModulusFact
  <2>2. i \in low..first /\ touched = (i + 1)..first /\ \A e \in touched : e \in stored <=> HasEffect(e)
    BY <1>1, <2>1 DEF Downward
  <2>3. i \in Nat /\ i \in 0..(SignBit - 1)
    BY <2>1, <2>2, ModulusFact
  <2>4. CountsDown(padded) /\ padded \in Loop /\ padded.pred = loop.pred
    BY <1>1, DownLimits, PaddedLoop
  <2>5. /\ Again(padded, i) <=> i - 1 >= low
        /\ Element(padded, i) = i /\ i' = Plus(i, -1) /\ (i > 0 => i' = i - 1)
    BY <1>1, <2>1, <2>3, <2>4, AgainDown, IndexBefore
  <2>6. touched' = i..first
    BY <1>1, <2>1, <2>2, <2>3, <2>5
  <2>7. ASSUME NEW e \in touched' PROVE e \in stored' <=> (HasEffect(e))'
    <3>1. e \in touched \/ e = i
      BY <1>1, <2>5
    <3>2. ~(i \in touched)
      BY <2>2, <2>3
    <3>3. stored \subseteq touched
      BY DEF Executed
    <3> QED
      BY <1>5, <1>6, <2>2, <2>5, <3>1, <3>2, <3>3
  <2>8. CASE Again(padded, i)
    <3>1. i' = i - 1 /\ i' \in low..first /\ i' + 1 = i /\ pc' = "run"
      BY <1>1, <2>1, <2>2, <2>3, <2>5, <2>8
    <3> QED
      BY <1>1, <1>5, <2>1, <2>6, <2>7, <3>1 DEF Downward
  <2>9. CASE ~Again(padded, i)
    <3>1. i = low /\ pc' = "ended"
      BY <1>1, <2>1, <2>2, <2>3, <2>5, <2>9
    <3> QED
      BY <1>1, <1>5, <2>1, <2>6, <2>7, <3>1 DEF Downward
  <2> QED
    BY <2>8, <2>9
<1>8. Upward'
  <2> SUFFICES ASSUME PadsUp(loop) PROVE Upward'
    BY <1>1 DEF Upward
  <2>1. PICK high \in Nat, first \in Nat : /\ high = Greatest(loop.pred, padded.bound.value)
                                           /\ first = First /\ high + 2 <= SignBit
    <3>1. PICK m \in Nat : m = minSizeArrays /\ m >= 1 /\ m + 2 <= SignBit
      BY PaddedLoop, LoopFacts DEF minSizeArrays
    <3>2. /\ First \in Nat /\ Greatest(loop.pred, padded.bound.value) \in Nat
          /\ Greatest(loop.pred, padded.bound.value) <= m
      BY <1>1, <3>1, UpLimits DEF PadsUp, CountsUp, CountsToExit
    <3> QED
      BY <3>1, <3>2, ModulusFact
  <2>2. i \in first..high /\ touched = first..(i - 1) /\ \A e \in touched : e \in stored <=> HasEffect(e)
    BY <1>1, <2>1 DEF Upward
  <2>3. i \in Nat /\ i \in 0..(SignBit - 2)
    BY <2>1, <2>2, ModulusFact
  <2>4. /\ CountsUp(padded) \/ CountsToExit(padded)
        /\ padded \in Loop /\ padded.pred = loop.pred
    BY <1>1, UpLimits, PaddedLoop DEF PadsUp
  <2>5. /\ i <= high => (Again(padded, i) <=> i < high)
        /\ Element(padded, i) = i /\ i' = i + 1
    <3>1. /\ CountsUp(padded) => (Again(padded, i) <=> i + 1 <= high)
          /\ CountsToExit(padded) => (Again(padded, i) <=> i # high)
          /\ Next_(padded, i) = i + 1 /\ Element(padded, i) = i
      BY <2>1, <2>3, <2>4, AgainUp
    <3> QED
      BY <1>1, <2>1, <2>3, <2>4, <3>1
  <2>6. touched' = first..i
    BY <1>1, <2>1, <2>2, <2>3, <2>5
  <2>7. ASSUME NEW e \in touched' PROVE e \in stored' <=> (HasEffect(e))'
    <3>1. e \in touched \/ e = i
      BY <1>1, <2>5
    <3>2. ~(i \in touched)
      BY <2>2, <2>3
    <3>3. stored \subseteq touched
      BY DEF Executed
    <3> QED
      BY <1>5, <1>6, <2>2, <2>5, <3>1, <3>2, <3>3
  <2>8. CASE Again(padded, i)
    <3>1. i' \in first..high /\ i' - 1 = i /\ pc' = "run"
      BY <1>1, <2>1, <2>2, <2>3, <2>5, <2>8
    <3> QED
      BY <1>1, <1>5, <2>1, <2>6, <2>7, <3>1 DEF Upward
  <2>9. CASE ~Again(padded, i)
    <3>1. i = high /\ pc' = "ended"
      BY <1>1, <2>1, <2>2, <2>3, <2>5, <2>9
    <3> QED
      BY <1>1, <1>5, <2>1, <2>6, <2>7, <3>1 DEF Upward
  <2> QED
    BY <2>8, <2>9
<1> QED
  BY <1>1, <1>2, <1>3, <1>4, <1>7, <1>8 DEF Fresh


LEMMA HaltInv == IInv /\ UNCHANGED vars => IInv'
<1> SUFFICES ASSUME IInv, UNCHANGED vars PROVE IInv'
  OBVIOUS
<1> USE DEF IInv, vars
<1>1. Rewritten'
  BY DEF Rewritten, Active, BoundPadded, InitPadded, PaddedBound, PaddedInit, minSizeArrays
<1>2. Guarded' /\ Executed' /\ Fresh'
  BY DEF Guarded, Selects, Executed, Fresh
<1>3. First' = First /\ \A e : (HasEffect(e))' <=> HasEffect(e)
  BY DEF First, HasEffect, finalCmp
<1>4. Downward'
  BY <1>3 DEF Downward
<1>5. Upward'
  BY <1>3 DEF Upward
<1> QED
  BY <1>1, <1>2, <1>4, <1>5

THEOREM Invariance == Spec => []IInv
<1>1. IInv /\ [Next]_vars => IInv'
  BY RewriteIndexInv, SkipIndexInv, EmitGuardInv, IterateInv, HaltInv DEF Next, Halt
<1> QED
  BY InitInv, <1>1, PTL DEF Spec

-----------------------------------------------------------------------------
(* What follows.                                                            *)

\* The state of the pass and of the padded loop is what it should be, and an
\* effect is that of an access.
THEOREM TypeCorrect == Spec => []TypeOK
<1>1. IInv => TypeOK
  <2> SUFFICES ASSUME IInv PROVE TypeOK
    OBVIOUS
  <2>1. padded.init.value \in Word /\ padded.bound.value \in Word
    BY PaddedLoop DEF IInv, Loop, Limit
  <2>2. applyBranchLS \in BOOLEAN
    BY DEF IInv, Rewritten, Active
  <2> QED
    BY <2>1, <2>2 DEF IInv, Rewritten, Guarded, Executed, TypeOK
<1> QED
  BY Invariance, <1>1, PTL

\* The pass dereferences a null guard (lines 340-442) for exactly the loops
\* whose array is indexed with the next value, whose bound is public and that
\* store into the array or carry what they load from one iteration to another,
\* whatever the arrays and limits.
THEOREM CrashesOnlyThere == Spec => []CrashesOnNextIndex
<1>1. IInv => CrashesOnNextIndex
  <2> SUFFICES ASSUME IInv, pc \in {"run", "crashed"}
               PROVE  pc = "crashed" <=> /\ loop.index = "next" /\ loop.access # "other"
                                         /\ loop.init.secret /\ ~loop.bound.secret
    BY DEF CrashesOnNextIndex
  <2>1. /\ gep > 1 /\ loop \in Loop /\ loop \in Loops
        /\ pc = "crashed" <=> Selects /\ applyBranchEnd = Absent /\ applyBranchInit = Absent
    BY PaddedLoop DEF IInv, Guarded
  <2>2. /\ Selects <=> loop.index # "cast" /\ loop.access # "other"
        /\ BoundPadded <=> loop.index # "cast" /\ loop.bound.secret
        /\ InitPadded <=> loop.index = "phi" /\ loop.init.secret
    BY <2>1 DEF IInv, Rewritten, Selects, Active, BoundPadded, InitPadded
  <2>3. loop.bound # Absent /\ loop.init # Absent
    <3>1. Absent.value \notin Word
      BY ModulusFact DEF Absent, Word
    <3> QED
      BY <2>1, <3>1, LoopFacts
  <2>4. applyBranchEnd = Absent <=> ~BoundPadded
    BY <2>3 DEF IInv, Rewritten
  <2>5. applyBranchInit = Absent <=> ~InitPadded
    BY <2>3 DEF IInv, Rewritten
  <2>6. loop.index \in {"phi", "next", "cast"} /\ (loop.init.secret \/ loop.bound.secret)
    BY <2>1, LoopFacts DEF Loop
  <2> QED
    BY <2>1, <2>2, <2>4, <2>5, <2>6
<1> QED
  BY Invariance, <1>1, PTL

\* The guard of a loop that counts down, as limits.
LEMMA GuardDown ==
  ASSUME IInv, gep > 1, CountsDown(loop), NEW n \in 0..(SignBit - 1)
  PROVE  finalCmp(n) <=> /\ loop.init.secret => n <= Signed(loop.init.value)
                         /\ loop.bound.secret => n >= Least(loop.pred, loop.bound.value)
<1>1. /\ applyBranchEnd = IF loop.bound.secret THEN loop.bound ELSE Absent
      /\ applyBranchInit = IF loop.init.secret THEN loop.init ELSE Absent
  BY DownLimits DEF IInv, Rewritten
<1>2. loop.bound # Absent /\ loop.init # Absent /\ loop.bound.value \in Word /\ loop.init.value \in Word
  <2>1. Absent.value \notin Word
    BY ModulusFact DEF Absent, Word
  <2> QED
    BY <2>1, PaddedLoop, LoopFacts DEF IInv
<1>3. n \in Word /\ Signed(n) = n
  BY ModulusFact, SignedFacts DEF Word
<1>4. loop.pred \in {"sgt", "sge"}
  BY DEF CountsDown
<1>5. Holds("sle", n, loop.init.value) <=> n <= Signed(loop.init.value)
  <2>1. Greatest("sle", loop.init.value) = Signed(loop.init.value)
    BY DEF Greatest, isLE
  <2> QED
    BY <1>2, <1>3, <2>1, HoldsBelow
<1>6. Holds(loop.pred, n, loop.bound.value) <=> n >= Least(loop.pred, loop.bound.value)
  BY <1>2, <1>3, <1>4, HoldsAbove
<1> QED
  BY <1>1, <1>2, <1>4, <1>5, <1>6 DEF finalCmp, isGT, isGE

\* And of one that counts up.
LEMMA GuardUp ==
  ASSUME IInv, gep > 1, PadsUp(loop), NEW n \in 0..(SignBit - 1)
  PROVE  finalCmp(n) <=> /\ loop.init.secret => n >= Signed(loop.init.value)
                         /\ IF loop.pred = "eq" THEN n = Greatest(loop.pred, loop.bound.value) + 1
                                                ELSE n <= Greatest(loop.pred, loop.bound.value)
<1>1. /\ applyBranchEnd = loop.bound
      /\ applyBranchInit = IF loop.init.secret THEN loop.init ELSE Absent
  BY UpLimits DEF IInv, Rewritten
<1>2. loop.bound # Absent /\ loop.init # Absent /\ loop.bound.value \in Word /\ loop.init.value \in Word
  <2>1. Absent.value \notin Word
    BY ModulusFact DEF Absent, Word
  <2> QED
    BY <2>1, PaddedLoop, LoopFacts DEF IInv
<1>3. n \in Word /\ Signed(n) = n /\ n \in Int
  BY ModulusFact, SignedFacts DEF Word
<1>4. loop.pred \in {"slt", "sle", "eq"}
  BY DEF PadsUp, CountsUp, CountsToExit
<1>5. Holds("sge", n, loop.init.value) <=> n >= Signed(loop.init.value)
  <2>1. Least("sge", loop.init.value) = Signed(loop.init.value)
    BY DEF Least, isGT
  <2> QED
    BY <1>2, <1>3, <2>1, HoldsAbove
<1>6. CASE loop.pred = "eq"
  <2>1. Holds("eq", n, loop.bound.value) <=> n = Greatest("eq", loop.bound.value) + 1
    BY <1>2, <1>3, HoldsEqual
  <2> QED
    BY <1>1, <1>2, <1>5, <1>6, <2>1 DEF finalCmp, isGT, isGE
<1>7. CASE loop.pred # "eq"
  <2>1. Holds(loop.pred, n, loop.bound.value) <=> n <= Greatest(loop.pred, loop.bound.value)
    BY <1>2, <1>3, <1>4, <1>7, HoldsBelow
  <2> QED
    BY <1>1, <1>2, <1>4, <1>5, <1>7, <2>1 DEF finalCmp, isGT, isGE
<1> QED
  BY <1>6, <1>7

\* In the state in which a loop that counts down has ended.
LEMMA DownwardAccesses == IInv => Oblivious
<1> SUFFICES ASSUME IInv, pc = "ended", CountsDown(loop) PROVE touched = PublicElements(loop)
  BY DEF Oblivious
<1>1. gep > 1 /\ loop \in Loops /\ loop.step = -1 /\ loop.pred \in {"sgt", "sge"}
      /\ loop.bound.value \in Word
  BY PaddedLoop, LoopFacts DEF IInv, Guarded, CountsDown
<1>2. PICK m \in Nat : m = minSizeArrays /\ m + 2 <= SignBit /\ m >= 1
  BY <1>1, LoopFacts DEF minSizeArrays
<1>3. PICK low \in Nat, first \in Nat :
        /\ low = Least(loop.pred, padded.bound.value) /\ first = First /\ first < m
        /\ first = IF loop.init.secret THEN m - 1 ELSE loop.init.value
        /\ low = IF loop.bound.secret THEN 0 ELSE Least(loop.pred, loop.bound.value)
        /\ touched = low..first
  BY <1>1, <1>2, DownLimits DEF IInv, Downward
<1>4. ASSUME NEW e \in 0..(m - 1)
      PROVE  Holds(loop.pred, e, loop.bound.value) <=> e >= Least(loop.pred, loop.bound.value)
  <2>1. e \in Word /\ Signed(e) = e
    BY <1>2, ModulusFact, SignedFacts DEF Word
  <2> QED
    BY <1>1, <2>1, HoldsAbove
<1>5. ASSUME NEW e
      PROVE  e \in PublicElements(loop) <=>
               e \in 0..(m - 1) /\ (loop.init.secret \/ e <= loop.init.value)
               /\ (loop.bound.secret \/ e >= Least(loop.pred, loop.bound.value))
  BY <1>1, <1>2, <1>4 DEF PublicElements
<1>6. ASSUME NEW e PROVE e \in PublicElements(loop) <=> e \in low..first
  <2>1. e \in low..first => e \in 0..(m - 1)
    BY <1>2, <1>3
  <2>2. ASSUME e \in 0..(m - 1)
        PROVE  /\ (loop.init.secret \/ e <= loop.init.value) <=> e <= first
               /\ (loop.bound.secret \/ e >= Least(loop.pred, loop.bound.value)) <=> e >= low
    BY <1>2, <1>3, <2>2
  <2> QED
    BY <1>2, <1>3, <1>5, <2>1, <2>2
<1> QED
  BY <1>3, <1>6

\* Padding makes the accesses of a loop that counts down independent of the
\* secrets: they are the elements between its public limits, in every array.
THEOREM DownwardIsOblivious == Spec => []Oblivious
BY Invariance, DownwardAccesses, PTL

\* And it changes nothing else where a select is made: the effects are those
\* of the original's iterations, also where the original does not enter the
\* loop. Without selects every access has its effect.
THEOREM DownwardKeepsEffects == Spec => []EffectsKept
<1>1. ASSUME IInv, pc = "ended", CountsDown(loop), loop.access = "other"
      PROVE  stored = PublicElements(loop)
  <2>1. touched = PublicElements(loop)
    BY <1>1, DownwardAccesses DEF Oblivious
  <2>2. \A e \in touched : e \in stored
    BY <1>1 DEF IInv, Downward, HasEffect
  <2> QED
    BY <1>1, <2>1, <2>2 DEF IInv, Executed
<1>2. IInv => EffectsKept
  <2> SUFFICES ASSUME IInv, pc = "ended", CountsDown(loop), loop.access # "other"
               PROVE  stored = OriginalElements(loop)
    BY <1>1 DEF EffectsKept
  <2>1. /\ gep > 1 /\ loop \in Loops /\ loop.pred \in {"sgt", "sge"} /\ loop.index = "phi"
        /\ loop.bound.value \in Word /\ loop.init.value \in Word
        /\ loop.init.secret \/ loop.bound.secret
    BY PaddedLoop, LoopFacts DEF IInv, Guarded, CountsDown
  <2>2. PICK m \in Nat : m = minSizeArrays /\ m = Smallest(loop) /\ m + 2 <= SignBit /\ m >= 1
    BY <2>1, LoopFacts DEF minSizeArrays
  <2>3. PICK low \in Nat, first \in Nat :
          /\ low = Least(loop.pred, padded.bound.value) /\ first = First /\ first < m
          /\ first = IF loop.init.secret THEN m - 1 ELSE loop.init.value
          /\ low = IF loop.bound.secret THEN 0 ELSE Least(loop.pred, loop.bound.value)
          /\ touched = low..first
    BY <2>1, <2>2, DownLimits DEF IInv, Downward
  <2>4. PICK a \in Int, b \in Int : a = Signed(loop.init.value) /\ b = Least(loop.pred, loop.bound.value)
    BY <2>1, SignedFacts, HoldsAbove, ModulusFact
  <2>5. ASSUME NEW e
        PROVE  e \in stored <=> e \in low..first /\ (loop.init.secret => e <= a) /\ (loop.bound.secret => e >= b)
    <3>1. e \in low..first => e \in 0..(SignBit - 1)
      BY <2>2, <2>3, ModulusFact
    <3>2. e \in stored <=> e \in low..first /\ finalCmp(e)
      BY <2>3 DEF IInv, Downward, HasEffect, Executed
    <3> QED
      BY <2>1, <2>4, <3>1, <3>2, GuardDown
  <2>6. loop.init.secret \/ a = loop.init.value
    BY <2>1, <2>2, <2>3, <2>4, SignedFacts, ModulusFact
  <2>7. ASSUME NEW e PROVE e \in stored <=> e \in 0..(m - 1) /\ e \in b..a
    BY <2>1, <2>2, <2>3, <2>4, <2>5, <2>6
  <2>8. CASE loop.entered
    <3>1. OriginalElements(loop) = b..a /\ b >= 0 /\ a < m
      <4>1. a = loop.init.value /\ a \in 0..(m - 1)
        BY <2>1, <2>2, <2>4, <2>8, FirstElement
      <4> QED
        BY <2>1, <2>2, <2>4, <2>8, <4>1, OriginalDown
    <3>2. ASSUME NEW e \in b..a PROVE e \in 0..(m - 1)
      BY <2>2, <3>1
    <3>3. \A e : e \in stored <=> e \in b..a
      BY <2>7, <3>2
    <3> QED
      BY <3>1, <3>3
  <2>9. CASE ~loop.entered
    <3>1. ~Holds(loop.pred, loop.init.value, loop.bound.value)
      BY <2>1, <2>9, LoopsAssumption DEF EnteredAsFor
    <3>2. a < b
      BY <2>1, <2>4, <3>1, HoldsAbove
    <3>3. OriginalElements(loop) = {}
      BY <2>9 DEF OriginalElements
    <3>4. b..a = {}
      BY <3>2
    <3>5. \A e : e \notin stored
      BY <2>7, <3>4
    <3> QED
      BY <3>3, <3>5
  <2> QED
    BY <2>8, <2>9
<1> QED
  BY Invariance, <1>2, PTL


\* What a loop that counts up is left with, over arrays of m elements: it runs
\* from first to high, and the original one, if it was entered, from a to b.
UpwardEnds(m, first, high, a, b) ==
  /\ m = minSizeArrays /\ m >= 1 /\ first <= high
  /\ first = IF loop.init.secret THEN 0 ELSE loop.init.value
  /\ loop.pred = "slt" => high = m - 2
  /\ loop.pred = "sle" => high = m
  /\ loop.pred = "eq"  => high = m - 1
  /\ loop.init.secret \/ a = first
  /\ touched = first..high
  /\ loop.access # "other" =>
       stored = {e \in first..high : /\ loop.init.secret => e >= a
                                     /\ IF loop.pred = "eq" THEN e = b + 1 ELSE e <= b}
  /\ \/ OriginalElements(loop) = a..b /\ a >= 0 /\ b < m
     \/ OriginalElements(loop) = {} /\ a > b

\* All three parts of UpwardLimits follow from this.
LEMMA UpwardEnd ==
  ASSUME IInv, pc = "ended", PadsUp(loop)
  PROVE  \E m \in Nat, first \in Nat, high \in Nat, a \in Int, b \in Int :
           UpwardEnds(m, first, high, a, b)
<1>1. /\ gep > 1 /\ loop \in Loops /\ loop.pred \in {"slt", "sle", "eq"} /\ loop.index = "phi"
      /\ loop.bound.value \in Word /\ loop.init.value \in Word
      /\ CountsUp(loop) \/ CountsToExit(loop)
  BY PaddedLoop, LoopFacts DEF IInv, Guarded, PadsUp, CountsUp, CountsToExit
<1>2. PICK m \in Nat : m = minSizeArrays /\ m = Smallest(loop) /\ m + 2 <= SignBit /\ m >= 1
  BY <1>1, LoopFacts DEF minSizeArrays
<1>3. PICK first \in Nat, high \in Nat :
        /\ high = Greatest(loop.pred, padded.bound.value) /\ first = First /\ first <= high
        /\ first = IF loop.init.secret THEN 0 ELSE loop.init.value
        /\ loop.pred = "slt" => high = m - 2
        /\ loop.pred = "sle" => high = m
        /\ loop.pred = "eq"  => high = m - 1
  BY <1>1, <1>2, UpLimits DEF IInv
<1>4. touched = first..high /\ \A e \in touched : e \in stored <=> HasEffect(e)
  BY <1>3 DEF IInv, Upward
<1>5. PICK a \in Int, b \in Int : a = Signed(loop.init.value) /\ b = Greatest(loop.pred, loop.bound.value)
  BY <1>1, SignedFacts, HoldsBelow, HoldsEqual, ModulusFact
<1>6. first <= high /\ high + 2 <= SignBit /\ SignBit \in Nat
  BY <1>1, <1>2, <1>3, ModulusFact
<1>7. ASSUME NEW e \in first..high, loop.access # "other"
      PROVE  e \in stored <=> /\ loop.init.secret => e >= a
                              /\ IF loop.pred = "eq" THEN e = b + 1 ELSE e <= b
  <2>1. e \in 0..(SignBit - 1)
    BY <1>6
  <2> QED
    BY <1>1, <1>4, <1>5, <1>7, <2>1, GuardUp DEF HasEffect
<1>8. stored \subseteq first..high
  BY <1>4 DEF IInv, Executed
<1>9. loop.init.secret \/ a = first
  <2> SUFFICES ASSUME ~loop.init.secret PROVE a = first
    OBVIOUS
  <2>1. first < SignBit /\ first = loop.init.value
    BY <1>3, <1>6
  <2> QED
    BY <1>1, <1>5, <2>1, SignedFacts
<1>10. \/ OriginalElements(loop) = a..b /\ a >= 0 /\ b < m
       \/ OriginalElements(loop) = {} /\ a > b
  <2>1. CASE loop.entered
    <3>1. a = loop.init.value /\ a >= 0
      BY <1>1, <1>2, <1>5, <2>1, FirstElement
    <3> QED
      BY <1>1, <1>2, <1>5, <2>1, <3>1, OriginalUp
  <2>2. CASE ~loop.entered
    <3>1. a > b
      <4>1. CASE CountsUp(loop)
        <5>1. ~Holds(loop.pred, loop.init.value, loop.bound.value)
          BY <1>1, <2>2, <4>1, LoopsAssumption DEF EnteredAsFor
        <5> QED
          BY <1>1, <1>5, <4>1, <5>1, HoldsBelow DEF CountsUp
      <4>2. CASE CountsToExit(loop)
        <5>1. ~Holds("slt", loop.init.value, loop.bound.value)
          BY <1>1, <2>2, <4>2, LoopsAssumption DEF EnteredAsFor
        <5>2. Greatest("slt", loop.bound.value) = b
          BY <1>5, <4>2 DEF CountsToExit, Greatest, isLE
        <5> QED
          BY <1>1, <1>5, <5>1, <5>2, HoldsBelow
      <4> QED
        BY <1>1, <4>1, <4>2
    <3> QED
      BY <2>2, <3>1 DEF OriginalElements
  <2> QED
    BY <2>1, <2>2
<1>11. loop.access # "other" =>
         stored = {e \in first..high : /\ loop.init.secret => e >= a
                                       /\ IF loop.pred = "eq" THEN e = b + 1 ELSE e <= b}
  BY <1>7, <1>8
<1>12. UpwardEnds(m, first, high, a, b)
  BY <1>2, <1>3, <1>4, <1>6, <1>9, <1>10, <1>11 DEF UpwardEnds
<1> QED
  BY <1>12

\* What the constants of lines 274-293 make of each kind of loop that counts
\* up, whatever the arrays and the secrets: one access too few, one too many,
\* and none with an effect.
THEOREM UpwardLimitsAreOff == Spec => []UpwardLimits
<1>1. ASSUME IInv, pc = "ended", CountsUp(loop) \/ CountsToExit(loop), loop.bound.secret
      PROVE  UpwardLimits
  <2>1. /\ loop.step = 1 /\ loop.pred \in {"slt", "sle", "eq"}
        /\ CountsUp(loop) => loop.pred # "eq"
        /\ CountsToExit(loop) => loop.pred = "eq"
    BY <1>1 DEF CountsUp, CountsToExit
  <2>2. PICK m \in Nat, first \in Nat, high \in Nat, a \in Int, b \in Int :
          UpwardEnds(m, first, high, a, b)
    BY <1>1, UpwardEnd DEF PadsUp
  <2> USE DEF UpwardEnds
  <2>3. m = minSizeArrays /\ m >= 1 /\ touched = first..high /\ first <= high
    BY <2>2
  <2>4. ASSUME NEW e PROVE e \in PublicElements(loop) <=> e \in 0..(m - 1) /\ e >= first
    BY <1>1, <2>1, <2>2 DEF PublicElements
  <2>5. ASSUME NEW e, loop.access # "other"
        PROVE  e \in stored <=> /\ e \in first..high
                                /\ loop.init.secret => e >= a
                                /\ IF loop.pred = "eq" THEN e = b + 1 ELSE e <= b
    BY <2>2, <2>5
  <2>6. ASSUME NEW e
        PROVE  e \in OriginalElements(loop) <=> e \in a..b
    BY <2>2
  <2>7. CASE loop.pred = "slt"
    <3>1. high = m - 2
      BY <2>2, <2>7
    <3>2. ASSUME NEW e PROVE e \in touched <=> e \in PublicElements(loop) /\ e # m - 1
      BY <2>3, <2>4, <3>1
    <3>3. ASSUME NEW e, loop.access # "other" PROVE e \in stored <=> e \in OriginalElements(loop) /\ e # m - 1
      BY <2>2, <2>5, <2>6, <2>7, <3>1, <3>3
    <3> QED
      BY <2>1, <2>2, <2>7, <3>2, <3>3 DEF UpwardLimits, LastElementLost, OneTooMany, ExitTestLosesEffects
  <2>8. CASE loop.pred = "sle"
    <3>1. high = m
      BY <2>2, <2>8
    <3>2. ASSUME NEW e PROVE e \in touched <=> e \in PublicElements(loop) \/ e = m
      BY <2>3, <2>4, <3>1
    <3>3. ASSUME NEW e, loop.access # "other" PROVE e \in stored <=> e \in OriginalElements(loop)
      BY <2>2, <2>5, <2>6, <2>8, <3>1, <3>3
    <3> QED
      BY <2>1, <2>2, <2>8, <3>2, <3>3 DEF UpwardLimits, LastElementLost, OneTooMany, ExitTestLosesEffects
  <2>9. CASE loop.pred = "eq"
    <3>1. high = m - 1
      BY <2>2, <2>9
    <3>2. ASSUME NEW e PROVE e \in touched <=> e \in PublicElements(loop)
      BY <2>3, <2>4, <3>1
    <3>3. ASSUME NEW e, loop.access # "other" PROVE ~(e \in stored /\ e \in OriginalElements(loop))
      BY <2>5, <2>6, <2>9, <3>3
    <3> QED
      BY <2>1, <2>2, <2>9, <3>2, <3>3 DEF UpwardLimits, LastElementLost, OneTooMany, ExitTestLosesEffects
  <2> QED
    BY <2>1, <2>7, <2>8, <2>9
<1>2. IInv => UpwardLimits
  BY <1>1 DEF UpwardLimits, LastElementLost, OneTooMany, ExitTestLosesEffects
<1> QED
  BY Invariance, <1>2, PTL
=============================================================================
