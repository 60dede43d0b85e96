---------------------------- MODULE TutorProofs ----------------------------
(* Passes from llvm-tutor. The function passes: what a function computes     *)
(* before and after them, in every width and for every range of doubles, and *)
(* what the analysis manager holds; dynamic-cc's counters and the reports of *)
(* static-cc, for every program, number of threads and order of passes.      *)
EXTENDS CallCounter, FunctionPasses, Facts

-----------------------------------------------------------------------------
(* Substituted expressions.                                                  *)

\* Adding to a sum that was cut to the width is adding to the sum.
LEMMA AddModulo ==
  ASSUME NEW m \in Nat \ {0}, NEW a \in Int, NEW c \in Int
  PROVE  ((a % m) + c) % m = (a + c) % m
<1> DEFINE q == a \div m  r == a % m
<1>1. q \in Int /\ r \in 0..(m - 1) /\ a = m * q + r
  OBVIOUS
<1> HIDE DEF q, r
<1>2. a + c = (r + c) + m * q /\ r + c \in Int
  BY <1>1
<1> QED BY <1>1, <1>2, SameRemainder DEF r

\* (a + ~b) + 1, each operation in the width, is a - b: mba-sub keeps every
\* difference whatever the width of the integers (MBASub.cpp:63-67).
THEOREM SubstitutionExact ==
  ASSUME NEW a \in Words, NEW b \in Words
  PROVE  Add(Add(a, Not(b)), 1) = Sub(a, b)
<1> DEFINE s == a + ((Modulus - 1) - b)
<1>1. Modulus \in Nat \ {0} /\ a \in Int /\ b \in Int /\ s \in Int
  BY WidthAssumption DEF Words
<1> HIDE DEF s
<1>2. ((s % Modulus) + 1) % Modulus = (s + 1) % Modulus
  BY <1>1, 1 \in Int, AddModulo
<1>3. s + 1 = (a - b) + Modulus * 1 /\ a - b \in Int
  BY <1>1 DEF s
<1>4. (s + 1) % Modulus = (a - b) % Modulus
  BY <1>1, <1>3, 1 \in Int, SameRemainder
<1> QED BY <1>2, <1>4 DEF Add, Not, Sub, s

Distance(a, b) == FromBits(ClearSign(ToBits(FSub(a, b))))

\* The new instructions compute the magnitude of the difference.
LEMMA DistanceIsMagnitude ==
  ASSUME NEW a, NEW b
  PROVE  Distance(a, b) = Magnitude(FSub(a, b))
BY DEF Distance, ToBits, ClearSign, FromBits

\* A converted comparison answers differently exactly for the operands that
\* are blurred, whatever the range of doubles and epsilon are
\* (ConvertFCmpEq.cpp:69-118).
THEOREM ConversionExact ==
  ASSUME NEW a \in Doubles, NEW b \in Doubles, NEW p \in {"oeq", "ueq", "one", "une"}
  PROVE  FCmp(CmpPred(p), Distance(a, b), Epsilon) # FCmp(p, a, b) <=> Blurred(p, a, b)
<1>1. Distance(a, b) = Magnitude(FSub(a, b))
  BY DistanceIsMagnitude
<1>2. a \in Int /\ b \in Int /\ MaxDouble \in Nat /\ Epsilon \in Int /\ 1 <= Epsilon /\ Epsilon <= MaxDouble
      /\ -(MaxDouble + 1) <= a /\ a <= MaxDouble + 2 /\ -(MaxDouble + 1) <= b /\ b <= MaxDouble + 2
  BY DoubleAssumption DEF Doubles, Inf, NaN
<1> DEFINE D == Magnitude(FSub(a, b))
           lost == ~Ordered(a, b) \/ (a = b /\ Magnitude(a) = Inf)
           near == Magnitude(a) # Inf /\ Magnitude(b) # Inf /\ Magnitude(a - b) < Epsilon
<1>3. lost => D = NaN
  <2>1. Magnitude(NaN) = NaN
    BY <1>2 DEF Magnitude, NaN
  <2>2. ~Ordered(a, b) => FSub(a, b) = NaN
    BY DEF FSub, Ordered
  <2>3. ASSUME a = b, Magnitude(a) = Inf PROVE FSub(a, b) = NaN
    BY <2>3 DEF FSub
  <2> QED BY <2>1, <2>2, <2>3
<1>4. ~lost => D # NaN /\ D \in Int /\ (D < Epsilon <=> near)
  BY <1>2 DEF FSub, Magnitude, Ordered, Inf, NaN
<1>5. ~lost => (a = b => near) /\ Ordered(a, b)
  BY <1>2 DEF Magnitude
<1>6. Blurred(p, a, b) <=>
        (Ordered(a, b) /\ a # b /\ near) \/ (a = b /\ Magnitude(a) = Inf /\ p \in {"oeq", "une"})
  BY DEF Blurred
<1>7. Epsilon # NaN /\ (Magnitude(a) = Inf => a # NaN)
  BY <1>2 DEF NaN, Inf, Magnitude
<1> HIDE DEF D, near
<1>8. CASE lost
  <2>1. FCmp(CmpPred(p), D, Epsilon) <=> p \in {"ueq", "une"}
    BY <1>3, <1>8 DEF FCmp, CmpPred, Ordered
  <2>2. FCmp(p, a, b) <=> IF Ordered(a, b) THEN p \in {"oeq", "ueq"} ELSE p \in {"ueq", "une"}
    BY <1>8 DEF FCmp
  <2>3. FCmp(CmpPred(p), D, Epsilon) \in BOOLEAN /\ FCmp(p, a, b) \in BOOLEAN
    BY DEF FCmp, CmpPred
  <2>4. ~Ordered(a, b) => (a = b => Magnitude(a) # Inf)
    BY <1>7 DEF Ordered
  <2> QED BY <2>1, <2>2, <2>3, <2>4, <1>1, <1>6, <1>8 DEF D
<1>9. CASE ~lost
  <2>1. FCmp(CmpPred(p), D, Epsilon) <=> IF p \in {"oeq", "ueq"} THEN near ELSE ~near
    <3>1. Ordered(D, Epsilon) /\ (D < Epsilon <=> near) /\ (D >= Epsilon <=> ~near)
      BY <1>4, <1>7, <1>9, <1>2 DEF Ordered
    <3>2. FCmp(CmpPred(p), D, Epsilon) <=> IF p \in {"oeq", "ueq"} THEN D < Epsilon ELSE D >= Epsilon
      BY <3>1 DEF FCmp, CmpPred
    <3> QED BY <3>1, <3>2
  <2>2. FCmp(p, a, b) <=> IF p \in {"oeq", "ueq"} THEN a = b ELSE a # b
    BY <1>5, <1>9 DEF FCmp
  <2>3. FCmp(CmpPred(p), D, Epsilon) \in BOOLEAN /\ FCmp(p, a, b) \in BOOLEAN
    BY DEF FCmp, CmpPred
  <2> QED BY <2>1, <2>2, <2>3, <1>1, <1>5, <1>6, <1>9 DEF D
<1> QED BY <1>8, <1>9
-----------------------------------------------------------------------------
(* Counters.                                                                 *)

Alone(b, f) == \E t \in Threads : b[f] \subseteq {t}

\* The counters when the program starts.
Zero(ph, c, r, d) ==
  ph = "compile" => /\ \A f \in DOMAIN c : c[f] = 0
                    /\ r = [t \in Threads |-> None] /\ DOMAIN d = {}

Shape(ph, c, r, d, b) ==
  /\ c = [f \in DOMAIN c |-> c[f]] /\ d = [f \in DOMAIN d |-> d[f]]
  /\ r = [t \in Threads |-> r[t]] /\ b = [f \in DOMAIN d |-> b[f]]
  /\ ph # "compile" => DOMAIN c = DOMAIN d

\* A counter, given how often it was incremented and by whom.
Holds(c, d, b, f) ==
  /\ c[f] \in Nat /\ d[f] \in Nat /\ c[f] <= d[f]
  /\ Alone(b, f) => c[f] = d[f] % Modulus

\* What a thread has loaded: it can be smaller than the counter, but not if
\* the thread is the only one that ever increments it.
Loaded(c, r, d, b, t) ==
  r[t] # None /\ r[t].fn \in DOMAIN d =>
    LET f == r[t].fn
    IN  /\ r[t].val \in Nat /\ r[t].val <= d[f] /\ t \in b[f]
        /\ Alone(b, f) => r[t].val = c[f]

Inv ==
  /\ Zero(phase, cell, reg, done) /\ Shape(phase, cell, reg, done, by)
  /\ \A f \in DOMAIN done : Holds(cell, done, by, f)
  /\ \A t \in Threads : Loaded(cell, reg, done, by, t)

\* Adding in a width is adding and then cutting to the width.
LEMMA IncrementModulo ==
  ASSUME NEW d \in Nat, NEW m \in Nat \ {0}
  PROVE  ((d % m) + 1) % m = (d + 1) % m /\ (d + 1) % m \in Nat
<1>1. (d + 1) % m \in Nat
  OBVIOUS
<1> QED BY <1>1, d \in Int, 1 \in Int, AddModulo

\* An incremented counter is no larger than what was loaded and one.
LEMMA ModuloBounded ==
  ASSUME NEW v \in Nat, NEW m \in Nat \ {0}
  PROVE  (v + 1) % m \in Nat /\ (v + 1) % m <= v + 1
OBVIOUS

LEMMA InitInv == Init => Inv
BY DEF Init, Inv, Zero, Shape, Loaded

\* Before the program runs no counter has a value, and nothing is loaded.
LEMMA CompileInv ==
  ASSUME Inv, RunPass \/ Execute
  PROVE  Inv'
<1> USE DEF Inv, Zero, Shape
<1>1. CASE RunPass
  <2>1. phase' = phase /\ reg' = reg /\ done' = done /\ by' = by /\ phase = "compile"
    BY <1>1 DEF RunPass
  <2>2. cell' = cell \/ cell' = [f \in Defined |-> 0]
    BY <1>1 DEF RunPass, StaticCallCounterPrinter, countStaticCalls, InjectFuncCall,
                DynamicCallCounter, CreateGlobalCounter
  <2> QED BY <2>1, <2>2 DEF Loaded
<1>2. CASE Execute
  <2>1. /\ phase = "compile" /\ phase' = "run" /\ cell' = cell /\ reg' = reg
        /\ done' = [f \in DOMAIN cell |-> 0] /\ by' = [f \in DOMAIN cell |-> {}]
    BY <1>2 DEF Execute
  <2>2. 0 % Modulus = 0
    BY WidthAssumption
  <2>3. Zero(phase, cell, reg, done)' /\ Shape(phase, cell, reg, done, by)'
    BY <2>1
  <2>4. \A f \in DOMAIN done' : Holds(cell, done, by, f)'
    BY <2>1, <2>2 DEF Holds
  <2>5. \A t \in Threads : Loaded(cell, reg, done, by, t)'
    BY <2>1 DEF Loaded
  <2> QED BY <2>3, <2>4, <2>5
<1> QED BY <1>1, <1>2

\* A load gives the thread the counter's value and makes it one of those that
\* increment it.
LEMMA LoadInv ==
  ASSUME Inv, NEW t \in Threads, Load(t)
  PROVE  Inv'
<1> DEFINE g == Operand(t)
<1>1. /\ phase = "run" /\ phase' = phase /\ cell' = cell /\ done' = done
      /\ reg' = [reg EXCEPT ![t] = [fn |-> g, val |-> cell[g]]]
      /\ by' = [by EXCEPT ![g] = @ \cup {t}]
  BY DEF Load, At
<1> HIDE DEF g
<1>2. Zero(phase, cell, reg, done)' /\ Shape(phase, cell, reg, done, by)'
  BY <1>1 DEF Inv, Zero, Shape
<1>3. \A f \in DOMAIN done : by[f] \subseteq by'[f] /\ (f = g => by'[f] = by[f] \cup {t})
  BY <1>1 DEF Inv, Shape
<1>4. \A f \in DOMAIN done : Alone(by', f) => Alone(by, f)
  BY <1>3 DEF Alone
<1>5. \A f \in DOMAIN done' : Holds(cell, done, by, f)'
  BY <1>1, <1>4 DEF Inv, Holds, Alone
<1>6. ASSUME NEW u \in Threads PROVE Loaded(cell, reg, done, by, u)'
  <2>1. CASE u = t
    <3>1. reg'[u] = [fn |-> g, val |-> cell[g]]
      BY <1>1, <2>1 DEF Inv, Shape
    <3>2. g \in DOMAIN done => Holds(cell, done, by, g) /\ t \in by'[g]
      BY <1>3 DEF Inv
    <3> QED BY <3>1, <3>2, <1>1, <2>1 DEF Loaded, Holds
  <2>2. CASE u # t
    <3>1. reg'[u] = reg[u]
      BY <1>1, <2>2 DEF Inv, Shape
    <3>2. Loaded(cell, reg, done, by, u)
      BY DEF Inv
    <3> QED BY <3>1, <3>2, <1>1, <1>3, <1>4 DEF Loaded, Alone
  <2> QED BY <2>1, <2>2
<1> QED BY <1>2, <1>5, <1>6 DEF Inv

\* A store of what was loaded may undo others' increments, never add one; and
\* a thread that is alone has loaded what the counter still is.
LEMMA StoreInv ==
  ASSUME Inv, NEW t \in Threads, Store(t)
  PROVE  Inv'
<1> DEFINE g == reg[t].fn
<1>1. /\ phase = "run" /\ phase' = phase /\ by' = by /\ reg[t] # None
      /\ cell' = [cell EXCEPT ![g] = (reg[t].val + 1) % Modulus]
      /\ done' = [done EXCEPT ![g] = @ + 1]
      /\ reg' = [reg EXCEPT ![t] = None]
  BY DEF Store, At, Increment
<1>2. Zero(phase, cell, reg, done)' /\ Shape(phase, cell, reg, done, by)'
  BY <1>1 DEF Inv, Zero, Shape
<1>3. DOMAIN done' = DOMAIN done /\ DOMAIN cell = DOMAIN done
  BY <1>1 DEF Inv, Shape
<1>4. \A f \in DOMAIN done : f # g => cell'[f] = cell[f] /\ done'[f] = done[f]
  BY <1>1, <1>3 DEF Inv, Shape
<1>5. g \in DOMAIN done => cell'[g] = (reg[t].val + 1) % Modulus /\ done'[g] = done[g] + 1
  BY <1>1, <1>3 DEF Inv, Shape
<1>6. g \in DOMAIN done =>
        /\ reg[t].val \in Nat /\ reg[t].val <= done[g] /\ t \in by[g]
        /\ Alone(by, g) => reg[t].val = cell[g]
  BY <1>1 DEF Inv, Loaded
<1>7. \A f \in DOMAIN done : Holds(cell, done, by, f)
  BY DEF Inv
<1> HIDE DEF g
<1>8. ASSUME NEW f \in DOMAIN done PROVE Holds(cell', done', by, f)
  <2>1. CASE f # g
    BY <2>1, <1>4, <1>7 DEF Holds
  <2>2. CASE f = g
    <3>1. Modulus \in Nat \ {0} /\ done[g] \in Nat /\ (Alone(by, g) => cell[g] = done[g] % Modulus)
      BY <1>7, <2>2, WidthAssumption DEF Holds
    <3>2. (reg[t].val + 1) % Modulus \in Nat /\ (reg[t].val + 1) % Modulus <= reg[t].val + 1
      BY <3>1, <1>6, <2>2, ModuloBounded
    <3>3. Alone(by, g) => (reg[t].val + 1) % Modulus = (done[g] + 1) % Modulus
      BY <3>1, <1>6, <2>2, IncrementModulo
    <3> QED BY <3>1, <3>2, <3>3, <1>5, <1>6, <2>2 DEF Holds
  <2> QED BY <2>1, <2>2
<1>9. ASSUME NEW u \in Threads PROVE Loaded(cell', reg', done', by, u)
  <2>1. CASE u = t
    BY <1>1, <2>1 DEF Inv, Shape, Loaded
  <2>2. CASE u # t
    <3>1. reg'[u] = reg[u] /\ Loaded(cell, reg, done, by, u)
      BY <1>1, <2>2 DEF Inv, Shape
    <3>2. CASE reg[u] # None /\ reg[u].fn = g /\ g \in DOMAIN done
      <4>1. ~Alone(by, g)
        BY <3>1, <3>2, <1>6, <2>2 DEF Loaded, Alone
      <4>2. done[g] \in Nat
        BY <1>7, <3>2 DEF Holds
      <4> QED BY <3>1, <3>2, <4>1, <4>2, <1>5 DEF Loaded
    <3>3. CASE ~(reg[u] # None /\ reg[u].fn = g /\ g \in DOMAIN done)
      BY <3>1, <3>3, <1>3, <1>4 DEF Loaded
    <3> QED BY <3>2, <3>3
  <2> QED BY <2>1, <2>2
<1> QED BY <1>1, <1>2, <1>3, <1>8, <1>9 DEF Inv

\* No other step touches a counter.
LEMMA OtherInv ==
  ASSUME Inv, UNCHANGED <<cell, reg, done, by>>, phase' = phase \/ (phase = "run" /\ phase' = "over")
  PROVE  Inv'
BY DEF Inv, Zero, Shape, Holds, Loaded, Alone

LEMMA NextInv == Inv /\ [Next]_vars => Inv'
<1> SUFFICES ASSUME Inv, [Next]_vars PROVE Inv'
  OBVIOUS
<1>1. CASE RunPass \/ Execute
  BY <1>1, CompileInv
<1>2. CASE Exit
  <2>1. phase = "run" /\ UNCHANGED <<cell, reg, done, by>> /\ (phase' = "over" \/ phase' = phase)
    BY <1>2 DEF Exit, counts
  <2> QED BY <2>1, OtherInv
<1>3. ASSUME NEW t \in Workers, StartThread(t) PROVE Inv'
  BY <1>3, OtherInv DEF StartThread, counts
<1>4. ASSUME NEW t \in Threads, Step(t) PROVE Inv'
  <2>1. CASE Load(t)
    BY <2>1, LoadInv
  <2>2. CASE Store(t)
    BY <2>2, StoreInv
  <2>3. CASE Call(t)
    BY <2>3, OtherInv DEF Call, counts
  <2>4. CASE Write(t)
    BY <2>4, OtherInv DEF Write, counts
  <2>5. CASE Return(t)
    BY <2>5, OtherInv DEF Return, counts
  <2> QED BY <1>4, <2>1, <2>2, <2>3, <2>4, <2>5 DEF Step
<1>5. CASE UNCHANGED vars
  BY <1>5, OtherInv DEF vars, counts
<1> QED BY <1>1, <1>2, <1>3, <1>4, <1>5 DEF Next

\* Whatever passes were run, in whatever order and number, and however many
\* threads the program starts: a counter never exceeds the increments that
\* were executed, and is exactly that, in its width, if one thread did them.
THEOREM CountsBounded == Spec => []NeverOver
<1>1. Inv => NeverOver
  BY DEF Inv, NeverOver, Holds, Alone
<1> QED BY <1>1, InitInv, NextInv, PTL DEF Spec

-----------------------------------------------------------------------------
(* The reports of static-cc.                                                 *)

\* A set of positions has a last one.
LEMMA LastPosition ==
  ASSUME NEW m \in Nat, NEW t \in SUBSET (1..m), t # {}
  PROVE  Max(t) \in t /\ \A y \in t : y <= Max(t)
<1> DEFINE N == {n \in Nat : \A s \in SUBSET (1..n) : s # {} => \E x \in s : \A y \in s : x >= y}
<1>1. 0 \in N
  <2>1. 1..0 = {}
    OBVIOUS
  <2> QED BY <2>1
<1>2. ASSUME NEW n \in Nat, n \in N PROVE n + 1 \in N
  <2> SUFFICES ASSUME NEW s \in SUBSET (1..(n + 1)), s # {} PROVE \E x \in s : \A y \in s : x >= y
    OBVIOUS
  <2>1. CASE n + 1 \in s
    BY <2>1
  <2>2. CASE n + 1 \notin s
    <3>1. s \in SUBSET (1..n)
      BY <2>2
    <3> QED BY <3>1, <1>2
  <2> QED BY <2>1, <2>2
<1>3. m \in N
  <2> HIDE DEF N
  <2> QED BY <1>1, <1>2, NatInd
<1>4. \E x \in t : \A y \in t : x >= y
  BY <1>3
<1> QED BY <1>4 DEF Max

\* Counting is done for one instruction after another.
LEMMA CountFolds ==
  ASSUME NEW X, NEW s \in Seq(X)
  PROVE  \E e : /\ e[0] = <<>>
                /\ \A k \in 1..Len(s) : e[k] = Count(e[k - 1], s[k])
                /\ FoldLeft(Count, <<>>, s) = e[Len(s)]
<1> DEFINE n == Len(s)
           Iter(h, m) == h = [t \in SUBSET (1..m) |-> IF t = {} THEN <<>>
                                                     ELSE Count(h[t \ {Max(t)}], s[Max(t)])]
           N == {m \in Nat : \E h : Iter(h, m)}
<1>1. n \in Nat /\ DOMAIN s = 1..n
  OBVIOUS
<1> HIDE DEF n
<1>2. 0 \in N
  <2>1. Iter([t \in SUBSET (1..0) |-> <<>>], 0)
    OBVIOUS
  <2> QED BY <2>1
<1>3. ASSUME NEW m \in Nat, m \in N PROVE m + 1 \in N
  <2>1. PICK h : Iter(h, m)
    BY <1>3
  <2> DEFINE g == [t \in SUBSET (1..(m + 1)) |->
                     IF m + 1 \in t THEN Count(h[t \ {m + 1}], s[m + 1]) ELSE h[t]]
  <2>2. ASSUME NEW t \in SUBSET (1..(m + 1)), m + 1 \notin t
        PROVE  t \in SUBSET (1..m) /\ g[t] = h[t]
    BY <2>2
  <2>3. ASSUME NEW t \in SUBSET (1..(m + 1))
        PROVE  g[t] = IF t = {} THEN <<>> ELSE Count(g[t \ {Max(t)}], s[Max(t)])
    <3>1. CASE m + 1 \in t
      <4>1. Max(t) = m + 1
        <5>1. Max(t) \in t /\ m + 1 <= Max(t)
          BY <3>1, m + 1 \in Nat, LastPosition
        <5>2. Max(t) \in 1..(m + 1)
          BY <5>1
        <5> QED BY <5>1, <5>2
      <4>2. t \ {m + 1} \in SUBSET (1..(m + 1)) /\ m + 1 \notin t \ {m + 1}
        OBVIOUS
      <4>3. g[t \ {m + 1}] = h[t \ {m + 1}]
        BY <4>2, <2>2
      <4> QED BY <3>1, <4>1, <4>3
    <3>2. CASE m + 1 \notin t
      <4>1. t \in SUBSET (1..m) /\ g[t] = h[t]
        BY <3>2, <2>2
      <4>2. h[t] = IF t = {} THEN <<>> ELSE Count(h[t \ {Max(t)}], s[Max(t)])
        BY <4>1, <2>1
      <4>3. t \ {Max(t)} \in SUBSET (1..(m + 1)) /\ m + 1 \notin t \ {Max(t)}
        BY <3>2
      <4>4. g[t \ {Max(t)}] = h[t \ {Max(t)}]
        BY <4>3, <2>2
      <4> QED BY <4>1, <4>2, <4>4
    <3> QED BY <3>1, <3>2
  <2>4. Iter(g, m + 1)
    <3>1. g = [t \in SUBSET (1..(m + 1)) |-> g[t]]
      OBVIOUS
    <3> HIDE DEF g
    <3> QED BY <3>1, <2>3
  <2> HIDE DEF Iter, g
  <2> QED BY <2>4
<1>4. n \in N
  <2> HIDE DEF N
  <2> QED BY <1>1, <1>2, <1>3, NatInd
<1> DEFINE iter == CHOOSE h : Iter(h, n)
<1>5. Iter(iter, n)
  <2> HIDE DEF Iter
  <2> QED BY <1>4
<1>6. FoldLeft(Count, <<>>, s) = iter[1..n]
  BY <1>1 DEF FoldLeft, MapThenFoldSet
<1> HIDE DEF iter
<1> DEFINE e == [k \in 0..n |-> iter[1..k]]
<1>7. e[0] = <<>>
  BY <1>1, <1>5, 1..0 = {}
<1>8. ASSUME NEW k \in 1..n PROVE e[k] = Count(e[k - 1], s[k])
  <2>1. /\ 1..k \in SUBSET (1..n) /\ 1..k # {} /\ k - 1 \in 0..n /\ k \in 0..n /\ k \in Nat
        /\ k \in 1..k
    BY <1>1
  <2>2. Max(1..k) = k
    <3>1. Max(1..k) \in 1..k /\ k <= Max(1..k)
      BY <2>1, LastPosition
    <3> QED BY <2>1, <3>1
  <2>3. (1..k) \ {k} = 1..(k - 1)
    BY <2>1
  <2>4. iter[1..k] = Count(iter[(1..k) \ {Max(1..k)}], s[Max(1..k)])
    BY <1>5, <2>1
  <2> QED BY <2>1, <2>2, <2>3, <2>4
<1>9. e[n] = iter[1..n]
  BY <1>1
<1> HIDE DEF e
<1> QED BY <1>6, <1>7, <1>8, <1>9 DEF n


\* What a report says of a function.
Held(res, f) == IF f \in DOMAIN res THEN res[f] ELSE 0

\* What is counted for f is how many of the instructions call it directly.
LEMMA CountIs ==
  ASSUME NEW X, NEW s \in Seq(X), NEW f
  PROVE  Held(FoldLeft(Count, <<>>, s), f) = Cardinality({i \in 1..Len(s) : f \in CalledFunction(s[i])})
<1>1. PICK e : /\ e[0] = <<>>
               /\ \A k \in 1..Len(s) : e[k] = Count(e[k - 1], s[k])
               /\ FoldLeft(Count, <<>>, s) = e[Len(s)]
  BY CountFolds
<1> DEFINE C(k) == {i \in 1..k : f \in CalledFunction(s[i])}
           N == {k \in Nat : k <= Len(s) => /\ IsFiniteSet(C(k)) /\ Cardinality(C(k)) \in Nat
                                            /\ Held(e[k], f) = Cardinality(C(k))}
<1>2. Len(s) \in Nat
  OBVIOUS
<1>3. 0 \in N
  <2>1. C(0) = {} /\ IsFiniteSet({}) /\ Cardinality({}) = 0
    BY FS_EmptySet
  <2>2. Held(<<>>, f) = 0
    BY DEF Held
  <2> QED BY <1>1, <2>1, <2>2
<1>4. ASSUME NEW k \in Nat, k \in N PROVE k + 1 \in N
  <2> SUFFICES ASSUME k + 1 <= Len(s)
               PROVE  /\ IsFiniteSet(C(k + 1)) /\ Cardinality(C(k + 1)) \in Nat
                      /\ Held(e[k + 1], f) = Cardinality(C(k + 1))
    OBVIOUS
  <2> DEFINE here == {f} \cap CalledFunction(s[k + 1])
  <2>1. IsFiniteSet(C(k)) /\ Cardinality(C(k)) \in Nat /\ Held(e[k], f) = Cardinality(C(k))
    BY <1>2, <1>4
  <2>2. e[k + 1] = Count(e[k], s[k + 1])
    BY <1>1, <1>2
  <2>3. Held(e[k + 1], f) = IF f \in DOMAIN e[k] \/ f \in CalledFunction(s[k + 1])
                            THEN Held(e[k], f) + Cardinality(here) ELSE 0
    BY <2>2 DEF Held, Count
  <2>4. CASE f \in CalledFunction(s[k + 1])
    <3>1. C(k + 1) = C(k) \cup {k + 1} /\ k + 1 \notin C(k) /\ here = {f}
      BY <2>4
    <3>2. Cardinality(here) = 1
      BY <3>1, FS_Singleton
    <3> HIDE DEF C, here
    <3> QED BY <2>1, <2>3, <2>4, <3>1, <3>2, FS_AddElement
  <2>5. CASE f \notin CalledFunction(s[k + 1])
    <3>1. C(k + 1) = C(k) /\ here = {}
      BY <2>5
    <3>2. Cardinality(here) = 0
      BY <3>1, FS_EmptySet
    <3>3. f \notin DOMAIN e[k] => Held(e[k], f) = 0
      BY DEF Held
    <3> HIDE DEF C, here
    <3> QED BY <2>1, <2>3, <2>5, <3>1, <3>2, <3>3
  <2> QED BY <2>4, <2>5
<1>5. Len(s) \in N
  <2> HIDE DEF N
  <2> QED BY <1>2, <1>3, <1>4, NatInd
<1> QED BY <1>1, <1>2, <1>5

\* What is where in two sequences one after the other.
LEMMA ConcatIs ==
  ASSUME NEW X, NEW a \in Seq(X), NEW b \in Seq(X)
  PROVE  /\ a \o b \in Seq(X) /\ Len(a) \in Nat /\ Len(b) \in Nat
         /\ Len(a \o b) = Len(a) + Len(b)
         /\ DOMAIN a = 1..Len(a) /\ DOMAIN b = 1..Len(b)
         /\ \A x \in 1..Len(a) : (a \o b)[x] = a[x]
         /\ \A j \in 1..Len(b) : (a \o b)[Len(a) + j] = b[j]
<1>1. /\ a \o b \in Seq(X) /\ Len(a) \in Nat /\ Len(b) \in Nat
      /\ Len(a \o b) = Len(a) + Len(b) /\ DOMAIN a = 1..Len(a) /\ DOMAIN b = 1..Len(b)
  OBVIOUS
<1>2. ASSUME NEW x \in 1..Len(a) PROVE (a \o b)[x] = a[x]
  BY <1>1
<1>3. ASSUME NEW j \in 1..Len(b) PROVE (a \o b)[Len(a) + j] = b[j]
  <2>1. Len(a) + j \in 1..(Len(a) + Len(b)) /\ ~(Len(a) + j <= Len(a)) /\ (Len(a) + j) - Len(a) = j
    BY <1>1
  <2> QED BY <1>1, <2>1
<1> QED BY <1>1, <1>2, <1>3

\* FlattenSeq appends one sequence after another.
LEMMA FlattenFolds ==
  ASSUME NEW X, NEW ss \in Seq(Seq(X))
  PROVE  \E e : /\ e \in [0..Len(ss) -> Seq(X)] /\ e[0] = <<>>
                /\ \A i \in 1..Len(ss) : e[i] = e[i - 1] \o ss[i]
                /\ FlattenSeq(ss) = e[Len(ss)]
<1> DEFINE n == Len(ss)
           G == [q \in Nat \X Seq(X) |-> IF q[1] \in 1..n THEN q[2] \o ss[q[1]] ELSE q[2]]
<1>1. n \in Nat /\ \A i \in 1..n : ss[i] \in Seq(X)
  OBVIOUS
<1> HIDE DEF n
<1>2. G \in [Nat \X Seq(X) -> Seq(X)]
  <2>1. ASSUME NEW q \in Nat \X Seq(X) PROVE (IF q[1] \in 1..n THEN q[2] \o ss[q[1]] ELSE q[2]) \in Seq(X)
    <3>1. q[2] \in Seq(X) /\ (q[1] \in 1..n => ss[q[1]] \in Seq(X))
      BY <1>1
    <3> QED BY <3>1
  <2> QED BY <2>1
<1> HIDE DEF G
<1>3. <<>> \in Seq(X)
  OBVIOUS
<1>4. PICK f : Recursion(f, Seq(X), <<>>, G)
  BY <1>2, <1>3, RecursiveFunction
<1>5. f \in [Nat -> Seq(X)] /\ f[0] = <<>>
  BY <1>4 DEF Recursion
<1>6. ASSUME NEW i \in 1..n PROVE f[i] = f[i - 1] \o ss[i]
  <2>1. i \in Nat \ {0} /\ i - 1 \in Nat
    BY <1>1
  <2>2. f[i] = G[<<i, f[i - 1]>>] /\ f[i - 1] \in Seq(X)
    BY <1>4, <1>5, <2>1 DEF Recursion
  <2> QED BY <2>1, <2>2 DEF G
<1> DEFINE e == [i \in 0..n |-> f[i]]
<1>7. e \in [0..n -> Seq(X)] /\ e[0] = <<>> /\ \A i \in 1..n : e[i] = e[i - 1] \o ss[i]
  <2>1. \A i \in 1..n : i - 1 \in 0..n /\ i \in 0..n
    BY <1>1
  <2>2. 0 \in 0..n /\ \A i \in 0..n : i \in Nat
    BY <1>1
  <2> QED BY <1>5, <1>6, <2>1, <2>2
<1> DEFINE Is(h) == h = [i \in 1..n |-> IF i = 1 THEN ss[i] ELSE h[i - 1] \o ss[i]]
           flatten == CHOOSE h : Is(h)
<1>8. FlattenSeq(ss) = e[n]
  <2>1. CASE n = 0
    <3>1. ss = <<>> /\ FlattenSeq(ss) = ss
      BY <2>1 DEF FlattenSeq, n
    <3> HIDE DEF e
    <3> QED BY <3>1, <2>1, <1>7
  <2>2. CASE n # 0
    <3>1. FlattenSeq(ss) = flatten[n]
      BY <2>2 DEF FlattenSeq, n
    <3>2. ASSUME NEW i \in 1..n, i = 1 PROVE f[i] = ss[i]
      <4>1. f[i] = f[i - 1] \o ss[i] /\ ss[i] \in Seq(X)
        BY <1>1, <1>6
      <4>2. i - 1 = 0
        BY <3>2
      <4>3. f[i - 1] = <<>>
        BY <1>5, <4>2
      <4> QED BY <4>1, <4>3
    <3>3. Is([i \in 1..n |-> f[i]])
      <4>1. ASSUME NEW i \in 1..n, i # 1 PROVE i - 1 \in 1..n
        BY <1>1, <4>1
      <4> QED BY <1>6, <3>2, <4>1
    <3>4. Is(flatten)
      <4> HIDE DEF Is
      <4> QED BY <3>3
    <3> HIDE DEF flatten
    <3> DEFINE N == {i \in Nat : i + 1 \in 1..n => flatten[i + 1] = f[i + 1]}
    <3>5. 0 \in N
      BY <1>1, <2>2, <3>2, <3>4
    <3>6. ASSUME NEW i \in Nat, i \in N PROVE i + 1 \in N
      <4> SUFFICES ASSUME (i + 1) + 1 \in 1..n PROVE flatten[(i + 1) + 1] = f[(i + 1) + 1]
        OBVIOUS
      <4>1. i + 1 \in 1..n /\ ((i + 1) + 1) - 1 = i + 1 /\ (i + 1) + 1 # 1
        BY <1>1
      <4>2. flatten[i + 1] = f[i + 1]
        BY <3>6, <4>1
      <4>3. flatten[(i + 1) + 1] = flatten[i + 1] \o ss[(i + 1) + 1]
        BY <3>4, <4>1
      <4> QED BY <1>6, <4>1, <4>2, <4>3
    <3>7. n - 1 \in N
      <4> HIDE DEF N
      <4>1. n - 1 \in Nat
        BY <1>1, <2>2
      <4> QED BY <3>5, <3>6, <4>1, NatInd
    <3>8. (n - 1) + 1 = n /\ n \in 1..n
      BY <1>1, <2>2
    <3> QED BY <1>1, <3>1, <3>7, <3>8
  <2> QED BY <2>1, <2>2
<1> HIDE DEF e
<1> QED BY <1>7, <1>8 DEF n


Places(ss) == UNION {{<<i, j>> : j \in DOMAIN ss[i]} : i \in DOMAIN ss}

\* The elements of the sequences, each in its own place, are the elements of
\* what FlattenSeq makes of them.
LEMMA FlattenPlaces ==
  ASSUME NEW X, NEW ss \in Seq(Seq(X))
  PROVE  /\ FlattenSeq(ss) \in Seq(X)
         /\ \E p \in Bijection(Places(ss), 1..Len(FlattenSeq(ss))) :
              \A q \in Places(ss) : FlattenSeq(ss)[p[q]] = ss[q[1]][q[2]]
<1>1. PICK e : /\ e \in [0..Len(ss) -> Seq(X)] /\ e[0] = <<>>
               /\ \A i \in 1..Len(ss) : e[i] = e[i - 1] \o ss[i]
               /\ FlattenSeq(ss) = e[Len(ss)]
  BY FlattenFolds
<1> DEFINE n == Len(ss)
           At_(i, j) == Len(e[i - 1]) + j
           In(m) == \A i \in 1..m : \A j \in DOMAIN ss[i] :
                      At_(i, j) \in 1..Len(e[m]) /\ e[m][At_(i, j)] = ss[i][j]
           All(m) == \A x \in 1..Len(e[m]) : \E i \in 1..m : \E j \in DOMAIN ss[i] : x = At_(i, j)
           N == {m \in Nat : m <= n => In(m) /\ All(m)}
<1>2. n \in Nat /\ DOMAIN ss = 1..n /\ \A i \in 1..n : ss[i] \in Seq(X)
  OBVIOUS
<1>3. \A i \in 0..n : e[i] \in Seq(X) /\ Len(e[i]) \in Nat
  BY <1>1, <1>2
<1>4. \A i \in 1..n : i \in 0..n /\ i - 1 \in 0..n
  BY <1>2
<1> HIDE DEF n
<1>5. 0 \in N
  BY <1>1
<1>6. ASSUME NEW m \in Nat, m \in N PROVE m + 1 \in N
  <2> SUFFICES ASSUME m + 1 <= n PROVE In(m + 1) /\ All(m + 1)
    OBVIOUS
  <2>1. In(m) /\ All(m) /\ m + 1 \in 1..n /\ m \in 0..n /\ (m + 1) - 1 = m
    BY <1>2, <1>6
  <2>2. e[m + 1] = e[m] \o ss[m + 1] /\ e[m] \in Seq(X) /\ ss[m + 1] \in Seq(X)
    BY <1>1, <1>2, <1>3, <2>1 DEF n
  <2>3. /\ Len(e[m + 1]) = Len(e[m]) + Len(ss[m + 1])
        /\ \A x \in 1..Len(e[m]) : e[m + 1][x] = e[m][x]
        /\ \A j \in 1..Len(ss[m + 1]) : e[m + 1][Len(e[m]) + j] = ss[m + 1][j]
        /\ DOMAIN ss[m + 1] = 1..Len(ss[m + 1]) /\ Len(e[m]) \in Nat /\ Len(ss[m + 1]) \in Nat
    <3> HIDE DEF In, All
    <3> DEFINE a == e[m]
               b == ss[m + 1]
    <3>1. a \in Seq(X) /\ b \in Seq(X) /\ e[m + 1] = a \o b
      BY <2>2
    <3> HIDE DEF a, b
    <3>2. /\ Len(a \o b) = Len(a) + Len(b) /\ Len(a) \in Nat /\ Len(b) \in Nat
          /\ DOMAIN b = 1..Len(b)
          /\ \A x \in 1..Len(a) : (a \o b)[x] = a[x]
          /\ \A j \in 1..Len(b) : (a \o b)[Len(a) + j] = b[j]
      BY <3>1, ConcatIs
    <3> QED BY <3>1, <3>2 DEF a, b
  <2>4. In(m + 1)
    <3> SUFFICES ASSUME NEW i \in 1..(m + 1), NEW j \in DOMAIN ss[i]
                 PROVE  At_(i, j) \in 1..Len(e[m + 1]) /\ e[m + 1][At_(i, j)] = ss[i][j]
      OBVIOUS
    <3>1. CASE i = m + 1
      <4>1. j \in 1..Len(ss[m + 1]) /\ At_(i, j) = Len(e[m]) + j
        BY <2>1, <2>3, <3>1
      <4>2. Len(e[m]) + j \in 1..Len(e[m + 1])
        <5> HIDE DEF At_, In, All
        <5>1. PICK u \in Nat, v \in Nat : u = Len(e[m]) /\ v = Len(ss[m + 1])
          BY <2>3
        <5>2. Len(e[m + 1]) = u + v /\ j \in 1..v
          BY <2>3, <4>1, <5>1
        <5>3. u + j \in 1..(u + v)
          BY <5>2
        <5> QED BY <5>1, <5>2, <5>3
      <4> HIDE DEF At_
      <4> QED BY <2>3, <3>1, <4>1, <4>2
    <3>2. CASE i # m + 1
      <4>1. i \in 1..m
        BY <3>2
      <4>2. At_(i, j) \in 1..Len(e[m]) /\ e[m][At_(i, j)] = ss[i][j]
        BY <2>1, <4>1
      <4> HIDE DEF At_
      <4>3. At_(i, j) \in 1..Len(e[m + 1])
        <5> HIDE DEF All, In
        <5> DEFINE y == At_(i, j)
        <5>1. y \in 1..Len(e[m])
          BY <4>2
        <5> HIDE DEF y
        <5>2. PICK u \in Nat, v \in Nat : u = Len(e[m]) /\ v = Len(ss[m + 1])
          BY <2>3
        <5>3. y \in 1..u /\ Len(e[m + 1]) = u + v
          BY <2>3, <5>1, <5>2
        <5>4. y \in 1..(u + v)
          BY <5>3
        <5> QED BY <5>3, <5>4 DEF y
      <4> QED BY <2>3, <4>2, <4>3
    <3> QED BY <3>1, <3>2
  <2>5. All(m + 1)
    <3> SUFFICES ASSUME NEW x \in 1..Len(e[m + 1])
                 PROVE  \E i \in 1..(m + 1) : \E j \in DOMAIN ss[i] : x = At_(i, j)
      OBVIOUS
    <3>1. CASE x <= Len(e[m])
      <4>1. x \in 1..Len(e[m])
        BY <2>3, <3>1
      <4>2. PICK i \in 1..m : \E j \in DOMAIN ss[i] : x = At_(i, j)
        BY <2>1, <4>1
      <4>3. i \in 1..(m + 1)
        OBVIOUS
      <4> HIDE DEF At_
      <4> QED BY <4>2, <4>3
    <3>2. CASE ~(x <= Len(e[m]))
      <4> DEFINE j == x - Len(e[m])
      <4>1. j \in DOMAIN ss[m + 1] /\ x = Len(e[m]) + j
        <5>1. x \in 1..(Len(e[m]) + Len(ss[m + 1]))
          BY <2>3
        <5> HIDE DEF In, All, At_
        <5>2. PICK u \in Nat, v \in Nat : u = Len(e[m]) /\ v = Len(ss[m + 1])
          BY <2>3
        <5>3. x \in 1..(u + v) /\ ~(x <= u)
          BY <3>2, <5>1, <5>2
        <5>4. x - u \in 1..v /\ x = u + (x - u)
          BY <5>3
        <5> QED BY <2>3, <5>2, <5>4
      <4>2. x = At_(m + 1, j) /\ m + 1 \in 1..(m + 1)
        BY <2>1, <4>1
      <4> HIDE DEF j, At_
      <4> QED BY <4>1, <4>2
    <3> QED BY <3>1, <3>2
  <2> QED BY <2>4, <2>5
<1>7. \A m \in 0..n : In(m) /\ All(m)
  <2> HIDE DEF N, In, All
  <2>1. Nat \subseteq N
    BY <1>5, <1>6, NatInd
  <2>2. \A m \in 0..n : m \in Nat /\ m <= n
    BY <1>2
  <2> QED BY <2>1, <2>2 DEF N
<1>8. FlattenSeq(ss) = e[n] /\ e[n] \in Seq(X) /\ In(n) /\ All(n)
  <2> HIDE DEF In, All
  <2>1. n \in 0..n
    BY <1>2
  <2> QED BY <1>1, <1>3, <1>7, <2>1 DEF n
<1>9. ASSUME NEW i \in 1..n, NEW k \in 1..n, i < k, NEW j \in DOMAIN ss[i], NEW l \in DOMAIN ss[k]
      PROVE  At_(i, j) # At_(k, l)
  <2>1. k - 1 \in 0..n /\ i \in 1..(k - 1)
    BY <1>2, <1>9
  <2>2. In(k - 1)
    <3> HIDE DEF In
    <3> QED BY <1>7, <2>1
  <2>3. At_(i, j) \in 1..Len(e[k - 1]) /\ Len(e[k - 1]) \in Nat
    BY <1>3, <2>1, <2>2
  <2>4. l \in Nat \ {0} /\ At_(k, l) = Len(e[k - 1]) + l
    BY <1>2
  <2> HIDE DEF At_
  <2> QED BY <2>3, <2>4
<1> DEFINE P == Places(ss)
           p == [q \in P |-> At_(q[1], q[2])]
<1>10. \A q : q \in P <=> \E i \in 1..n : \E j \in DOMAIN ss[i] : q = <<i, j>>
  BY <1>2 DEF Places
<1> HIDE DEF P
<1>11. ASSUME NEW q \in P PROVE p[q] \in 1..Len(e[n]) /\ e[n][p[q]] = ss[q[1]][q[2]]
  <2>1. PICK i \in 1..n : \E j \in DOMAIN ss[i] : q = <<i, j>>
    BY <1>10
  <2>2. PICK j \in DOMAIN ss[i] : q = <<i, j>>
    BY <2>1
  <2>3. At_(i, j) \in 1..Len(e[n]) /\ e[n][At_(i, j)] = ss[i][j]
    BY <1>8
  <2>4. p[q] = At_(i, j) /\ q[1] = i /\ q[2] = j
    <3> HIDE DEF At_
    <3> QED BY <2>2
  <2> HIDE DEF At_, p
  <2> QED BY <2>3, <2>4
<1>12. ASSUME NEW q \in P, NEW r \in P, p[q] = p[r] PROVE q = r
  <2>1. PICK i \in 1..n : \E j \in DOMAIN ss[i] : q = <<i, j>>
    BY <1>10
  <2>2. PICK j \in DOMAIN ss[i] : q = <<i, j>>
    BY <2>1
  <2>3. PICK k \in 1..n : \E l \in DOMAIN ss[k] : r = <<k, l>>
    BY <1>10
  <2>4. PICK l \in DOMAIN ss[k] : r = <<k, l>>
    BY <2>3
  <2>5. At_(i, j) = At_(k, l)
    <3> HIDE DEF At_
    <3> QED BY <1>12, <2>2, <2>4
  <2>6. i = k
    <3>1. i < k \/ k < i \/ i = k
      BY <1>2
    <3> HIDE DEF At_
    <3> QED BY <1>9, <2>5, <3>1
  <2>7. j = l
    <3>1. Len(e[i - 1]) \in Nat /\ j \in Nat /\ l \in Nat
      BY <1>2, <1>3, <1>4, <2>6
    <3> QED BY <2>5, <2>6, <3>1
  <2> QED BY <2>2, <2>4, <2>6, <2>7
<1>13. ASSUME NEW x \in 1..Len(e[n]) PROVE \E q \in P : p[q] = x
  <2>1. PICK i \in 1..n : \E j \in DOMAIN ss[i] : x = At_(i, j)
    BY <1>8
  <2>2. PICK j \in DOMAIN ss[i] : x = At_(i, j)
    BY <2>1
  <2>3. <<i, j>> \in P
    BY <1>10
  <2> HIDE DEF At_
  <2> QED BY <2>2, <2>3
<1>14. p \in [P -> 1..Len(e[n])]
  <2>1. p = [q \in P |-> p[q]]
    OBVIOUS
  <2> HIDE DEF p
  <2> QED BY <1>11, <2>1
<1>15. p \in Bijection(P, 1..Len(e[n]))
  <2> HIDE DEF p
  <2> QED BY <1>12, <1>13, <1>14 DEF Bijection, Injection, Surjection, IsInjective
<1> HIDE DEF p, At_
<1> QED BY <1>8, <1>11, <1>15 DEF P


\* SetToSeq lists every element of a finite set once.
LEMMA ListIs ==
  ASSUME NEW S, IsFiniteSet(S)
  PROVE  /\ Cardinality(S) \in Nat
         /\ SetToSeq(S) \in Bijection(1..Cardinality(S), S) /\ SetToSeq(S) \in Seq(S)
<1>1. Cardinality(S) \in Nat /\ ExistsBijection(1..Cardinality(S), S)
  BY FS_CardinalityType
<1> DEFINE n == Cardinality(S)
<1>2. PICK h \in Bijection(1..n, S) : TRUE
  BY <1>1 DEF ExistsBijection
<1>3. \E f \in [1..n -> S] : IsInjective(f)
  BY <1>2 DEF Bijection, Injection
<1>4. SetToSeq(S) \in [1..n -> S] /\ IsInjective(SetToSeq(S))
  BY <1>3 DEF SetToSeq
<1>5. SetToSeq(S) \in Injection(1..n, S)
  BY <1>4 DEF Injection
<1>6. IsFiniteSet(1..n) /\ Cardinality(1..n) = n
  BY <1>1, FS_Interval
<1>7. SetToSeq(S) \in Surjection(1..n, S)
  BY <1>5, <1>6, FS_Injection
<1> QED BY <1>1, <1>4, <1>5, <1>7 DEF Bijection


Lists(B) == [k \in 1..Cardinality(DOMAIN B) |-> B[SetToSeq(DOMAIN B)[k]]]

\* A module's direct calls of f are as many as the positions of such calls in
\* the sequence of all its instructions.
LEMMA CallsAre ==
  ASSUME NEW B, WellFormedModule(B), NEW f
  PROVE  LET s == InstructionsOf(B)
         IN  /\ s \in Seq(Code)
             /\ Cardinality(DirectCalls(B, f)) = Cardinality({x \in 1..Len(s) : f \in CalledFunction(s[x])})
<1> DEFINE n == Cardinality(DOMAIN B)
           o == SetToSeq(DOMAIN B)
           L == Lists(B)
           M == FlattenSeq(L)
           s == FlattenSeq(M)
<1>1. n \in Nat /\ o \in Bijection(1..n, DOMAIN B)
  BY ListIs DEF WellFormedModule
<1>2. /\ o \in [1..n -> DOMAIN B] /\ \A x, y \in 1..n : o[x] = o[y] => x = y
      /\ \A g \in DOMAIN B : \E k \in 1..n : o[k] = g
  BY <1>1 DEF Bijection, Injection, Surjection, IsInjective
<1>3. \A g \in DOMAIN B : B[g] \in Seq(Seq(Code))
  BY DEF WellFormedModule, Code
<1>4. s = InstructionsOf(B)
  BY DEF InstructionsOf, Lists
<1>5. L = [k \in 1..n |-> B[o[k]]]
  BY DEF Lists
<1> HIDE DEF n, o, L
<1>6. L \in Seq(Seq(Seq(Code))) /\ DOMAIN L = 1..n
  BY <1>1, <1>2, <1>3, <1>5
<1>7. M \in Seq(Seq(Code))
  BY <1>6, FlattenPlaces
<1>8. PICK p \in Bijection(Places(L), 1..Len(M)) : \A q \in Places(L) : M[p[q]] = L[q[1]][q[2]]
  BY <1>6, FlattenPlaces
<1> HIDE DEF M
<1>9. s \in Seq(Code)
  BY <1>7, FlattenPlaces
<1>10. PICK r \in Bijection(Places(M), 1..Len(s)) : \A q \in Places(M) : s[r[q]] = M[q[1]][q[2]]
  BY <1>7, FlattenPlaces
<1> HIDE DEF s
<1>11. /\ \A q : q \in Places(L) <=> \E i \in 1..n : \E b \in DOMAIN B[o[i]] : q = <<i, b>>
       /\ \A q \in Places(L) : L[q[1]] = B[o[q[1]]]
  <2>1. \A i \in 1..n : L[i] = B[o[i]]
    BY <1>5
  <2>2. \A q : q \in Places(L) <=> \E i \in 1..n : \E b \in DOMAIN B[o[i]] : q = <<i, b>>
    <3>1. \A q : q \in Places(L) <=> \E i \in DOMAIN L : \E b \in DOMAIN L[i] : q = <<i, b>>
      BY DEF Places
    <3> QED BY <1>6, <2>1, <3>1
  <2>3. ASSUME NEW q \in Places(L) PROVE L[q[1]] = B[o[q[1]]]
    <3>1. PICK i \in 1..n : \E b \in DOMAIN B[o[i]] : q = <<i, b>>
      BY <2>2
    <3>2. q[1] = i
      BY <3>1
    <3> QED BY <2>1, <3>2
  <2> QED BY <2>2, <2>3
<1>12. /\ p \in [Places(L) -> 1..Len(M)] /\ \A q, u \in Places(L) : p[q] = p[u] => q = u
       /\ \A x \in 1..Len(M) : \E q \in Places(L) : p[q] = x
  BY <1>8 DEF Bijection, Injection, Surjection, IsInjective
<1>13. /\ r \in [Places(M) -> 1..Len(s)] /\ \A q, u \in Places(M) : r[q] = r[u] => q = u
       /\ \A x \in 1..Len(s) : \E q \in Places(M) : r[q] = x
  BY <1>10 DEF Bijection, Injection, Surjection, IsInjective
<1>14. \A q : q \in Places(M) <=> \E x \in 1..Len(M) : \E k \in DOMAIN M[x] : q = <<x, k>>
  <2>1. DOMAIN M = 1..Len(M)
    BY <1>7
  <2> QED BY <2>1 DEF Places
<1> DEFINE T == DirectCalls(B, f)
           X == {x \in 1..Len(s) : f \in CalledFunction(s[x])}
           at(i, b) == p[<<i, b>>]
           pos(i, b, k) == r[<<at(i, b), k>>]
<1>15. \A t : t \in T <=> \E g \in DOMAIN B : \E b \in DOMAIN B[g] : \E k \in DOMAIN B[g][b] :
                            f \in CalledFunction(B[g][b][k]) /\ t = <<g, b, k>>
  BY DEF DirectCalls
<1> HIDE DEF T
<1>16. ASSUME NEW i \in 1..n, NEW b \in DOMAIN B[o[i]]
       PROVE  <<i, b>> \in Places(L) /\ at(i, b) \in 1..Len(M) /\ M[at(i, b)] = B[o[i]][b]
  <2>1. <<i, b>> \in Places(L)
    BY <1>11
  <2>2. M[p[<<i, b>>]] = L[i][b] /\ L[i] = B[o[i]]
    BY <1>8, <1>11, <2>1
  <2> QED BY <1>12, <2>1, <2>2
<1>17. ASSUME NEW i \in 1..n, NEW b \in DOMAIN B[o[i]], NEW k \in DOMAIN B[o[i]][b]
       PROVE  /\ <<at(i, b), k>> \in Places(M) /\ pos(i, b, k) \in 1..Len(s)
              /\ s[pos(i, b, k)] = B[o[i]][b][k]
  <2>1. at(i, b) \in 1..Len(M) /\ M[at(i, b)] = B[o[i]][b]
    BY <1>16
  <2> HIDE DEF at
  <2>2. <<at(i, b), k>> \in Places(M)
    BY <1>14, <2>1
  <2>3. s[r[<<at(i, b), k>>]] = M[at(i, b)][k]
    BY <1>10, <2>2
  <2> QED BY <1>13, <2>1, <2>2, <2>3
<1>18. ASSUME NEW i \in 1..n, NEW b \in DOMAIN B[o[i]], NEW k \in DOMAIN B[o[i]][b],
              NEW j \in 1..n, NEW c \in DOMAIN B[o[j]], NEW l \in DOMAIN B[o[j]][c],
              pos(i, b, k) = pos(j, c, l)
       PROVE  i = j /\ b = c /\ k = l
  <2>1. <<at(i, b), k>> = <<at(j, c), l>>
    BY <1>13, <1>17, <1>18
  <2>2. at(i, b) = at(j, c) /\ k = l
    <3> HIDE DEF at
    <3> QED BY <2>1
  <2>3. <<i, b>> = <<j, c>>
    BY <1>12, <1>16, <2>2
  <2> QED BY <2>2, <2>3
<1>19. ASSUME NEW x \in 1..Len(s)
       PROVE  \E i \in 1..n : \E b \in DOMAIN B[o[i]] : \E k \in DOMAIN B[o[i]][b] : pos(i, b, k) = x
  <2>1. PICK q \in Places(M) : r[q] = x
    BY <1>13
  <2>2. PICK y \in 1..Len(M) : \E k \in DOMAIN M[y] : q = <<y, k>>
    BY <1>14
  <2>3. PICK k \in DOMAIN M[y] : q = <<y, k>>
    BY <2>2
  <2>4. PICK u \in Places(L) : p[u] = y
    BY <1>12
  <2>5. PICK i \in 1..n : \E b \in DOMAIN B[o[i]] : u = <<i, b>>
    BY <1>11
  <2>6. PICK b \in DOMAIN B[o[i]] : u = <<i, b>>
    BY <2>5
  <2>7. at(i, b) = y /\ M[at(i, b)] = B[o[i]][b]
    BY <1>16, <2>4, <2>6
  <2>8. k \in DOMAIN B[o[i]][b] /\ pos(i, b, k) = x
    BY <2>1, <2>3, <2>7
  <2> HIDE DEF pos
  <2> QED BY <2>8
<1> HIDE DEF at, pos
<1>20. ASSUME NEW x \in X
       PROVE  \E i \in 1..n : \E b \in DOMAIN B[o[i]] : \E k \in DOMAIN B[o[i]][b] :
                pos(i, b, k) = x /\ <<o[i], b, k>> \in T
  <2>1. PICK i \in 1..n : \E b \in DOMAIN B[o[i]] : \E k \in DOMAIN B[o[i]][b] : pos(i, b, k) = x
    BY <1>19
  <2>2. PICK b \in DOMAIN B[o[i]] : \E k \in DOMAIN B[o[i]][b] : pos(i, b, k) = x
    BY <2>1
  <2>3. PICK k \in DOMAIN B[o[i]][b] : pos(i, b, k) = x
    BY <2>2
  <2>4. s[x] = B[o[i]][b][k]
    BY <1>17, <2>3
  <2>5. o[i] \in DOMAIN B /\ f \in CalledFunction(B[o[i]][b][k])
    BY <1>2, <2>4
  <2>6. <<o[i], b, k>> \in T
    BY <1>15, <2>5
  <2> QED BY <2>3, <2>6
<1> DEFINE of(x, t) == \E i \in 1..n : \E b \in DOMAIN B[o[i]] : \E k \in DOMAIN B[o[i]][b] :
                          pos(i, b, k) = x /\ t = <<o[i], b, k>>
           d == [x \in X |-> CHOOSE t \in T : of(x, t)]
<1>21. \A x \in X : d[x] \in T /\ of(x, d[x])
  <2>1. \A x \in X : \E t \in T : of(x, t)
    BY <1>20
  <2> HIDE DEF of, X
  <2> QED BY <2>1
<1>22. \A x, y : \A t : of(x, t) /\ of(y, t) => x = y
  BY <1>2
<1>23. \A t, u : \A x : of(x, t) /\ of(x, u) => t = u
  BY <1>18
<1>24. ASSUME NEW t \in T PROVE \E x \in X : of(x, t)
  <2>1. PICK g \in DOMAIN B : \E b \in DOMAIN B[g] : \E k \in DOMAIN B[g][b] :
                            f \in CalledFunction(B[g][b][k]) /\ t = <<g, b, k>>
    BY <1>15
  <2>2. PICK i \in 1..n : o[i] = g
    BY <1>2
  <2>3. PICK b \in DOMAIN B[o[i]] : \E k \in DOMAIN B[o[i]][b] :
          f \in CalledFunction(B[o[i]][b][k]) /\ t = <<o[i], b, k>>
    BY <2>1, <2>2
  <2>4. PICK k \in DOMAIN B[o[i]][b] : f \in CalledFunction(B[o[i]][b][k]) /\ t = <<o[i], b, k>>
    BY <2>3
  <2>5. pos(i, b, k) \in X
    BY <1>17, <2>4
  <2>6. of(pos(i, b, k), t)
    BY <2>4
  <2> QED BY <2>5, <2>6
<1>25. d \in Bijection(X, T)
  <2>1. d \in [X -> T]
    <3> HIDE DEF of, X
    <3>1. d = [x \in X |-> d[x]]
      OBVIOUS
    <3> HIDE DEF d
    <3> QED BY <1>21, <3>1
  <2>2. \A x, y \in X : d[x] = d[y] => x = y
    <3> HIDE DEF d, X, of
    <3> QED BY <1>21, <1>22
  <2>3. \A t \in T : \E x \in X : d[x] = t
    <3> HIDE DEF d, X, of
    <3> QED BY <1>21, <1>23, <1>24
  <2> HIDE DEF d, X
  <2> QED BY <2>1, <2>2, <2>3 DEF Bijection, Injection, Surjection, IsInjective
<1>26. IsFiniteSet(X)
  <2>1. X \in SUBSET (1..Len(s)) /\ Len(s) \in Int
    BY <1>9
  <2>2. IsFiniteSet(1..Len(s))
    BY <2>1, FS_Interval
  <2> HIDE DEF X
  <2> QED BY <2>1, <2>2, FS_Subset
<1>27. Cardinality(T) = Cardinality(X)
  <2> HIDE DEF X, d
  <2> QED BY <1>25, <1>26, FS_Bijection DEF ExistsBijection
<1> QED BY <1>4, <1>9, <1>27 DEF T


\* What static-cc answers of a module is how many direct calls there are.
LEMMA ReportIs ==
  ASSUME NEW B, WellFormedModule(B), NEW f
  PROVE  Cardinality(DirectCalls(B, f)) = Held(CountStatic(B), f)
<1>1. InstructionsOf(B) \in Seq(Code)
  BY CallsAre
<1>2. Held(CountStatic(B), f) = Cardinality({x \in 1..Len(InstructionsOf(B)) : f \in CalledFunction(InstructionsOf(B)[x])})
  BY <1>1, CountIs DEF CountStatic
<1> QED BY <1>2, CallsAre

\* The invariant: a cached result is of the module as it is, and once the
\* program runs nothing is reported.
Reported ==
  /\ WellFormedModule(blocks)
  /\ cached # None => cached = CountStatic(blocks)
  /\ phase # "compile" => report = None

\* Every program has well formed modules, nothing cached and no report.
LEMMA InitReported == Init => Reported
BY ModulesAssumption DEF Init, Reported

\* What the passes insert are instructions of the module.
LEMMA InstructionIs ==
  ASSUME NEW op \in {"increment", "header", "print", "hello"}, NEW f \in Names
  PROVE  Instruction(op, f) \in Code
BY DEF Instruction, Code

\* Instructions that are inserted leave a definition one.
LEMMA InsertedIs ==
  ASSUME NEW bs \in Seq(Seq(Code)) \ {<<>>}, NEW is \in Seq(Code)
  PROVE  InsertAtEntry(bs, is) \in Seq(Seq(Code)) \ {<<>>}
<1>1. bs[1] \in Seq(Code) /\ Tail(bs) \in Seq(Seq(Code))
  OBVIOUS
<1>2. is \o bs[1] \in Seq(Code)
  BY <1>1
<1>3. <<is \o bs[1]>> \in Seq(Seq(Code)) /\ Len(<<is \o bs[1]>>) = 1
  BY <1>2
<1> DEFINE first == <<is \o bs[1]>>
           rest == Tail(bs)
<1> HIDE DEF first, rest
<1>4. first \o rest \in Seq(Seq(Code)) /\ Len(first \o rest) = Len(first) + Len(rest) /\ Len(rest) \in Nat
  BY <1>1, <1>3, ConcatIs DEF first, rest
<1>5. Len(first \o rest) # 0
  BY <1>3, <1>4 DEF first
<1> QED BY <1>4, <1>5 DEF InsertAtEntry, first, rest

\* A pass leaves the module well formed, and reports of it as it is.
LEMMA PassReports ==
  ASSUME Reported, RunPass
  PROVE  /\ Reported'
         /\ report' # None => blocks' = blocks /\ report' = CountStatic(blocks)
<1>1. phase = "compile" /\ phase' = phase
  BY DEF RunPass
<1>2. /\ IsFiniteSet(Defined) /\ Defined \subseteq Names
      /\ \A f \in Defined : blocks[f] \in Seq(Seq(Code)) \ {<<>>}
      /\ blocks = [f \in Defined |-> blocks[f]]
  BY DEF Reported, WellFormedModule, Defined, Code
<1>3. CASE StaticCallCounterPrinter
  BY <1>1, <1>3 DEF StaticCallCounterPrinter, Reported
<1>4. CASE countStaticCalls
  BY <1>1, <1>4 DEF countStaticCalls, Reported
<1>5. CASE InjectFuncCall
  <2>1. /\ blocks' = [f \in Defined |-> InsertAtEntry(blocks[f], <<Instruction("hello", f)>>)]
        /\ cached' = IF Defined = {} THEN cached ELSE None
        /\ report' = None
    BY <1>5 DEF InjectFuncCall
  <2>2. ASSUME NEW f \in Defined
        PROVE  InsertAtEntry(blocks[f], <<Instruction("hello", f)>>) \in Seq(Seq(Code)) \ {<<>>}
    <3>1. Instruction("hello", f) \in Code
      BY <1>2, ModulesAssumption, InstructionIs
    <3>2. <<Instruction("hello", f)>> \in Seq(Code)
      BY <3>1
    <3> QED BY <1>2, <3>2, InsertedIs
  <2>3. WellFormedModule(blocks')
    BY <1>2, <2>1, <2>2 DEF WellFormedModule, Code
  <2>4. Defined = {} => blocks' = blocks
    BY <1>2, <2>1
  <2> QED BY <1>1, <2>1, <2>3, <2>4 DEF Reported
<1>6. CASE DynamicCallCounter
  <2>1. report' = None
    BY <1>6 DEF DynamicCallCounter
  <2>2. CASE Defined = {}
    <3>1. blocks' = blocks /\ cached' = cached
      BY <1>6, <2>2 DEF DynamicCallCounter
    <3> QED BY <1>1, <2>1, <3>1 DEF Reported
  <2>3. CASE Defined # {}
    <3> DEFINE order == SetToSeq(Defined)
               counted(f) == InsertAtEntry(blocks[f], <<Instruction("increment", f)>>)
               new(f) == (IF f \in Defined THEN counted(f) ELSE <<>>)
                         \o (IF f = Wrapper THEN <<PrintResults(order)>> ELSE <<>>)
    <3>1. blocks' = [f \in Defined \cup {Wrapper} |-> new(f)] /\ cached' = None
      BY <1>6, <2>3 DEF DynamicCallCounter, Invalidated
    <3>2. ASSUME NEW f \in Defined PROVE counted(f) \in Seq(Seq(Code)) \ {<<>>}
      <4>1. Instruction("increment", f) \in Code
        BY <1>2, ModulesAssumption, InstructionIs
      <4>2. <<Instruction("increment", f)>> \in Seq(Code)
        BY <4>1
      <4> QED BY <1>2, <4>2, InsertedIs
    <3>3. PrintResults(order) \in Seq(Code)
      <4>1. order \in Seq(Defined)
        BY <1>2, ListIs
      <4> DEFINE prints == [k \in DOMAIN order |-> Instruction("print", order[k])]
      <4>2. prints \in Seq(Code)
        <5>1. Len(order) \in Nat /\ DOMAIN order = 1..Len(order)
          BY <4>1
        <5>2. \A k \in 1..Len(order) : Instruction("print", order[k]) \in Code
          <6> SUFFICES ASSUME NEW k \in 1..Len(order) PROVE Instruction("print", order[k]) \in Code
            OBVIOUS
          <6>1. order[k] \in Names
            BY <1>2, <4>1
          <6> QED BY <6>1, ModulesAssumption, InstructionIs
        <5> QED BY <5>1, <5>2
      <4>3. <<Instruction("header", Wrapper)>> \in Seq(Code)
        <5>1. Instruction("header", Wrapper) \in Code
          BY ModulesAssumption, InstructionIs
        <5> QED BY <5>1
      <4> HIDE DEF prints
      <4>4. <<Instruction("header", Wrapper)>> \o prints \in Seq(Code)
        BY <4>2, <4>3
      <4> QED BY <4>4 DEF PrintResults, prints
    <3> HIDE DEF counted, order
    <3>4. ASSUME NEW f \in Defined \cup {Wrapper} PROVE new(f) \in Seq(Seq(Code)) \ {<<>>}
      <4> DEFINE a == IF f \in Defined THEN counted(f) ELSE <<>>
                 b == IF f = Wrapper THEN <<PrintResults(order)>> ELSE <<>>
      <4>1. a \in Seq(Seq(Code)) /\ b \in Seq(Seq(Code))
        BY <3>2, <3>3
      <4>2. Len(a) # 0 \/ Len(b) # 0
        BY <3>2
      <4>3. new(f) = a \o b
        OBVIOUS
      <4> HIDE DEF a, b, new
      <4>4. Len(a \o b) = Len(a) + Len(b) /\ Len(a) \in Nat /\ Len(b) \in Nat /\ a \o b \in Seq(Seq(Code))
        BY <4>1, ConcatIs
      <4>5. Len(a \o b) # 0
        BY <4>2, <4>4
      <4> QED BY <4>3, <4>4, <4>5
    <3> HIDE DEF new
    <3>5. IsFiniteSet(Defined \cup {Wrapper}) /\ Defined \cup {Wrapper} \subseteq Names
      BY <1>2, FS_AddElement, ModulesAssumption
    <3>6. WellFormedModule(blocks')
      BY <3>1, <3>4, <3>5 DEF WellFormedModule, Code
    <3> QED BY <1>1, <2>1, <3>1, <3>6 DEF Reported
  <2> QED BY <2>2, <2>3
<1> QED BY <1>3, <1>4, <1>5, <1>6 DEF RunPass

\* No other step changes the module.
LEMMA RunReports ==
  ASSUME Reported, [Next]_vars, ~RunPass
  PROVE  /\ Reported'
         /\ phase' = phase => report' = report
         /\ report' = None \/ UNCHANGED vars
<1>1. CASE Execute
  BY <1>1 DEF Execute, Reported
<1>2. CASE Exit \/ (\E t \in Workers : StartThread(t)) \/ (\E t \in Threads : Step(t))
  <2>1. phase = "run" /\ phase' # "compile" /\ UNCHANGED module
    BY <1>2 DEF Exit, StartThread, Step, Load, Store, Call, Write, Return, At
  <2> QED BY <2>1 DEF Reported, module
<1>3. CASE UNCHANGED vars
  BY <1>3 DEF vars, module, Reported
<1> QED BY <1>1, <1>2, <1>3 DEF Next

\* Whatever passes were run on whatever module: what static-cc prints is how
\* many direct calls of each function there are at that moment, also when
\* the analysis manager answers with what it has cached
\* (StaticCallCounter.cpp:41-82).
THEOREM ReportsAreFresh == Spec => ReportsFresh
<1> DEFINE Fresh == report' # None =>
              \A f \in DOMAIN report' \cup Defined \cup {Printf} :
                Cardinality(DirectCalls(blocks, f)) = IF f \in DOMAIN report' THEN report'[f] ELSE 0
<1>1. ASSUME Reported, [Next]_vars PROVE Reported' /\ [Fresh]_vars
  <2>1. CASE RunPass
    <3>1. Reported' /\ (report' # None => report' = CountStatic(blocks))
      BY <1>1, <2>1, PassReports
    <3>2. \A f : Cardinality(DirectCalls(blocks, f)) = Held(CountStatic(blocks), f)
      BY <1>1, ReportIs DEF Reported
    <3> QED BY <3>1, <3>2 DEF Held
  <2>2. CASE ~RunPass
    BY <1>1, <2>2, RunReports
  <2> QED BY <2>1, <2>2
<1> QED BY <1>1, InitReported, PTL DEF Spec, ReportsFresh

-----------------------------------------------------------------------------
(* Instructions replaced by sequences of instructions.                      *)

\* Flattening is determined by what it does to the first sequences.
LEMMA FlattenUnique ==
  ASSUME NEW X, NEW ss \in Seq(Seq(X)), NEW g, g[0] = <<>>,
         \A i \in 1..Len(ss) : g[i] = g[i - 1] \o ss[i]
  PROVE  FlattenSeq(ss) = g[Len(ss)] /\ FlattenSeq(ss) \in Seq(X)
<1>1. PICK e : /\ e \in [0..Len(ss) -> Seq(X)] /\ e[0] = <<>>
               /\ \A i \in 1..Len(ss) : e[i] = e[i - 1] \o ss[i]
               /\ FlattenSeq(ss) = e[Len(ss)]
  BY FlattenFolds
<1> DEFINE N == {k \in Nat : k <= Len(ss) => e[k] = g[k]}
<1>2. Len(ss) \in Nat
  OBVIOUS
<1>3. 0 \in N
  BY <1>1
<1>4. ASSUME NEW k \in Nat, k \in N PROVE k + 1 \in N
  <2> SUFFICES ASSUME k + 1 <= Len(ss) PROVE e[k + 1] = g[k + 1]
    OBVIOUS
  <2>1. k + 1 \in 1..Len(ss) /\ (k + 1) - 1 = k /\ e[k] = g[k]
    BY <1>2, <1>4
  <2> QED BY <1>1, <2>1
<1>5. Len(ss) \in N
  <2> HIDE DEF N
  <2> QED BY <1>2, <1>3, <1>4, NatInd
<1> QED BY <1>1, <1>2, <1>5

\* The laws of concatenation.
LEMMA ConcatLaws ==
  ASSUME NEW X, NEW a \in Seq(X), NEW b \in Seq(X), NEW c \in Seq(X)
  PROVE  /\ <<>> \o a = a /\ a \o <<>> = a
         /\ (a \o b) \o c = a \o (b \o c)
  OBVIOUS

\* Of sequences of sequences, one after the other.
LEMMA FlattenConcat ==
  ASSUME NEW X, NEW a \in Seq(Seq(X)), NEW b \in Seq(Seq(X))
  PROVE  FlattenSeq(a \o b) = FlattenSeq(a) \o FlattenSeq(b)
<1>1. PICK e : /\ e \in [0..Len(a) -> Seq(X)] /\ e[0] = <<>>
               /\ \A i \in 1..Len(a) : e[i] = e[i - 1] \o a[i]
               /\ FlattenSeq(a) = e[Len(a)]
  BY FlattenFolds
<1>2. PICK f : /\ f \in [0..Len(b) -> Seq(X)] /\ f[0] = <<>>
               /\ \A i \in 1..Len(b) : f[i] = f[i - 1] \o b[i]
               /\ FlattenSeq(b) = f[Len(b)]
  BY FlattenFolds
<1>3. PICK m \in Nat : m = Len(a)
  OBVIOUS
<1>4. PICK n \in Nat : n = Len(b)
  OBVIOUS
<1>5. /\ a \o b \in Seq(Seq(X)) /\ Len(a \o b) = m + n
      /\ \A x \in 1..m : (a \o b)[x] = a[x]
      /\ \A j \in 1..n : (a \o b)[m + j] = b[j]
  <2>1. ASSUME NEW Y, a \in Seq(Y), b \in Seq(Y)
        PROVE  /\ a \o b \in Seq(Y) /\ Len(a \o b) = m + n
               /\ \A x \in 1..m : (a \o b)[x] = a[x]
               /\ \A j \in 1..n : (a \o b)[m + j] = b[j]
    BY <1>3, <1>4, <2>1, ConcatIs
  <2> QED BY <2>1
<1>10. /\ \A j \in 0..n : f[j] \in Seq(X)
       /\ \A j \in 1..n : f[j] = f[j - 1] \o b[j] /\ b[j] \in Seq(X)
       /\ \A i \in 0..m : e[i] \in Seq(X)
  <2>1. \A j \in 0..n : f[j] \in Seq(X)
    BY <1>2, <1>4
  <2>2. \A j \in 1..n : f[j] = f[j - 1] \o b[j] /\ b[j] \in Seq(X)
    <3> SUFFICES ASSUME NEW j \in 1..n PROVE f[j] = f[j - 1] \o b[j] /\ b[j] \in Seq(X)
      OBVIOUS
    <3>1. j \in 1..Len(b)
      BY <1>4
    <3>2. b[j] \in Seq(X)
      BY <3>1
    <3> QED BY <1>2, <3>1, <3>2
  <2>3. \A i \in 0..m : e[i] \in Seq(X)
    BY <1>1, <1>3
  <2> QED BY <2>1, <2>2, <2>3
<1> DEFINE g == [i \in 0..(m + n) |-> IF i <= m THEN e[i] ELSE e[m] \o f[i - m]]
<1>6. g[0] = <<>>
  BY <1>1
<1>7. ASSUME NEW i \in 1..(m + n) PROVE g[i] = g[i - 1] \o (a \o b)[i]
  <2>1. CASE i <= m
    <3>1. i \in 1..m /\ i - 1 \in 0..(m + n) /\ i \in 0..(m + n) /\ i - 1 <= m
      BY <2>1
    <3>2. g[i] = e[i] /\ g[i - 1] = e[i - 1]
      BY <2>1, <3>1
    <3> HIDE DEF g
    <3> QED BY <1>1, <1>3, <1>5, <3>1, <3>2
  <2>2. CASE i = m + 1
    <3>1. i \in 0..(m + n) /\ i - 1 \in 0..(m + n) /\ ~(i <= m) /\ i - 1 = m /\ i - 1 <= m /\ i - m = 1 /\ 1 \in 1..n
      BY <2>2
    <3>2. g[i] = e[m] \o f[i - m] /\ g[i - 1] = e[i - 1]
      BY <3>1
    <3> HIDE DEF g
    <3>3. f[1] = f[0] \o b[1] /\ b[1] \in Seq(X) /\ (a \o b)[i] = b[1]
      <4>1. f[1] = f[1 - 1] \o b[1] /\ b[1] \in Seq(X) /\ (a \o b)[m + 1] = b[1]
        BY <1>5, <1>10, <3>1
      <4> QED BY <2>2, <4>1
    <3>4. f[1] = b[1]
      BY <1>2, <3>3, ConcatLaws
    <3> QED BY <3>1, <3>2, <3>3, <3>4
  <2>3. CASE i > m + 1
    <3>1. /\ i \in 0..(m + n) /\ i - 1 \in 0..(m + n) /\ ~(i <= m) /\ ~(i - 1 <= m)
          /\ (i - 1) - m = (i - m) - 1 /\ i - m \in 1..n /\ m + (i - m) = i
      BY <2>3
    <3>2. g[i] = e[m] \o f[i - m] /\ g[i - 1] = e[m] \o f[(i - m) - 1]
      BY <3>1
    <3> HIDE DEF g
    <3>3. PICK j \in 1..n : j = i - m
      BY <3>1
    <3>4. f[j] = f[j - 1] \o b[j] /\ b[j] \in Seq(X) /\ (a \o b)[i] = b[j] /\ f[j - 1] \in Seq(X)
      <4>1. j - 1 \in 0..n
        OBVIOUS
      <4>2. (a \o b)[m + j] = b[j]
        BY <1>5
      <4>3. m + j = i
        BY <3>1, <3>3
      <4> QED BY <1>10, <4>1, <4>2, <4>3
    <3>5. e[m] \in Seq(X)
      BY <1>10
    <3>6. PICK u \in Seq(X) : u = e[m]
      BY <3>5
    <3>7. PICK v \in Seq(X) : v = f[j - 1]
      BY <3>4
    <3>8. PICK w \in Seq(X) : w = b[j]
      BY <3>4
    <3>9. (u \o v) \o w = u \o (v \o w)
      BY ConcatLaws
    <3>10. (i - m) - 1 = j - 1 /\ f[i - m] = f[j]
      BY <3>3
    <3>11. g[i] = u \o (v \o w)
      BY <3>2, <3>4, <3>6, <3>7, <3>8, <3>10
    <3>12. g[i - 1] \o (a \o b)[i] = (u \o v) \o w
      BY <3>2, <3>4, <3>6, <3>7, <3>8, <3>10
    <3> QED BY <3>9, <3>11, <3>12
  <2>4. i <= m \/ i = m + 1 \/ i > m + 1
    OBVIOUS
  <2> HIDE DEF g
  <2> QED BY <2>1, <2>2, <2>3, <2>4
<1>8. FlattenSeq(a \o b) = g[m + n]
  <2> HIDE DEF g
  <2> QED BY <1>5, <1>6, <1>7, FlattenUnique
<1>9. g[m + n] = e[m] \o f[n]
  <2>1. CASE n = 0
    <3>1. m + n <= m /\ m + n \in 0..(m + n) /\ m + n = m
      BY <2>1
    <3>2. g[m + n] = e[m] /\ e[m] \in Seq(X) /\ f[n] = <<>>
      BY <2>1, <3>1, <1>2, <1>10
    <3> HIDE DEF g
    <3> QED BY <3>2, ConcatLaws
  <2>2. CASE n # 0
    <3>1. ~(m + n <= m) /\ m + n \in 0..(m + n) /\ (m + n) - m = n
      BY <2>2
    <3> QED BY <3>1
  <2> QED BY <2>1, <2>2
<1> QED BY <1>1, <1>2, <1>3, <1>4, <1>8, <1>9


\* Sequences of one element each.
LEMMA FlattenSingles ==
  ASSUME NEW X, NEW s \in Seq(X)
  PROVE  FlattenSeq([i \in DOMAIN s |-> <<s[i]>>]) = s
<1> DEFINE ss == [i \in DOMAIN s |-> <<s[i]>>]
           g == [k \in 0..Len(s) |-> [i \in 1..k |-> s[i]]]
<1>1. PICK n \in Nat : n = Len(s) /\ DOMAIN s = 1..n /\ \A i \in 1..n : s[i] \in X
  OBVIOUS
<1>2. ss \in Seq(Seq(X)) /\ Len(ss) = n /\ \A i \in 1..n : ss[i] = <<s[i]>>
  <2>1. \A i \in 1..n : <<s[i]>> \in Seq(X)
    BY <1>1
  <2> QED BY <1>1, <2>1
<1>3. g[0] = <<>>
  BY <1>1
<1>4. ASSUME NEW k \in 1..n PROVE g[k] = g[k - 1] \o ss[k]
  <2>1. k \in Nat /\ k - 1 \in Nat /\ k - 1 \in 0..n /\ k \in 0..n
    OBVIOUS
  <2>2. PICK u \in Nat : u = k - 1
    BY <2>1
  <2>3. g[k] = [i \in 1..(u + 1) |-> s[i]] /\ g[k - 1] = [i \in 1..u |-> s[i]] /\ ss[k] = <<s[u + 1]>>
    BY <1>1, <1>2, <2>1, <2>2
  <2> DEFINE a == [i \in 1..u |-> s[i]]
             b == <<s[u + 1]>>
             c == [i \in 1..(u + 1) |-> s[i]]
  <2>4. a \in Seq(X) /\ b \in Seq(X) /\ c \in Seq(X) /\ Len(a) = u /\ Len(b) = 1 /\ Len(c) = u + 1
    BY <1>1, <2>2
  <2>5. \A x \in 1..u : a[x] = s[x] /\ c[x] = s[x]
    OBVIOUS
  <2>6. c[u + 1] = s[u + 1] /\ b[1] = s[u + 1]
    OBVIOUS
  <2> HIDE DEF a, b, c
  <2>7. a \o b \in Seq(X) /\ Len(a \o b) = u + 1 /\ (\A x \in 1..u : (a \o b)[x] = a[x]) /\ (a \o b)[u + 1] = b[1]
    <3>1. /\ a \o b \in Seq(X) /\ Len(a \o b) = Len(a) + Len(b)
          /\ \A x \in 1..Len(a) : (a \o b)[x] = a[x]
          /\ \A j \in 1..Len(b) : (a \o b)[Len(a) + j] = b[j]
      <4>1. PICK p \in Seq(X) : p = a
        BY <2>4
      <4>2. PICK q \in Seq(X) : q = b
        BY <2>4
      <4>3. /\ p \o q \in Seq(X) /\ Len(p \o q) = Len(p) + Len(q)
            /\ \A x \in 1..Len(p) : (p \o q)[x] = p[x]
            /\ \A j \in 1..Len(q) : (p \o q)[Len(p) + j] = q[j]
        BY ConcatIs
      <4> QED BY <4>1, <4>2, <4>3
    <3>2. 1 \in 1..Len(b)
      BY <2>4
    <3> QED BY <2>4, <3>1, <3>2
  <2>8. a \o b = c
    <3>1. ASSUME NEW x \in 1..(u + 1) PROVE (a \o b)[x] = c[x]
      <4>1. x \in 1..u \/ x = u + 1
        OBVIOUS
      <4> QED BY <2>5, <2>6, <2>7, <4>1
    <3> QED BY <2>4, <2>7, <3>1
  <2> QED BY <2>3, <2>8 DEF a, b, c
<1>5. FlattenSeq(ss) = g[n]
  <2> HIDE DEF ss, g
  <2> QED BY <1>1, <1>2, <1>3, <1>4, FlattenUnique
<1>6. g[n] = s
  BY <1>1
<1> QED BY <1>5, <1>6

\* One sequence.
LEMMA FlattenOne ==
  ASSUME NEW X, NEW s \in Seq(X)
  PROVE  FlattenSeq(<<s>>) = s
<1> DEFINE g == [k \in 0..1 |-> IF k = 0 THEN <<>> ELSE s]
<1>1. <<s>> \in Seq(Seq(X)) /\ Len(<<s>>) = 1 /\ <<s>>[1] = s
  OBVIOUS
<1>2. g[0] = <<>> /\ g[1] = s
  OBVIOUS
<1>3. ASSUME NEW i \in 1..1 PROVE g[i] = g[i - 1] \o <<s>>[i]
  <2>1. i = 1 /\ i - 1 = 0
    OBVIOUS
  <2> HIDE DEF g
  <2> QED BY <1>1, <1>2, <2>1, ConcatLaws
<1> HIDE DEF g
<1> QED BY <1>1, <1>2, <1>3, FlattenUnique

\* What is made of every element, one after the other.
Each(r, s) == FlattenSeq([i \in DOMAIN s |-> r[s[i]]])

\* A sequence of Z for every element of Y.
Makers(Y, Z) == [Y -> Seq(Z)]

\* Replaced, instructions are a sequence of what replaces them.
LEMMA EachType ==
  ASSUME NEW Y, NEW Z, NEW r \in Makers(Y, Z), NEW s \in Seq(Y)
  PROVE  /\ [i \in DOMAIN s |-> r[s[i]]] \in Seq(Seq(Z))
         /\ Len([i \in DOMAIN s |-> r[s[i]]]) = Len(s)
         /\ Each(r, s) \in Seq(Z)
<1>1. PICK n \in Nat : n = Len(s) /\ DOMAIN s = 1..n /\ \A i \in 1..n : s[i] \in Y
  OBVIOUS
<1>2. [i \in DOMAIN s |-> r[s[i]]] \in Seq(Seq(Z)) /\ Len([i \in DOMAIN s |-> r[s[i]]]) = n
  BY <1>1 DEF Makers
<1> QED BY <1>1, <1>2, FlattenPlaces DEF Each

\* And of two sequences, one after the other.
LEMMA EachConcat ==
  ASSUME NEW Y, NEW Z, NEW r \in Makers(Y, Z)
  PROVE  \A s, t \in Seq(Y) : Each(r, s \o t) = Each(r, s) \o Each(r, t)
<1> SUFFICES ASSUME NEW s \in Seq(Y), NEW t \in Seq(Y)
             PROVE  Each(r, s \o t) = Each(r, s) \o Each(r, t)
  OBVIOUS
<1> DEFINE M(q) == [i \in DOMAIN q |-> r[q[i]]]
<1>1. PICK m \in Nat : m = Len(s) /\ DOMAIN s = 1..m
  OBVIOUS
<1>2. PICK n \in Nat : n = Len(t) /\ DOMAIN t = 1..n
  OBVIOUS
<1>3. /\ s \o t \in Seq(Y) /\ Len(s \o t) = m + n
      /\ \A x \in 1..m : (s \o t)[x] = s[x]
      /\ \A j \in 1..n : (s \o t)[m + j] = t[j]
  BY <1>1, <1>2, ConcatIs
<1>4. DOMAIN (s \o t) = 1..(m + n)
  BY <1>3
<1>5. /\ M(s) \in Seq(Seq(Z)) /\ M(t) \in Seq(Seq(Z)) /\ M(s \o t) \in Seq(Seq(Z))
      /\ Len(M(s)) = m /\ Len(M(t)) = n /\ Len(M(s \o t)) = m + n
  <2>1. \A q \in Seq(Y) : M(q) \in Seq(Seq(Z)) /\ Len(M(q)) = Len(q)
    BY EachType
  <2> HIDE DEF M
  <2> QED BY <1>1, <1>2, <1>3, <2>1
<1>6. /\ \A x \in 1..m : M(s)[x] = r[s[x]] /\ M(s \o t)[x] = r[s[x]]
      /\ \A j \in 1..n : M(t)[j] = r[t[j]] /\ M(s \o t)[m + j] = r[t[j]]
  <2>1. \A x \in 1..m : x \in 1..(m + n)
    OBVIOUS
  <2>2. \A j \in 1..n : m + j \in 1..(m + n)
    OBVIOUS
  <2> QED BY <1>1, <1>2, <1>3, <1>4, <2>1, <2>2
<1> DEFINE a == M(s)
           b == M(t)
           c == M(s \o t)
<1>7. FlattenSeq(a) = Each(r, s) /\ FlattenSeq(b) = Each(r, t) /\ FlattenSeq(c) = Each(r, s \o t)
  BY DEF Each
<1> HIDE DEF a, b, c
<1>8. /\ a \o b \in Seq(Seq(Z)) /\ Len(a \o b) = m + n
      /\ \A x \in 1..m : (a \o b)[x] = a[x]
      /\ \A j \in 1..n : (a \o b)[m + j] = b[j]
  <2>1. a \in Seq(Seq(Z)) /\ b \in Seq(Seq(Z)) /\ Len(a) = m /\ Len(b) = n
    BY <1>5 DEF a, b
  <2>2. PICK W : W = Seq(Z)
    OBVIOUS
  <2>3. a \in Seq(W) /\ b \in Seq(W)
    BY <2>1, <2>2
  <2>5. /\ a \o b \in Seq(W) /\ Len(a \o b) = Len(a) + Len(b)
        /\ \A x \in 1..Len(a) : (a \o b)[x] = a[x]
        /\ \A j \in 1..Len(b) : (a \o b)[Len(a) + j] = b[j]
    BY <2>3, ConcatIs
  <2>4. /\ a \o b \in Seq(W) /\ Len(a \o b) = m + n
        /\ \A x \in 1..m : (a \o b)[x] = a[x]
        /\ \A j \in 1..n : (a \o b)[m + j] = b[j]
    BY <2>1, <2>5
  <2> QED BY <2>2, <2>4
<1>9. a \o b = c
  <2>1. ASSUME NEW x \in 1..(m + n) PROVE (a \o b)[x] = c[x]
    <3>1. CASE x \in 1..m
      BY <3>1, <1>6, <1>8 DEF a, c
    <3>2. CASE x \notin 1..m
      <4>1. x - m \in 1..n /\ m + (x - m) = x
        BY <3>2
      <4>2. PICK j \in 1..n : x = m + j
        BY <4>1
      <4>3. (a \o b)[m + j] = b[j] /\ b[j] = c[m + j]
        BY <1>6, <1>8 DEF b, c
      <4> QED BY <4>2, <4>3
    <3> QED BY <3>1, <3>2
  <2>2. c \in Seq(Seq(Z)) /\ Len(c) = m + n
    BY <1>5 DEF c
  <2>3. PICK W : W = Seq(Z)
    OBVIOUS
  <2>4. c \in Seq(W) /\ a \o b \in Seq(W) /\ Len(a \o b) = m + n
    BY <1>8, <2>2, <2>3
  <2>5. DOMAIN c = 1..(m + n) /\ DOMAIN (a \o b) = 1..(m + n)
    BY <2>2, <2>4
  <2> QED BY <2>1, <2>4, <2>5
<1>10. a \in Seq(Seq(Z)) /\ b \in Seq(Seq(Z))
  BY <1>5 DEF a, b
<1> QED BY <1>7, <1>9, <1>10, FlattenConcat

\* What is made of the elements of flattened sequences, and what is made of
\* each of the sequences, flattened.
LEMMA EachFlatten ==
  ASSUME NEW Y, NEW Z, NEW r \in Makers(Y, Z)
  PROVE  \A ss \in Seq(Seq(Y)) :
         /\ [k \in DOMAIN ss |-> Each(r, ss[k])] \in Seq(Seq(Z))
         /\ Each(r, FlattenSeq(ss)) = FlattenSeq([k \in DOMAIN ss |-> Each(r, ss[k])])
<1>8. \A u, v \in Seq(Y) : Each(r, u \o v) = Each(r, u) \o Each(r, v)
  BY EachConcat
<1> SUFFICES ASSUME NEW ss \in Seq(Seq(Y))
             PROVE  /\ [k \in DOMAIN ss |-> Each(r, ss[k])] \in Seq(Seq(Z))
                    /\ Each(r, FlattenSeq(ss)) = FlattenSeq([k \in DOMAIN ss |-> Each(r, ss[k])])
  OBVIOUS
<1>1. PICK e : /\ e \in [0..Len(ss) -> Seq(Y)] /\ e[0] = <<>>
               /\ \A i \in 1..Len(ss) : e[i] = e[i - 1] \o ss[i]
               /\ FlattenSeq(ss) = e[Len(ss)]
  BY FlattenFolds
<1>2. PICK n \in Nat : n = Len(ss) /\ DOMAIN ss = 1..n /\ \A i \in 1..n : ss[i] \in Seq(Y)
  OBVIOUS
<1> DEFINE M == [k \in DOMAIN ss |-> Each(r, ss[k])]
           g == [k \in 0..n |-> Each(r, e[k])]
<1>3. M \in Seq(Seq(Z)) /\ Len(M) = n /\ \A k \in 1..n : M[k] = Each(r, ss[k])
  <2>1. \A k \in 1..n : Each(r, ss[k]) \in Seq(Z)
    BY <1>2, EachType
  <2> QED BY <1>2, <2>1
<1>4. g[0] = <<>>
  <2>1. [i \in DOMAIN e[0] |-> r[e[0][i]]] = <<>>
    BY <1>1
  <2>2. FlattenSeq(<<>>) = <<>>
    BY DEF FlattenSeq
  <2>3. 0 \in 0..n /\ g[0] = Each(r, e[0])
    OBVIOUS
  <2> HIDE DEF g
  <2> QED BY <2>1, <2>2, <2>3 DEF Each
<1>5. ASSUME NEW k \in 1..n PROVE g[k] = g[k - 1] \o M[k]
  <2>1. k \in 0..n /\ k - 1 \in 0..n
    OBVIOUS
  <2>2. e[k] = e[k - 1] \o ss[k] /\ e[k - 1] \in Seq(Y) /\ ss[k] \in Seq(Y)
    BY <1>1, <1>2, <2>1
  <2>3. PICK u \in Seq(Y) : u = e[k - 1]
    BY <2>2
  <2>4. PICK v \in Seq(Y) : v = ss[k]
    BY <2>2
  <2> HIDE DEF M, g
  <2>5. Each(r, u \o v) = Each(r, u) \o Each(r, v)
    BY <1>8
  <2>6. g[k] = Each(r, u \o v) /\ g[k - 1] = Each(r, u)
    BY <2>1, <2>2, <2>3, <2>4 DEF g
  <2> QED BY <1>3, <2>4, <2>5, <2>6
<1>6. FlattenSeq(M) = g[n]
  <2> HIDE DEF M, g
  <2> QED BY <1>3, <1>4, <1>5, FlattenUnique
<1>7. g[n] = Each(r, FlattenSeq(ss))
  BY <1>1, <1>2
<1> QED BY <1>3, <1>6, <1>7
-----------------------------------------------------------------------------
(* What the passes make of an instruction.                                  *)

\* Sequences that each element is left alone in, and single elements.
LEMMA EachOf ==
  ASSUME NEW Y, NEW Z, NEW g \in Makers(Y, Z)
  PROVE  /\ \A q \in Seq(Y) : (\A i \in DOMAIN q : g[q[i]] = <<q[i]>>) => Each(g, q) = q
         /\ \A x \in Y : Each(g, <<x>>) = g[x]
<1>1. ASSUME NEW q \in Seq(Y), \A i \in DOMAIN q : g[q[i]] = <<q[i]>> PROVE Each(g, q) = q
  <2>1. [i \in DOMAIN q |-> g[q[i]]] = [i \in DOMAIN q |-> <<q[i]>>]
    BY <1>1
  <2> QED BY <2>1, FlattenSingles DEF Each
<1>2. ASSUME NEW x \in Y PROVE Each(g, <<x>>) = g[x]
  <2>1. [i \in DOMAIN <<x>> |-> g[<<x>>[i]]] = <<g[x]>>
    OBVIOUS
  <2>2. g[x] \in Seq(Z)
    BY DEF Makers
  <2> QED BY <2>1, <2>2, FlattenOne DEF Each
<1> QED BY <1>1, <1>2

\* What the Secret pass makes of a phi.
AsSelect(ins) == <<[ins EXCEPT !.op = "select"]>>

\* What an instruction has become once the passes in ran have been run.
Became(ins, ran) ==
  IF "mba-sub" \in ran /\ isSub(ins) THEN Substitute(ins)
  ELSE IF "convert-fcmp-eq" \in ran /\ isEquality(ins) THEN convertFCmpEqInstruction(ins)
  ELSE IF "inputsVector" \in ran /\ ins.op = "phi" THEN AsSelect(ins) ELSE <<ins>>

\* All that instructions of Y can become at once.
Pieces(Y) ==
  {Substitute(x)[j] : x \in Y, j \in 1..3} \cup {convertFCmpEqInstruction(x)[j] : x \in Y, j \in 1..5}
  \cup {AsSelect(x)[1] : x \in Y} \cup Y

\* Each of these is made of pieces.
LEMMA PiecesAre ==
  ASSUME NEW Y, NEW x \in Y
  PROVE  /\ Substitute(x) \in Seq(Pieces(Y)) /\ convertFCmpEqInstruction(x) \in Seq(Pieces(Y))
         /\ AsSelect(x) \in Seq(Pieces(Y)) /\ <<x>> \in Seq(Pieces(Y))
<1>1. Substitute(x) \in Seq(Pieces(Y))
  <2>1. Substitute(x)[1] \in Pieces(Y) /\ Substitute(x)[2] \in Pieces(Y) /\ Substitute(x)[3] \in Pieces(Y)
    <3>1. 1 \in 1..3 /\ 2 \in 1..3 /\ 3 \in 1..3
      OBVIOUS
    <3> QED BY <3>1 DEF Pieces
  <2>2. \A a, b, c : <<a, b, c>>[1] = a /\ <<a, b, c>>[2] = b /\ <<a, b, c>>[3] = c
    OBVIOUS
  <2>3. \E a, b, c : Substitute(x) = <<a, b, c>>
    BY DEF Substitute
  <2>4. PICK a, b, c : Substitute(x) = <<a, b, c>>
    BY <2>3
  <2>5. a \in Pieces(Y) /\ b \in Pieces(Y) /\ c \in Pieces(Y)
    BY <2>1, <2>2, <2>4
  <2> QED BY <2>4, <2>5
<1>2. convertFCmpEqInstruction(x) \in Seq(Pieces(Y))
  <2>1. \A j \in 1..5 : convertFCmpEqInstruction(x)[j] \in Pieces(Y)
    BY DEF Pieces
  <2>2. \E a, b, c, d, e : convertFCmpEqInstruction(x) = <<a, b, c, d, e>>
    BY DEF convertFCmpEqInstruction
  <2>3. PICK a, b, c, d, e : convertFCmpEqInstruction(x) = <<a, b, c, d, e>>
    BY <2>2
  <2>4. \A j \in 1..5 : <<a, b, c, d, e>>[j] \in Pieces(Y)
    BY <2>1, <2>3
  <2>5. a \in Pieces(Y) /\ b \in Pieces(Y) /\ c \in Pieces(Y) /\ d \in Pieces(Y) /\ e \in Pieces(Y)
    BY <2>4
  <2> QED BY <2>3, <2>5
<1>3. AsSelect(x) \in Seq(Pieces(Y))
  <2>1. AsSelect(x)[1] \in Pieces(Y)
    BY DEF Pieces
  <2>2. \E a : AsSelect(x) = <<a>>
    BY DEF AsSelect
  <2> QED BY <2>1, <2>2
<1>4. <<x>> \in Seq(Pieces(Y))
  BY DEF Pieces
<1> QED BY <1>1, <1>2, <1>3, <1>4

\* So is what an instruction has become.
LEMMA BecameType ==
  ASSUME NEW Y, NEW x \in Y, NEW ran
  PROVE  Became(x, ran) \in Seq(Pieces(Y))
BY PiecesAre DEF Became

\* As a function of the instructions that functions start with.
Made(ran) == [ins \in Written |-> Became(ins, ran)]

\* A function whose instructions have been replaced by others.
Mapped(f, r) == [optnone |-> f.optnone, blocks |-> [k \in DOMAIN f.blocks |-> Each(r, f.blocks[k])]]

\* The function f after these passes.
Applied(f, ran) == Mapped(f, Made(ran))

\* A function with instructions from Y.
Shaped(f, Y) == f \in [optnone : BOOLEAN, blocks : Seq(Seq(Y))]

\* Of a function whose instructions have been replaced, all instructions.
LEMMA MappedType ==
  ASSUME NEW Y, NEW Z, NEW r \in Makers(Y, Z), NEW f, Shaped(f, Y)
  PROVE  /\ Shaped(Mapped(f, r), Z)
         /\ Instructions(f) \in Seq(Y) /\ Instructions(Mapped(f, r)) \in Seq(Z)
         /\ Instructions(Mapped(f, r)) = Each(r, Instructions(f))
<1>1. f.optnone \in BOOLEAN /\ f.blocks \in Seq(Seq(Y))
  BY DEF Shaped
<1>2. PICK B \in Seq(Seq(Y)) : B = f.blocks
  BY <1>1
<1> DEFINE C == [k \in DOMAIN B |-> Each(r, B[k])]
<1>3. Mapped(f, r) = [optnone |-> f.optnone, blocks |-> C]
  BY <1>2 DEF Mapped
<1>5. C \in Seq(Seq(Z)) /\ Each(r, FlattenSeq(B)) = FlattenSeq(C)
  BY EachFlatten
<1>6. FlattenSeq(B) \in Seq(Y) /\ FlattenSeq(C) \in Seq(Z)
  BY <1>5, FlattenPlaces
<1> HIDE DEF C
<1>7. Instructions(f) = FlattenSeq(B) /\ Instructions(Mapped(f, r)) = FlattenSeq(C)
  BY <1>2, <1>3 DEF Instructions
<1>8. Shaped(Mapped(f, r), Z)
  BY <1>1, <1>3, <1>5 DEF Shaped
<1> QED BY <1>5, <1>6, <1>7, <1>8

\* Replaced instructions replaced again.
LEMMA MappedTwice ==
  ASSUME NEW X, NEW Y, NEW Z, NEW r \in Makers(X, Y), NEW g \in Makers(Y, Z), NEW r1,
         \A x \in X : Each(g, r[x]) = r1[x], NEW f, Shaped(f, X)
  PROVE  Mapped(Mapped(f, r), g) = Mapped(f, r1)
<1>1. PICK B \in Seq(Seq(X)) : B = f.blocks
  BY DEF Shaped
<1>2. Mapped(f, r) = [optnone |-> f.optnone, blocks |-> [k \in DOMAIN B |-> Each(r, B[k])]]
  BY <1>1 DEF Mapped
<1>3. ASSUME NEW k \in DOMAIN B PROVE Each(g, Each(r, B[k])) = Each(r1, B[k])
  <2>1. B[k] \in Seq(X)
    OBVIOUS
  <2>2. PICK q \in Seq(X) : q = B[k]
    BY <2>1
  <2> DEFINE ss == [i \in DOMAIN q |-> r[q[i]]]
  <2>3. ss \in Seq(Seq(Y)) /\ Each(r, q) = FlattenSeq(ss)
    BY EachType DEF Each
  <2>4. Each(g, FlattenSeq(ss)) = FlattenSeq([i \in DOMAIN ss |-> Each(g, ss[i])])
    <3> HIDE DEF ss
    <3> QED BY <2>3, EachFlatten
  <2>5. [i \in DOMAIN ss |-> Each(g, ss[i])] = [i \in DOMAIN q |-> r1[q[i]]]
    <3>1. DOMAIN ss = DOMAIN q
      OBVIOUS
    <3>2. ASSUME NEW i \in DOMAIN q PROVE Each(g, ss[i]) = r1[q[i]]
      <4>1. q[i] \in X
        OBVIOUS
      <4> QED BY <4>1
    <3> HIDE DEF ss
    <3> QED BY <3>1, <3>2
  <2> QED BY <2>2, <2>3, <2>4, <2>5 DEF Each
<1>4. [k \in DOMAIN B |-> Each(g, [j \in DOMAIN B |-> Each(r, B[j])][k])] = [k \in DOMAIN B |-> Each(r1, B[k])]
  BY <1>3
<1> QED BY <1>1, <1>2, <1>4 DEF Mapped

\* The passes replace instructions by pieces.
LEMMA MadeType ==
  ASSUME NEW ran
  PROVE  Made(ran) \in Makers(Written, Pieces(Written))
BY BecameType DEF Made, Makers
-----------------------------------------------------------------------------
(* What the analyses and the function compute, instruction by instruction.  *)

\* Comparisons are collected from one instruction after another.
LEMMA CollectFolds ==
  ASSUME NEW X, NEW s \in Seq(X)
  PROVE  \E e : /\ e[0] = <<>>
                /\ \A k \in 1..Len(s) : e[k] = Collect(e[k - 1], s[k])
                /\ FoldLeft(Collect, <<>>, s) = e[Len(s)]
<1> DEFINE n == Len(s)
           Iter(h, m) == h = [t \in SUBSET (1..m) |-> IF t = {} THEN <<>>
                                                     ELSE Collect(h[t \ {Max(t)}], s[Max(t)])]
           N == {m \in Nat : \E h : Iter(h, m)}
<1>1. n \in Nat /\ DOMAIN s = 1..n
  OBVIOUS
<1> HIDE DEF n
<1>2. 0 \in N
  <2>1. Iter([t \in SUBSET (1..0) |-> <<>>], 0)
    OBVIOUS
  <2> QED BY <2>1
<1>3. ASSUME NEW m \in Nat, m \in N PROVE m + 1 \in N
  <2>1. PICK h : Iter(h, m)
    BY <1>3
  <2> DEFINE g == [t \in SUBSET (1..(m + 1)) |->
                     IF m + 1 \in t THEN Collect(h[t \ {m + 1}], s[m + 1]) ELSE h[t]]
  <2>2. ASSUME NEW t \in SUBSET (1..(m + 1)), m + 1 \notin t
        PROVE  t \in SUBSET (1..m) /\ g[t] = h[t]
    BY <2>2
  <2>3. ASSUME NEW t \in SUBSET (1..(m + 1))
        PROVE  g[t] = IF t = {} THEN <<>> ELSE Collect(g[t \ {Max(t)}], s[Max(t)])
    <3>1. CASE m + 1 \in t
      <4>1. Max(t) = m + 1
        <5>1. Max(t) \in t /\ m + 1 <= Max(t)
          BY <3>1, m + 1 \in Nat, LastPosition
        <5>2. Max(t) \in 1..(m + 1)
          BY <5>1
        <5> QED BY <5>1, <5>2
      <4>2. t \ {m + 1} \in SUBSET (1..(m + 1)) /\ m + 1 \notin t \ {m + 1}
        OBVIOUS
      <4>3. g[t \ {m + 1}] = h[t \ {m + 1}]
        BY <4>2, <2>2
      <4> QED BY <3>1, <4>1, <4>3
    <3>2. CASE m + 1 \notin t
      <4>1. t \in SUBSET (1..m) /\ g[t] = h[t]
        BY <3>2, <2>2
      <4>2. h[t] = IF t = {} THEN <<>> ELSE Collect(h[t \ {Max(t)}], s[Max(t)])
        BY <4>1, <2>1
      <4>3. t \ {Max(t)} \in SUBSET (1..(m + 1)) /\ m + 1 \notin t \ {Max(t)}
        BY <3>2
      <4>4. g[t \ {Max(t)}] = h[t \ {Max(t)}]
        BY <4>3, <2>2
      <4> QED BY <4>1, <4>2, <4>4
    <3> QED BY <3>1, <3>2
  <2>4. Iter(g, m + 1)
    <3>1. g = [t \in SUBSET (1..(m + 1)) |-> g[t]]
      OBVIOUS
    <3> HIDE DEF g
    <3> QED BY <3>1, <2>3
  <2> HIDE DEF Iter, g
  <2> QED BY <2>4
<1>4. n \in N
  <2> HIDE DEF N
  <2> QED BY <1>1, <1>2, <1>3, NatInd
<1> DEFINE iter == CHOOSE h : Iter(h, n)
<1>5. Iter(iter, n)
  <2> HIDE DEF Iter
  <2> QED BY <1>4
<1>6. FoldLeft(Collect, <<>>, s) = iter[1..n]
  BY <1>1 DEF FoldLeft, MapThenFoldSet
<1> HIDE DEF iter
<1> DEFINE e == [k \in 0..n |-> iter[1..k]]
<1>7. e[0] = <<>>
  BY <1>1, <1>5, 1..0 = {}
<1>8. ASSUME NEW k \in 1..n PROVE e[k] = Collect(e[k - 1], s[k])
  <2>1. /\ 1..k \in SUBSET (1..n) /\ 1..k # {} /\ k - 1 \in 0..n /\ k \in 0..n /\ k \in Nat
        /\ k \in 1..k
    BY <1>1
  <2>2. Max(1..k) = k
    <3>1. Max(1..k) \in 1..k /\ k <= Max(1..k)
      BY <2>1, LastPosition
    <3> QED BY <2>1, <3>1
  <2>3. (1..k) \ {k} = 1..(k - 1)
    BY <2>1
  <2>4. iter[1..k] = Collect(iter[(1..k) \ {Max(1..k)}], s[Max(1..k)])
    BY <1>5, <2>1
  <2> QED BY <2>1, <2>2, <2>3, <2>4
<1>9. e[n] = iter[1..n]
  BY <1>1
<1> HIDE DEF e
<1> QED BY <1>6, <1>7, <1>8, <1>9 DEF n

\* So are opcodes counted.
LEMMA OpcodeFolds ==
  ASSUME NEW X, NEW s \in Seq(X)
  PROVE  \E e : /\ e[0] = <<>>
                /\ \A k \in 1..Len(s) : e[k] = CountOpcode(e[k - 1], s[k])
                /\ FoldLeft(CountOpcode, <<>>, s) = e[Len(s)]
<1> DEFINE n == Len(s)
           Iter(h, m) == h = [t \in SUBSET (1..m) |-> IF t = {} THEN <<>>
                                                     ELSE CountOpcode(h[t \ {Max(t)}], s[Max(t)])]
           N == {m \in Nat : \E h : Iter(h, m)}
<1>1. n \in Nat /\ DOMAIN s = 1..n
  OBVIOUS
<1> HIDE DEF n
<1>2. 0 \in N
  <2>1. Iter([t \in SUBSET (1..0) |-> <<>>], 0)
    OBVIOUS
  <2> QED BY <2>1
<1>3. ASSUME NEW m \in Nat, m \in N PROVE m + 1 \in N
  <2>1. PICK h : Iter(h, m)
    BY <1>3
  <2> DEFINE g == [t \in SUBSET (1..(m + 1)) |->
                     IF m + 1 \in t THEN CountOpcode(h[t \ {m + 1}], s[m + 1]) ELSE h[t]]
  <2>2. ASSUME NEW t \in SUBSET (1..(m + 1)), m + 1 \notin t
        PROVE  t \in SUBSET (1..m) /\ g[t] = h[t]
    BY <2>2
  <2>3. ASSUME NEW t \in SUBSET (1..(m + 1))
        PROVE  g[t] = IF t = {} THEN <<>> ELSE CountOpcode(g[t \ {Max(t)}], s[Max(t)])
    <3>1. CASE m + 1 \in t
      <4>1. Max(t) = m + 1
        <5>1. Max(t) \in t /\ m + 1 <= Max(t)
          BY <3>1, m + 1 \in Nat, LastPosition
        <5>2. Max(t) \in 1..(m + 1)
          BY <5>1
        <5> QED BY <5>1, <5>2
      <4>2. t \ {m + 1} \in SUBSET (1..(m + 1)) /\ m + 1 \notin t \ {m + 1}
        OBVIOUS
      <4>3. g[t \ {m + 1}] = h[t \ {m + 1}]
        BY <4>2, <2>2
      <4> QED BY <3>1, <4>1, <4>3
    <3>2. CASE m + 1 \notin t
      <4>1. t \in SUBSET (1..m) /\ g[t] = h[t]
        BY <3>2, <2>2
      <4>2. h[t] = IF t = {} THEN <<>> ELSE CountOpcode(h[t \ {Max(t)}], s[Max(t)])
        BY <4>1, <2>1
      <4>3. t \ {Max(t)} \in SUBSET (1..(m + 1)) /\ m + 1 \notin t \ {Max(t)}
        BY <3>2
      <4>4. g[t \ {Max(t)}] = h[t \ {Max(t)}]
        BY <4>3, <2>2
      <4> QED BY <4>1, <4>2, <4>4
    <3> QED BY <3>1, <3>2
  <2>4. Iter(g, m + 1)
    <3>1. g = [t \in SUBSET (1..(m + 1)) |-> g[t]]
      OBVIOUS
    <3> HIDE DEF g
    <3> QED BY <3>1, <2>3
  <2> HIDE DEF Iter, g
  <2> QED BY <2>4
<1>4. n \in N
  <2> HIDE DEF N
  <2> QED BY <1>1, <1>2, <1>3, NatInd
<1> DEFINE iter == CHOOSE h : Iter(h, n)
<1>5. Iter(iter, n)
  <2> HIDE DEF Iter
  <2> QED BY <1>4
<1>6. FoldLeft(CountOpcode, <<>>, s) = iter[1..n]
  BY <1>1 DEF FoldLeft, MapThenFoldSet
<1> HIDE DEF iter
<1> DEFINE e == [k \in 0..n |-> iter[1..k]]
<1>7. e[0] = <<>>
  BY <1>1, <1>5, 1..0 = {}
<1>8. ASSUME NEW k \in 1..n PROVE e[k] = CountOpcode(e[k - 1], s[k])
  <2>1. /\ 1..k \in SUBSET (1..n) /\ 1..k # {} /\ k - 1 \in 0..n /\ k \in 0..n /\ k \in Nat
        /\ k \in 1..k
    BY <1>1
  <2>2. Max(1..k) = k
    <3>1. Max(1..k) \in 1..k /\ k <= Max(1..k)
      BY <2>1, LastPosition
    <3> QED BY <2>1, <3>1
  <2>3. (1..k) \ {k} = 1..(k - 1)
    BY <2>1
  <2>4. iter[1..k] = CountOpcode(iter[(1..k) \ {Max(1..k)}], s[Max(1..k)])
    BY <1>5, <2>1
  <2> QED BY <2>1, <2>2, <2>3, <2>4
<1>9. e[n] = iter[1..n]
  BY <1>1
<1> HIDE DEF e
<1> QED BY <1>6, <1>7, <1>8, <1>9 DEF n

\* The values after some instructions, from the values before.
After(v, s) == FoldLeft(Compute, v, s)

\* And what is computed is computed by one instruction after another.
LEMMA ComputeFolds ==
  ASSUME NEW X, NEW val0, NEW s \in Seq(X)
  PROVE  \E e : /\ e[0] = val0
                /\ \A k \in 1..Len(s) : e[k] = Compute(e[k - 1], s[k])
                /\ After(val0, s) = e[Len(s)]
<1> DEFINE n == Len(s)
           Iter(h, m) == h = [t \in SUBSET (1..m) |-> IF t = {} THEN val0
                                                     ELSE Compute(h[t \ {Max(t)}], s[Max(t)])]
           N == {m \in Nat : \E h : Iter(h, m)}
<1>1. n \in Nat /\ DOMAIN s = 1..n
  OBVIOUS
<1> HIDE DEF n
<1>2. 0 \in N
  <2>1. Iter([t \in SUBSET (1..0) |-> val0], 0)
    OBVIOUS
  <2> QED BY <2>1
<1>3. ASSUME NEW m \in Nat, m \in N PROVE m + 1 \in N
  <2>1. PICK h : Iter(h, m)
    BY <1>3
  <2> DEFINE g == [t \in SUBSET (1..(m + 1)) |->
                     IF m + 1 \in t THEN Compute(h[t \ {m + 1}], s[m + 1]) ELSE h[t]]
  <2>2. ASSUME NEW t \in SUBSET (1..(m + 1)), m + 1 \notin t
        PROVE  t \in SUBSET (1..m) /\ g[t] = h[t]
    BY <2>2
  <2>3. ASSUME NEW t \in SUBSET (1..(m + 1))
        PROVE  g[t] = IF t = {} THEN val0 ELSE Compute(g[t \ {Max(t)}], s[Max(t)])
    <3>1. CASE m + 1 \in t
      <4>1. Max(t) = m + 1
        <5>1. Max(t) \in t /\ m + 1 <= Max(t)
          BY <3>1, m + 1 \in Nat, LastPosition
        <5>2. Max(t) \in 1..(m + 1)
          BY <5>1
        <5> QED BY <5>1, <5>2
      <4>2. t \ {m + 1} \in SUBSET (1..(m + 1)) /\ m + 1 \notin t \ {m + 1}
        OBVIOUS
      <4>3. g[t \ {m + 1}] = h[t \ {m + 1}]
        BY <4>2, <2>2
      <4> QED BY <3>1, <4>1, <4>3
    <3>2. CASE m + 1 \notin t
      <4>1. t \in SUBSET (1..m) /\ g[t] = h[t]
        BY <3>2, <2>2
      <4>2. h[t] = IF t = {} THEN val0 ELSE Compute(h[t \ {Max(t)}], s[Max(t)])
        BY <4>1, <2>1
      <4>3. t \ {Max(t)} \in SUBSET (1..(m + 1)) /\ m + 1 \notin t \ {Max(t)}
        BY <3>2
      <4>4. g[t \ {Max(t)}] = h[t \ {Max(t)}]
        BY <4>3, <2>2
      <4> QED BY <4>1, <4>2, <4>4
    <3> QED BY <3>1, <3>2
  <2>4. Iter(g, m + 1)
    <3>1. g = [t \in SUBSET (1..(m + 1)) |-> g[t]]
      OBVIOUS
    <3> HIDE DEF g
    <3> QED BY <3>1, <2>3
  <2> HIDE DEF Iter, g
  <2> QED BY <2>4
<1>4. n \in N
  <2> HIDE DEF N
  <2> QED BY <1>1, <1>2, <1>3, NatInd
<1> DEFINE iter == CHOOSE h : Iter(h, n)
<1>5. Iter(iter, n)
  <2> HIDE DEF Iter
  <2> QED BY <1>4
<1>6. After(val0, s) = iter[1..n]
  BY <1>1 DEF After, FoldLeft, MapThenFoldSet
<1> HIDE DEF iter
<1> DEFINE e == [k \in 0..n |-> iter[1..k]]
<1>7. e[0] = val0
  BY <1>1, <1>5, 1..0 = {}
<1>8. ASSUME NEW k \in 1..n PROVE e[k] = Compute(e[k - 1], s[k])
  <2>1. /\ 1..k \in SUBSET (1..n) /\ 1..k # {} /\ k - 1 \in 0..n /\ k \in 0..n /\ k \in Nat
        /\ k \in 1..k
    BY <1>1
  <2>2. Max(1..k) = k
    <3>1. Max(1..k) \in 1..k /\ k <= Max(1..k)
      BY <2>1, LastPosition
    <3> QED BY <2>1, <3>1
  <2>3. (1..k) \ {k} = 1..(k - 1)
    BY <2>1
  <2>4. iter[1..k] = Compute(iter[(1..k) \ {Max(1..k)}], s[Max(1..k)])
    BY <1>5, <2>1
  <2> QED BY <2>1, <2>2, <2>3, <2>4
<1>9. e[n] = iter[1..n]
  BY <1>1
<1> HIDE DEF e
<1> QED BY <1>6, <1>7, <1>8, <1>9 DEF n

\* What find-fcmp-eq finds are the comparisons for equality.
LEMMA FindIs ==
  ASSUME NEW X, NEW s \in Seq(X)
  PROVE  /\ FoldLeft(Collect, <<>>, s) \in Seq(X)
         /\ ToSet(FoldLeft(Collect, <<>>, s)) = {x \in ToSet(s) : isEquality(x)}
<1>1. PICK e : /\ e[0] = <<>>
               /\ \A k \in 1..Len(s) : e[k] = Collect(e[k - 1], s[k])
               /\ FoldLeft(Collect, <<>>, s) = e[Len(s)]
  BY CollectFolds
<1>2. PICK n \in Nat : n = Len(s) /\ DOMAIN s = 1..n /\ \A i \in 1..n : s[i] \in X
  OBVIOUS
<1> DEFINE S(k) == {s[i] : i \in 1..k}
           N == {k \in Nat : k <= n => /\ e[k] \in Seq(X)
                                       /\ ToSet(e[k]) = {x \in S(k) : isEquality(x)}}
<1>3. 0 \in N
  <2>1. <<>> \in Seq(X) /\ ToSet(<<>>) = {} /\ S(0) = {}
    BY DEF ToSet
  <2> QED BY <1>1, <2>1
<1>4. ASSUME NEW k \in Nat, k \in N PROVE k + 1 \in N
  <2> SUFFICES ASSUME k + 1 <= n
               PROVE  e[k + 1] \in Seq(X) /\ ToSet(e[k + 1]) = {x \in S(k + 1) : isEquality(x)}
    OBVIOUS
  <2>1. k + 1 \in 1..n /\ (k + 1) - 1 = k /\ e[k] \in Seq(X) /\ ToSet(e[k]) = {x \in S(k) : isEquality(x)}
    BY <1>2, <1>4
  <2>2. e[k + 1] = Collect(e[k], s[k + 1]) /\ s[k + 1] \in X
    BY <1>1, <1>2, <2>1
  <2>3. S(k + 1) = S(k) \cup {s[k + 1]}
    <3>1. 1..(k + 1) = (1..k) \cup {k + 1}
      OBVIOUS
    <3> QED BY <3>1
  <2> HIDE DEF S
  <2>4. CASE isEquality(s[k + 1])
    <3>1. e[k + 1] = Append(e[k], s[k + 1])
      BY <2>2, <2>4 DEF Collect
    <3>2. ASSUME NEW q \in Seq(X), NEW x \in X
          PROVE  Append(q, x) \in Seq(X) /\ ToSet(Append(q, x)) = ToSet(q) \cup {x}
      <4>1. PICK m \in Nat : m = Len(q) /\ DOMAIN q = 1..m
        OBVIOUS
      <4>2. /\ Append(q, x) \in Seq(X) /\ DOMAIN Append(q, x) = 1..(m + 1)
            /\ \A i \in 1..m : Append(q, x)[i] = q[i]
            /\ Append(q, x)[m + 1] = x
        BY <4>1
      <4>3. PICK a : a = Append(q, x)
        OBVIOUS
      <4>4. \A y : y \in ToSet(a) => y \in ToSet(q) \cup {x}
        <5>1. ASSUME NEW i \in 1..(m + 1) PROVE a[i] \in ToSet(q) \cup {x}
          <6>1. i \in 1..m \/ i = m + 1
            OBVIOUS
          <6> QED BY <4>1, <4>2, <4>3, <6>1 DEF ToSet
        <5> QED BY <4>2, <4>3, <5>1 DEF ToSet
      <4>5. \A y : y \in ToSet(q) \cup {x} => y \in ToSet(a)
        <5>1. \A i \in 1..m : i \in 1..(m + 1)
          OBVIOUS
        <5>2. m + 1 \in 1..(m + 1)
          OBVIOUS
        <5> QED BY <4>1, <4>2, <4>3, <5>1, <5>2 DEF ToSet
      <4> QED BY <4>2, <4>3, <4>4, <4>5
    <3>3. e[k + 1] \in Seq(X) /\ ToSet(e[k + 1]) = ToSet(e[k]) \cup {s[k + 1]}
      BY <2>1, <2>2, <3>1, <3>2
    <3> QED BY <2>1, <2>3, <2>4, <3>3
  <2>5. CASE ~isEquality(s[k + 1])
    BY <2>1, <2>2, <2>3, <2>5 DEF Collect
  <2> QED BY <2>4, <2>5
<1>5. n \in N
  <2> HIDE DEF N
  <2> QED BY <1>2, <1>3, <1>4, NatInd
<1>6. S(n) = ToSet(s)
  BY <1>2 DEF ToSet
<1> QED BY <1>1, <1>2, <1>5, <1>6

\* They are the same if the others are other instructions.
LEMMA FindSame ==
  ASSUME NEW X, NEW s \in Seq(X), NEW t \in Seq(X), Len(s) = Len(t),
         \A i \in 1..Len(s) : s[i] = t[i] \/ (~isEquality(s[i]) /\ ~isEquality(t[i]))
  PROVE  FoldLeft(Collect, <<>>, s) = FoldLeft(Collect, <<>>, t)
<1>1. PICK e : /\ e[0] = <<>>
               /\ \A k \in 1..Len(s) : e[k] = Collect(e[k - 1], s[k])
               /\ FoldLeft(Collect, <<>>, s) = e[Len(s)]
  BY CollectFolds
<1>2. PICK f : /\ f[0] = <<>>
               /\ \A k \in 1..Len(t) : f[k] = Collect(f[k - 1], t[k])
               /\ FoldLeft(Collect, <<>>, t) = f[Len(t)]
  BY CollectFolds
<1>3. PICK n \in Nat : n = Len(s)
  OBVIOUS
<1> DEFINE N == {k \in Nat : k <= n => e[k] = f[k]}
<1>4. 0 \in N
  BY <1>1, <1>2
<1>5. ASSUME NEW k \in Nat, k \in N PROVE k + 1 \in N
  <2> SUFFICES ASSUME k + 1 <= n PROVE e[k + 1] = f[k + 1]
    OBVIOUS
  <2>1. k + 1 \in 1..n /\ (k + 1) - 1 = k /\ e[k] = f[k]
    BY <1>3, <1>5
  <2>2. e[k + 1] = Collect(e[k], s[k + 1]) /\ f[k + 1] = Collect(e[k], t[k + 1])
    BY <1>1, <1>2, <1>3, <2>1
  <2>3. s[k + 1] = t[k + 1] \/ (~isEquality(s[k + 1]) /\ ~isEquality(t[k + 1]))
    BY <1>3, <2>1
  <2> QED BY <2>2, <2>3 DEF Collect
<1>6. n \in N
  <2> HIDE DEF N
  <2> QED BY <1>3, <1>4, <1>5, NatInd
<1> QED BY <1>1, <1>2, <1>3, <1>6

\* What is counted are the opcodes that there are.
LEMMA OpcodesAre ==
  ASSUME NEW X, NEW s \in Seq(X)
  PROVE  DOMAIN FoldLeft(CountOpcode, <<>>, s) = {x.op : x \in ToSet(s)}
<1>1. PICK e : /\ e[0] = <<>>
               /\ \A k \in 1..Len(s) : e[k] = CountOpcode(e[k - 1], s[k])
               /\ FoldLeft(CountOpcode, <<>>, s) = e[Len(s)]
  BY OpcodeFolds
<1>2. PICK n \in Nat : n = Len(s) /\ DOMAIN s = 1..n
  OBVIOUS
<1> DEFINE S(k) == {s[i].op : i \in 1..k}
           N == {k \in Nat : k <= n => DOMAIN e[k] = S(k)}
<1>3. 0 \in N
  BY <1>1
<1>4. ASSUME NEW k \in Nat, k \in N PROVE k + 1 \in N
  <2> SUFFICES ASSUME k + 1 <= n PROVE DOMAIN e[k + 1] = S(k + 1)
    OBVIOUS
  <2>1. k + 1 \in 1..n /\ (k + 1) - 1 = k /\ DOMAIN e[k] = S(k)
    BY <1>2, <1>4
  <2>2. e[k + 1] = CountOpcode(e[k], s[k + 1])
    BY <1>1, <1>2, <2>1
  <2>3. S(k + 1) = S(k) \cup {s[k + 1].op}
    <3>1. 1..(k + 1) = (1..k) \cup {k + 1}
      OBVIOUS
    <3> QED BY <3>1
  <2> HIDE DEF S
  <2>4. \A map, ins : DOMAIN CountOpcode(map, ins) = DOMAIN map \cup {ins.op}
    BY DEF CountOpcode, Put
  <2> QED BY <2>1, <2>2, <2>3, <2>4
<1>5. n \in N
  <2> HIDE DEF N
  <2> QED BY <1>2, <1>3, <1>4, NatInd
<1>6. S(n) = {x.op : x \in ToSet(s)}
  BY <1>2 DEF ToSet
<1>7. DOMAIN e[n] = S(n)
  BY <1>5
<1> HIDE DEF S
<1> QED BY <1>1, <1>2, <1>6, <1>7

\* What is among the flattened is in one of the sequences.
LEMMA FlattenMembers ==
  ASSUME NEW X, NEW ss \in Seq(Seq(X))
  PROVE  /\ \A x \in ToSet(FlattenSeq(ss)) : \E k \in DOMAIN ss : x \in ToSet(ss[k])
         /\ \A k \in DOMAIN ss : \A i \in DOMAIN ss[k] : ss[k][i] \in ToSet(FlattenSeq(ss))
<1> DEFINE f == FlattenSeq(ss)
<1>1. PICK p \in Bijection(Places(ss), 1..Len(f)) : \A q \in Places(ss) : f[p[q]] = ss[q[1]][q[2]]
  BY FlattenPlaces
<1>2. f \in Seq(X)
  BY FlattenPlaces
<1> HIDE DEF f
<1>3. DOMAIN f = 1..Len(f)
  BY <1>2
<1>4. ASSUME NEW x \in ToSet(f) PROVE \E k \in DOMAIN ss : x \in ToSet(ss[k])
  <2>1. PICK n \in 1..Len(f) : x = f[n]
    BY <1>3 DEF ToSet
  <2>2. PICK q \in Places(ss) : p[q] = n
    BY <1>1 DEF Bijection, Surjection
  <2>3. PICK k \in DOMAIN ss : q \in {<<k, j>> : j \in DOMAIN ss[k]}
    BY DEF Places
  <2>4. PICK j \in DOMAIN ss[k] : q = <<k, j>>
    BY <2>3
  <2> QED BY <1>1, <2>1, <2>2, <2>4 DEF ToSet
<1>5. ASSUME NEW k \in DOMAIN ss, NEW i \in DOMAIN ss[k] PROVE ss[k][i] \in ToSet(f)
  <2>1. <<k, i>> \in Places(ss)
    BY DEF Places
  <2>2. p[<<k, i>>] \in 1..Len(f) /\ f[p[<<k, i>>]] = ss[k][i]
    BY <1>1, <2>1 DEF Bijection, Surjection
  <2> QED BY <1>3, <2>2 DEF ToSet
<1> QED BY <1>4, <1>5 DEF f

\* What replaces instructions is all there is, and all of it is there.
LEMMA EachMembers ==
  ASSUME NEW Y, NEW Z, NEW r \in Makers(Y, Z), NEW s \in Seq(Y)
  PROVE  /\ \A x \in ToSet(Each(r, s)) : \E y \in ToSet(s) : x \in ToSet(r[y])
         /\ \A y \in ToSet(s) : ToSet(r[y]) \subseteq ToSet(Each(r, s))
<1> DEFINE ss == [i \in DOMAIN s |-> r[s[i]]]
<1>1. ss \in Seq(Seq(Z))
  BY EachType
<1>2. DOMAIN ss = DOMAIN s /\ \A i \in DOMAIN s : ss[i] = r[s[i]]
  OBVIOUS
<1>3. Each(r, s) = FlattenSeq(ss)
  BY DEF Each
<1> HIDE DEF ss
<1>4. /\ \A x \in ToSet(FlattenSeq(ss)) : \E k \in DOMAIN ss : x \in ToSet(ss[k])
      /\ \A k \in DOMAIN ss : \A i \in DOMAIN ss[k] : ss[k][i] \in ToSet(FlattenSeq(ss))
  BY <1>1, FlattenMembers
<1>5. ASSUME NEW x \in ToSet(Each(r, s)) PROVE \E y \in ToSet(s) : x \in ToSet(r[y])
  <2>1. PICK i \in DOMAIN s : x \in ToSet(r[s[i]])
    BY <1>2, <1>3, <1>4
  <2>2. s[i] \in ToSet(s)
    BY DEF ToSet
  <2> QED BY <2>1, <2>2
<1>6. ASSUME NEW y \in ToSet(s) PROVE ToSet(r[y]) \subseteq ToSet(Each(r, s))
  <2>1. PICK i \in DOMAIN s : y = s[i]
    BY DEF ToSet
  <2>2. \A j \in DOMAIN r[y] : r[y][j] \in ToSet(Each(r, s))
    BY <1>2, <1>3, <1>4, <2>1
  <2> QED BY <2>2 DEF ToSet
<1> QED BY <1>5, <1>6
-----------------------------------------------------------------------------
(* The transformations of what the passes have made.                        *)

\* The rewriting of each transformation: mba-sub, convert-fcmp-eq and the
\* Secret pass.
Subtracted == [x \in Pieces(Written) |-> IF isSub(x) THEN Substitute(x) ELSE <<x>>]
Converted  == [x \in Pieces(Written) |-> IF isEquality(x) THEN convertFCmpEqInstruction(x) ELSE <<x>>]
Selected   == [x \in Pieces(Written) |-> <<IF x.op = "phi" THEN [x EXCEPT !.op = "select"] ELSE x>>]

\* They make pieces of pieces.
LEMMA MakersAre ==
  /\ Subtracted \in Makers(Pieces(Written), Pieces(Pieces(Written)))
  /\ Converted \in Makers(Pieces(Written), Pieces(Pieces(Written)))
  /\ Selected \in Makers(Pieces(Written), Pieces(Pieces(Written)))
<1>1. ASSUME NEW x \in Pieces(Written)
      PROVE  /\ Substitute(x) \in Seq(Pieces(Pieces(Written)))
             /\ convertFCmpEqInstruction(x) \in Seq(Pieces(Pieces(Written)))
             /\ <<[x EXCEPT !.op = "select"]>> \in Seq(Pieces(Pieces(Written)))
             /\ <<x>> \in Seq(Pieces(Pieces(Written)))
  BY PiecesAre DEF AsSelect
<1> QED BY <1>1 DEF Makers, Subtracted, Converted, Selected

\* The new instructions are of other kinds.
LEMMA NewKinds ==
  ASSUME NEW x \in Written
  PROVE  /\ DOMAIN Substitute(x) = 1..3
         /\ \A j \in 1..3 : Substitute(x)[j].op \in {"xor", "add"}
         /\ DOMAIN convertFCmpEqInstruction(x) = 1..5
         /\ isEquality(x) => \A j \in 1..5 : /\ convertFCmpEqInstruction(x)[j].op \in {"fsub", "bitcast", "and", "fcmp"}
                                             /\ ~isEquality(convertFCmpEqInstruction(x)[j])
         /\ DOMAIN AsSelect(x) = 1..1 /\ AsSelect(x)[1].op = "select"
         /\ DOMAIN <<x>> = 1..1 /\ <<x>>[1] = x
<1>1. DOMAIN Substitute(x) = 1..3 /\ \A j \in 1..3 : Substitute(x)[j].op \in {"xor", "add"}
  BY DEF Substitute, Instr
<1>2. DOMAIN convertFCmpEqInstruction(x) = 1..5
  BY DEF convertFCmpEqInstruction
<1>3. ASSUME isEquality(x), NEW j \in 1..5
      PROVE  /\ convertFCmpEqInstruction(x)[j].op \in {"fsub", "bitcast", "and", "fcmp"}
             /\ ~isEquality(convertFCmpEqInstruction(x)[j])
  <2>1. j \in {1, 2, 3, 4} \/ j = 5
    OBVIOUS
  <2>2. CASE j \in {1, 2, 3, 4}
    BY <2>2 DEF convertFCmpEqInstruction, Instr, isEquality
  <2>3. CASE j = 5
    <3>1. CmpPred(x.pred) \in {"olt", "ult", "oge", "uge"}
      BY <1>3 DEF CmpPred, isEquality
    <3>2. \E n, t, o, q, w : x = [name |-> n, ty |-> t, op |-> o, pred |-> q, args |-> w]
      BY DEF Written
    <3>6. PICK n, t, o, q, w : x = [name |-> n, ty |-> t, op |-> o, pred |-> q, args |-> w]
      BY <3>2
    <3>3. \E a : convertFCmpEqInstruction(x)[5] = [x EXCEPT !.pred = CmpPred(x.pred), !.args = a]
      BY DEF convertFCmpEqInstruction
    <3>4. PICK a : convertFCmpEqInstruction(x)[5] = [x EXCEPT !.pred = CmpPred(x.pred), !.args = a]
      BY <3>3
    <3>5. \A m : [x EXCEPT !.pred = m, !.args = a] = [name |-> n, ty |-> t, op |-> o, pred |-> m, args |-> a]
      <4> SUFFICES ASSUME NEW m
                   PROVE  [x EXCEPT !.pred = m, !.args = a] = [name |-> n, ty |-> t, op |-> o, pred |-> m, args |-> a]
        OBVIOUS
      <4>1. [x EXCEPT !.pred = m] = [name |-> n, ty |-> t, op |-> o, pred |-> m, args |-> w]
        BY <3>6
      <4>2. \A y : y = [name |-> n, ty |-> t, op |-> o, pred |-> m, args |-> w] =>
                  [y EXCEPT !.args = a] = [name |-> n, ty |-> t, op |-> o, pred |-> m, args |-> a]
        OBVIOUS
      <4>3. [x EXCEPT !.pred = m, !.args = a] = [[x EXCEPT !.pred = m] EXCEPT !.args = a]
        OBVIOUS
      <4> QED BY <4>1, <4>2, <4>3
    <3>7. convertFCmpEqInstruction(x)[5] = [name |-> n, ty |-> t, op |-> o, pred |-> CmpPred(x.pred), args |-> a]
      BY <3>4, <3>5
    <3>8. o = "fcmp"
      BY <1>3, <3>6 DEF isEquality
    <3> QED BY <2>3, <3>1, <3>7, <3>8 DEF isEquality
  <2> QED BY <2>1, <2>2, <2>3
<1>4. AsSelect(x)[1].op = "select" /\ DOMAIN AsSelect(x) = 1..1
  BY DEF AsSelect, Written
<1> QED BY <1>1, <1>2, <1>3, <1>4

\* Of what an instruction has become, a transformation changes what it would
\* have changed of the instruction.
LEMMA SubtractedIs ==
  ASSUME NEW ins \in Written, NEW ran
  PROVE  /\ Each(Subtracted, Became(ins, ran)) = Became(ins, ran \cup {"mba-sub"})
         /\ Each(Converted, Became(ins, ran)) = Became(ins, ran \cup {"convert-fcmp-eq"})
         /\ Each(Selected, Became(ins, ran)) = Became(ins, ran \cup {"inputsVector"})
<1> DEFINE b == Became(ins, ran)
           P == Pieces(Written)
<1>1. b \in Seq(P) /\ \A i \in DOMAIN b : b[i] \in P
  <2>1. b \in Seq(P)
    BY BecameType
  <2> HIDE DEF b, P
  <2> QED BY <2>1
<1>2. ins \in P
  BY DEF Pieces
<1>3. /\ \A q \in Seq(P) : (\A i \in DOMAIN q : Subtracted[q[i]] = <<q[i]>>) => Each(Subtracted, q) = q
      /\ \A x \in P : Each(Subtracted, <<x>>) = Subtracted[x]
  BY MakersAre, EachOf
<1>4. /\ \A q \in Seq(P) : (\A i \in DOMAIN q : Converted[q[i]] = <<q[i]>>) => Each(Converted, q) = q
      /\ \A x \in P : Each(Converted, <<x>>) = Converted[x]
  BY MakersAre, EachOf
<1>5. /\ \A q \in Seq(P) : (\A i \in DOMAIN q : Selected[q[i]] = <<q[i]>>) => Each(Selected, q) = q
      /\ \A x \in P : Each(Selected, <<x>>) = Selected[x]
  BY MakersAre, EachOf
<1>6. \A x \in P : /\ ~isSub(x) => Subtracted[x] = <<x>>
                   /\ ~isEquality(x) => Converted[x] = <<x>>
                   /\ x.op # "phi" => Selected[x] = <<x>>
  BY DEF Subtracted, Converted, Selected
<1> HIDE DEF P
<1>7. b = <<ins>> => Each(Subtracted, b) = Subtracted[ins] /\ Each(Converted, b) = Converted[ins] /\ Each(Selected, b) = Selected[ins]
  BY <1>2, <1>3, <1>4, <1>5
<1>8. CASE "mba-sub" \in ran /\ isSub(ins)
  <2>1. b = Substitute(ins)
    BY <1>8 DEF Became
  <2>2. \A i \in DOMAIN b : ~isSub(b[i]) /\ ~isEquality(b[i]) /\ b[i].op # "phi"
    BY <2>1, NewKinds DEF isSub, isEquality
  <2>3. Each(Subtracted, b) = b /\ Each(Converted, b) = b /\ Each(Selected, b) = b
    <3> HIDE DEF b
    <3> QED BY <1>1, <1>3, <1>4, <1>5, <1>6, <2>2
  <2> QED BY <1>8, <2>1, <2>3 DEF Became
<1>9. CASE ~("mba-sub" \in ran /\ isSub(ins)) /\ "convert-fcmp-eq" \in ran /\ isEquality(ins)
  <2>1. b = convertFCmpEqInstruction(ins)
    BY <1>9 DEF Became
  <2>2. \A i \in DOMAIN b : ~isSub(b[i]) /\ ~isEquality(b[i]) /\ b[i].op # "phi"
    <3>1. DOMAIN b = 1..5 /\ \A i \in 1..5 : b[i].op \in {"fsub", "bitcast", "and", "fcmp"} /\ ~isEquality(b[i])
      <4>1. /\ DOMAIN convertFCmpEqInstruction(ins) = 1..5
            /\ isEquality(ins) =>
                 \A i \in 1..5 : /\ convertFCmpEqInstruction(ins)[i].op \in {"fsub", "bitcast", "and", "fcmp"}
                                  /\ ~isEquality(convertFCmpEqInstruction(ins)[i])
        BY NewKinds
      <4> HIDE DEF b
      <4> QED BY <1>9, <2>1, <4>1
    <3> HIDE DEF b
    <3> QED BY <3>1 DEF isSub
  <2>3. Each(Subtracted, b) = b /\ Each(Converted, b) = b /\ Each(Selected, b) = b
    <3> HIDE DEF b
    <3> QED BY <1>1, <1>3, <1>4, <1>5, <1>6, <2>2
  <2>4. ~isSub(ins)
    BY <1>9 DEF isSub, isEquality
  <2> QED BY <1>9, <2>1, <2>3, <2>4 DEF Became
<1>10. CASE ~("mba-sub" \in ran /\ isSub(ins)) /\ ~("convert-fcmp-eq" \in ran /\ isEquality(ins)) /\ "inputsVector" \in ran /\ ins.op = "phi"
  <2>1. b = AsSelect(ins)
    BY <1>10 DEF Became
  <2>2. \A i \in DOMAIN b : ~isSub(b[i]) /\ ~isEquality(b[i]) /\ b[i].op # "phi"
    BY <2>1, NewKinds DEF isSub, isEquality
  <2>3. Each(Subtracted, b) = b /\ Each(Converted, b) = b /\ Each(Selected, b) = b
    <3> HIDE DEF b
    <3> QED BY <1>1, <1>3, <1>4, <1>5, <1>6, <2>2
  <2>4. ~isSub(ins) /\ ~isEquality(ins)
    BY <1>10 DEF isSub, isEquality
  <2> QED BY <1>10, <2>1, <2>3, <2>4 DEF Became
<1>11. CASE ~("mba-sub" \in ran /\ isSub(ins)) /\ ~("convert-fcmp-eq" \in ran /\ isEquality(ins)) /\ ~("inputsVector" \in ran /\ ins.op = "phi")
  <2>1. b = <<ins>>
    BY <1>11 DEF Became
  <2>2. ~(isSub(ins) /\ isEquality(ins)) /\ (ins.op = "phi" => ~isSub(ins) /\ ~isEquality(ins))
    BY DEF isSub, isEquality
  <2>3. Subtracted[ins] = Became(ins, ran \cup {"mba-sub"})
    BY <1>2, <1>11, <2>2 DEF Subtracted, Became, P
  <2>4. Converted[ins] = Became(ins, ran \cup {"convert-fcmp-eq"})
    BY <1>2, <1>11, <2>2 DEF Converted, Became, P
  <2>5. Selected[ins] = Became(ins, ran \cup {"inputsVector"})
    BY <1>2, <1>11, <2>2 DEF Selected, Became, AsSelect, P
  <2> QED BY <1>7, <2>1, <2>3, <2>4, <2>5
<1> QED BY <1>8, <1>9, <1>10, <1>11

\* One more transformation is one more pass that has been run.
LEMMA MappedApplied ==
  ASSUME NEW f, Shaped(f, Written), NEW ran
  PROVE  /\ Mapped(Applied(f, ran), Subtracted) = Applied(f, ran \cup {"mba-sub"})
         /\ Mapped(Applied(f, ran), Converted) = Applied(f, ran \cup {"convert-fcmp-eq"})
         /\ Mapped(Applied(f, ran), Selected) = Applied(f, ran \cup {"inputsVector"})
<1>1. PICK r : r = Made(ran)
  OBVIOUS
<1>2. PICK t : t = Made(ran \cup {"mba-sub"})
  OBVIOUS
<1>3. PICK u : u = Made(ran \cup {"convert-fcmp-eq"})
  OBVIOUS
<1>4. PICK v : v = Made(ran \cup {"inputsVector"})
  OBVIOUS
<1>5. \A ins \in Written : /\ r[ins] = Became(ins, ran) /\ t[ins] = Became(ins, ran \cup {"mba-sub"})
                          /\ u[ins] = Became(ins, ran \cup {"convert-fcmp-eq"}) /\ v[ins] = Became(ins, ran \cup {"inputsVector"})
  BY <1>1, <1>2, <1>3, <1>4 DEF Made
<1>13. \A ins \in Written : /\ Each(Subtracted, Became(ins, ran)) = Became(ins, ran \cup {"mba-sub"})
                           /\ Each(Converted, Became(ins, ran)) = Became(ins, ran \cup {"convert-fcmp-eq"})
                           /\ Each(Selected, Became(ins, ran)) = Became(ins, ran \cup {"inputsVector"})
  BY SubtractedIs
<1>6. \A ins \in Written : Each(Subtracted, r[ins]) = t[ins]
  BY <1>5, <1>13
<1>7. \A ins \in Written : Each(Converted, r[ins]) = u[ins]
  BY <1>5, <1>13
<1>8. \A ins \in Written : Each(Selected, r[ins]) = v[ins]
  BY <1>5, <1>13
<1>9. r \in Makers(Written, Pieces(Written))
  BY <1>1, MadeType
<1>10. Mapped(Mapped(f, r), Subtracted) = Mapped(f, t)
  BY <1>6, <1>9, MakersAre, MappedTwice
<1>11. Mapped(Mapped(f, r), Converted) = Mapped(f, u)
  BY <1>7, <1>9, MakersAre, MappedTwice
<1>12. Mapped(Mapped(f, r), Selected) = Mapped(f, v)
  BY <1>8, <1>9, MakersAre, MappedTwice
<1> QED BY <1>1, <1>2, <1>3, <1>4, <1>10, <1>11, <1>12 DEF Applied

\* The instructions of a function are in its blocks.
LEMMA InstructionsIn ==
  ASSUME NEW Y, NEW f, Shaped(f, Y)
  PROVE  /\ Instructions(f) \in Seq(Y) /\ ToSet(Instructions(f)) \subseteq Y
         /\ \A k \in DOMAIN f.blocks : /\ f.blocks[k] \in Seq(Y)
                                       /\ \A i \in DOMAIN f.blocks[k] : f.blocks[k][i] \in ToSet(Instructions(f))
<1>1. f.blocks \in Seq(Seq(Y))
  BY DEF Shaped
<1>2. PICK B \in Seq(Seq(Y)) : B = f.blocks
  BY <1>1
<1>3. FlattenSeq(B) \in Seq(Y) /\ Instructions(f) = FlattenSeq(B)
  BY <1>2, FlattenPlaces DEF Instructions
<1>4. \A k \in DOMAIN B : \A i \in DOMAIN B[k] : B[k][i] \in ToSet(FlattenSeq(B))
  BY FlattenMembers
<1>5. \A k \in DOMAIN B : B[k] \in Seq(Y)
  OBVIOUS
<1>6. ToSet(FlattenSeq(B)) \subseteq Y
  BY <1>3 DEF ToSet
<1> QED BY <1>2, <1>3, <1>4, <1>5, <1>6

\* What leaves all instructions of a function alone leaves the function.
LEMMA MappedSame ==
  ASSUME NEW Y, NEW Z, NEW g \in Makers(Y, Z), NEW f, Shaped(f, Y)
  PROVE  (\A x \in ToSet(Instructions(f)) : g[x] = <<x>>) => Mapped(f, g) = f
<1>1. f.blocks \in Seq(Seq(Y)) /\ f = [optnone |-> f.optnone, blocks |-> f.blocks]
  BY DEF Shaped
<1>2. PICK B \in Seq(Seq(Y)) : B = f.blocks
  BY <1>1
<1>4. ASSUME \A x \in ToSet(Instructions(f)) : g[x] = <<x>> PROVE Mapped(f, g) = f
  <2>1. ASSUME NEW k \in DOMAIN B PROVE Each(g, B[k]) = B[k]
    <3>1. B[k] \in Seq(Y) /\ \A i \in DOMAIN B[k] : B[k][i] \in ToSet(Instructions(f))
      BY <1>2, InstructionsIn
    <3>2. \A i \in DOMAIN B[k] : g[B[k][i]] = <<B[k][i]>>
      BY <1>4, <3>1
    <3> QED BY <3>1, <3>2, EachOf
  <2>2. [k \in DOMAIN B |-> Each(g, B[k])] = B
    BY <2>1
  <2> QED BY <1>1, <1>2, <2>2 DEF Mapped
<1> QED BY <1>4
-----------------------------------------------------------------------------
(* The analyses of what the passes have made.                               *)

\* What the passes are, as they change the function.
LEMMA PassesMap ==
  ASSUME Shaped(F, Pieces(Written))
  PROVE  /\ MapBlocks(LAMBDA ins : IF isSub(ins) THEN Substitute(ins) ELSE <<ins>>) = Mapped(F, Subtracted)
         /\ MapBlocks(LAMBDA ins : <<IF ins.op = "phi" THEN [ins EXCEPT !.op = "select"] ELSE ins>>)
              = Mapped(F, Selected)
         /\ (\A x \in ToSet(Instructions(F)) : x \in ToSet(Comparisons) <=> isEquality(x)) =>
              MapBlocks(LAMBDA ins : IF ins \in ToSet(Comparisons) THEN convertFCmpEqInstruction(ins) ELSE <<ins>>)
                = Mapped(F, Converted)
<1>1. \E o, B : F = [optnone |-> o, blocks |-> B]
  BY DEF Shaped
<1>2. PICK o, B : F = [optnone |-> o, blocks |-> B]
  BY <1>1
<1>3. \A C : [F EXCEPT !.blocks = C] = [optnone |-> F.optnone, blocks |-> C]
  BY <1>2
<1>4. \A k \in DOMAIN F.blocks : \A i \in DOMAIN F.blocks[k] :
        F.blocks[k][i] \in Pieces(Written) /\ F.blocks[k][i] \in ToSet(Instructions(F))
  BY InstructionsIn
<1>5. MapBlocks(LAMBDA ins : IF isSub(ins) THEN Substitute(ins) ELSE <<ins>>) = Mapped(F, Subtracted)
  <2>1. MapBlocks(LAMBDA ins : IF isSub(ins) THEN Substitute(ins) ELSE <<ins>>) =
          [F EXCEPT !.blocks = [k \in DOMAIN F.blocks |->
             FlattenSeq([i \in DOMAIN F.blocks[k] |->
               IF isSub(F.blocks[k][i]) THEN Substitute(F.blocks[k][i]) ELSE <<F.blocks[k][i]>>])]]
    BY DEF MapBlocks
  <2>2. ASSUME NEW k \in DOMAIN F.blocks
        PROVE  [i \in DOMAIN F.blocks[k] |->
                 IF isSub(F.blocks[k][i]) THEN Substitute(F.blocks[k][i]) ELSE <<F.blocks[k][i]>>]
                 = [i \in DOMAIN F.blocks[k] |-> Subtracted[F.blocks[k][i]]]
    BY <1>4 DEF Subtracted
  <2>3. [k \in DOMAIN F.blocks |->
             FlattenSeq([i \in DOMAIN F.blocks[k] |->
               IF isSub(F.blocks[k][i]) THEN Substitute(F.blocks[k][i]) ELSE <<F.blocks[k][i]>>])]
          = [k \in DOMAIN F.blocks |-> Each(Subtracted, F.blocks[k])]
    BY <2>2 DEF Each
  <2> QED BY <1>3, <2>1, <2>3 DEF Mapped
<1>6. MapBlocks(LAMBDA ins : <<IF ins.op = "phi" THEN [ins EXCEPT !.op = "select"] ELSE ins>>) = Mapped(F, Selected)
  <2>1. MapBlocks(LAMBDA ins : <<IF ins.op = "phi" THEN [ins EXCEPT !.op = "select"] ELSE ins>>) =
          [F EXCEPT !.blocks = [k \in DOMAIN F.blocks |->
             FlattenSeq([i \in DOMAIN F.blocks[k] |->
               <<IF F.blocks[k][i].op = "phi" THEN [F.blocks[k][i] EXCEPT !.op = "select"] ELSE F.blocks[k][i]>>])]]
    BY DEF MapBlocks
  <2>2. ASSUME NEW k \in DOMAIN F.blocks
        PROVE  [i \in DOMAIN F.blocks[k] |->
                 <<IF F.blocks[k][i].op = "phi" THEN [F.blocks[k][i] EXCEPT !.op = "select"] ELSE F.blocks[k][i]>>]
                 = [i \in DOMAIN F.blocks[k] |-> Selected[F.blocks[k][i]]]
    BY <1>4 DEF Selected
  <2>3. [k \in DOMAIN F.blocks |->
             FlattenSeq([i \in DOMAIN F.blocks[k] |->
               <<IF F.blocks[k][i].op = "phi" THEN [F.blocks[k][i] EXCEPT !.op = "select"] ELSE F.blocks[k][i]>>])]
          = [k \in DOMAIN F.blocks |-> Each(Selected, F.blocks[k])]
    BY <2>2 DEF Each
  <2> QED BY <1>3, <2>1, <2>3 DEF Mapped
<1>7. ASSUME \A x \in ToSet(Instructions(F)) : x \in ToSet(Comparisons) <=> isEquality(x)
      PROVE  MapBlocks(LAMBDA ins : IF ins \in ToSet(Comparisons) THEN convertFCmpEqInstruction(ins) ELSE <<ins>>)
               = Mapped(F, Converted)
  <2>1. MapBlocks(LAMBDA ins : IF ins \in ToSet(Comparisons) THEN convertFCmpEqInstruction(ins) ELSE <<ins>>) =
          [F EXCEPT !.blocks = [k \in DOMAIN F.blocks |->
             FlattenSeq([i \in DOMAIN F.blocks[k] |->
               IF F.blocks[k][i] \in ToSet(Comparisons) THEN convertFCmpEqInstruction(F.blocks[k][i])
               ELSE <<F.blocks[k][i]>>])]]
    BY DEF MapBlocks
  <2>2. ASSUME NEW k \in DOMAIN F.blocks
        PROVE  [i \in DOMAIN F.blocks[k] |->
                 IF F.blocks[k][i] \in ToSet(Comparisons) THEN convertFCmpEqInstruction(F.blocks[k][i])
                 ELSE <<F.blocks[k][i]>>]
                 = [i \in DOMAIN F.blocks[k] |-> Converted[F.blocks[k][i]]]
    BY <1>4, <1>7 DEF Converted
  <2>3. [k \in DOMAIN F.blocks |->
             FlattenSeq([i \in DOMAIN F.blocks[k] |->
               IF F.blocks[k][i] \in ToSet(Comparisons) THEN convertFCmpEqInstruction(F.blocks[k][i])
               ELSE <<F.blocks[k][i]>>])]
          = [k \in DOMAIN F.blocks |-> Each(Converted, F.blocks[k])]
    BY <2>2 DEF Each
  <2> QED BY <1>3, <2>1, <2>3 DEF Mapped
<1> QED BY <1>5, <1>6, <1>7

\* What the analyses answer of a function.
LEMMA AnalysesAre ==
  ASSUME NEW Y, NEW f, Shaped(f, Y)
  PROVE  /\ FindFCmpEq(f) \in Seq(Y)
         /\ ToSet(FindFCmpEq(f)) = {x \in ToSet(Instructions(f)) : isEquality(x)}
         /\ DOMAIN generateOpcodeMap(f) = {x.op : x \in ToSet(Instructions(f))}
BY InstructionsIn, FindIs, OpcodesAre DEF FindFCmpEq, generateOpcodeMap

\* Nothing that was converted is a comparison for equality.
LEMMA ConvertedHasNone ==
  ASSUME NEW f, Shaped(f, Written), NEW ran
  PROVE  \A x \in ToSet(Instructions(Applied(f, ran \cup {"convert-fcmp-eq"}))) : ~isEquality(x)
<1> DEFINE all == ran \cup {"convert-fcmp-eq"}
<1>1. Made(all) \in Makers(Written, Pieces(Written))
  BY MadeType
<1>2. Instructions(f) \in Seq(Written) /\ ToSet(Instructions(f)) \subseteq Written
  BY InstructionsIn
<1>3. Instructions(Applied(f, all)) = Each(Made(all), Instructions(f))
  BY <1>1, MappedType DEF Applied
<1>4. ASSUME NEW x \in ToSet(Instructions(Applied(f, all))) PROVE ~isEquality(x)
  <2>1. PICK y \in ToSet(Instructions(f)) : x \in ToSet(Made(all)[y])
    BY <1>1, <1>2, <1>3, <1>4, EachMembers
  <2>2. y \in Written /\ Made(all)[y] = Became(y, all)
    BY <1>2 DEF Made
  <2>3. PICK i \in DOMAIN Became(y, all) : x = Became(y, all)[i]
    BY <2>1, <2>2 DEF ToSet
  <2>4. "convert-fcmp-eq" \in all
    OBVIOUS
  <2> HIDE DEF all
  <2>5. CASE "mba-sub" \in all /\ isSub(y)
    BY <2>2, <2>3, <2>5, NewKinds DEF Became, isEquality
  <2>6. CASE ~("mba-sub" \in all /\ isSub(y)) /\ isEquality(y)
    <3>1. Became(y, all) = convertFCmpEqInstruction(y)
      BY <2>4, <2>6 DEF Became
    <3>2. \A j \in DOMAIN convertFCmpEqInstruction(y) : ~isEquality(convertFCmpEqInstruction(y)[j])
      BY <2>2, <2>6, NewKinds
    <3> QED BY <2>3, <3>1, <3>2
  <2>7. CASE ~("mba-sub" \in all /\ isSub(y)) /\ ~isEquality(y)
    <3>1. Became(y, all) = AsSelect(y) \/ Became(y, all) = <<y>>
      BY <2>7 DEF Became
    <3>2. CASE Became(y, all) = AsSelect(y)
      BY <2>2, <2>3, <3>2, NewKinds DEF isEquality
    <3>3. CASE Became(y, all) = <<y>>
      BY <2>2, <2>3, <2>7, <3>3, NewKinds
    <3> QED BY <3>1, <3>2, <3>3
  <2> QED BY <2>5, <2>6, <2>7
<1> QED BY <1>4

\* Whatever instructions become has an opcode.
LEMMA PiecesHaveOp == \A x \in Pieces(Written) : "op" \in DOMAIN x
<1>1. \A x \in Written : "op" \in DOMAIN x
  BY DEF Written
<1>2. ASSUME NEW x \in Written, NEW j \in 1..3 PROVE "op" \in DOMAIN Substitute(x)[j]
  <2>1. j = 1 \/ j = 2 \/ j = 3
    OBVIOUS
  <2> QED BY <2>1 DEF Substitute, Instr
<1>3. ASSUME NEW x \in Written, NEW j \in 1..5 PROVE "op" \in DOMAIN convertFCmpEqInstruction(x)[j]
  <2>1. j \in {1, 2, 3, 4} \/ j = 5
    OBVIOUS
  <2>2. CASE j \in {1, 2, 3, 4}
    BY <2>2 DEF convertFCmpEqInstruction, Instr
  <2>3. CASE j = 5
    <3>1. \E m, a : convertFCmpEqInstruction(x)[5] = [x EXCEPT !.pred = m, !.args = a]
      BY DEF convertFCmpEqInstruction
    <3>2. \A m, a : DOMAIN [x EXCEPT !.pred = m, !.args = a] = DOMAIN x
      OBVIOUS
    <3> QED BY <1>1, <2>3, <3>1, <3>2
  <2> QED BY <2>1, <2>2, <2>3
<1>4. ASSUME NEW x \in Written PROVE "op" \in DOMAIN AsSelect(x)[1]
  <2>1. AsSelect(x)[1] = [x EXCEPT !.op = "select"]
    BY DEF AsSelect
  <2> QED BY <1>1, <2>1
<1> QED BY <1>1, <1>2, <1>3, <1>4 DEF Pieces

\* The Secret pass leaves the comparisons, and no phi.
LEMMA SelectedIs ==
  ASSUME NEW f, Shaped(f, Pieces(Written)), NEW h, h = Mapped(f, Selected)
  PROVE  /\ FindFCmpEq(h) = FindFCmpEq(f)
         /\ \A x \in ToSet(Instructions(h)) : x.op # "phi"
         /\ (\A x \in ToSet(Instructions(f)) : x.op # "phi") => h = f
<1> DEFINE P == Pieces(Written)
           I == Instructions(f)
           sel(x) == IF x.op = "phi" THEN [x EXCEPT !.op = "select"] ELSE x
           J == [i \in DOMAIN I |-> sel(I[i])]
<1>1. I \in Seq(P) /\ ToSet(I) \subseteq P /\ Selected \in Makers(P, Pieces(P))
  BY InstructionsIn, MakersAre
<1>2. PICK n \in Nat : n = Len(I) /\ DOMAIN I = 1..n /\ \A i \in 1..n : I[i] \in P /\ I[i] \in ToSet(I)
  <2> HIDE DEF I, P
  <2> QED BY <1>1 DEF ToSet
<1>3. \A x \in P : Selected[x] = <<sel(x)>> /\ sel(x) \in Pieces(P) /\ x \in Pieces(P)
  <2>1. ASSUME NEW x \in P PROVE [x EXCEPT !.op = "select"] \in Pieces(P) /\ x \in Pieces(P)
    <3>1. AsSelect(x)[1] = [x EXCEPT !.op = "select"]
      BY DEF AsSelect
    <3> HIDE DEF P
    <3> QED BY <3>1 DEF Pieces
  <2> QED BY <2>1 DEF Selected
<1>4. Instructions(h) = J
  <2>1. Instructions(h) = Each(Selected, I)
    BY <1>1, MappedType
  <2>2. J \in Seq(Pieces(P)) /\ DOMAIN J = DOMAIN I
    <3> HIDE DEF I, P, sel
    <3> QED BY <1>2, <1>3
  <2>3. [i \in DOMAIN I |-> Selected[I[i]]] = [i \in DOMAIN J |-> <<J[i]>>]
    <3>1. \A i \in DOMAIN I : Selected[I[i]] = <<J[i]>>
      <4> HIDE DEF I, P, sel
      <4> QED BY <1>2, <1>3
    <3> HIDE DEF I, J
    <3> QED BY <2>2, <3>1
  <2> HIDE DEF I, J, P
  <2> QED BY <2>1, <2>2, <2>3, FlattenSingles DEF Each
<1>5. J \in Seq(Pieces(P)) /\ I \in Seq(Pieces(P)) /\ Len(J) = n
  <2> HIDE DEF I, P, sel
  <2> QED BY <1>2, <1>3, <1>1
<1>6. \A i \in 1..n : I[i] = J[i] \/ (~isEquality(I[i]) /\ ~isEquality(J[i]))
  <2> SUFFICES ASSUME NEW i \in 1..n, I[i].op = "phi" PROVE ~isEquality(I[i]) /\ ~isEquality(J[i])
    BY <1>2
  <2>1. J[i] = [I[i] EXCEPT !.op = "select"]
    BY <1>2
  <2> HIDE DEF I, J
  <2>2. "op" \in DOMAIN I[i] => J[i].op = "select"
    BY <2>1
  <2>3. "op" \in DOMAIN I[i]
    BY <1>2, PiecesHaveOp
  <2> QED BY <2>2, <2>3 DEF isEquality
<1>7. FindFCmpEq(h) = FindFCmpEq(f)
  <2> HIDE DEF I, J, P
  <2>1. \A i \in 1..Len(J) : J[i] = I[i] \/ (~isEquality(J[i]) /\ ~isEquality(I[i]))
    BY <1>5, <1>6
  <2>2. Len(J) = Len(I)
    BY <1>2, <1>5
  <2>3. FoldLeft(Collect, <<>>, J) = FoldLeft(Collect, <<>>, I)
    BY <1>5, <2>1, <2>2, FindSame
  <2> QED BY <1>4, <2>3 DEF FindFCmpEq, I
<1>8. ASSUME NEW x \in ToSet(Instructions(h)) PROVE x.op # "phi"
  <2>1. PICK i \in 1..n : x = J[i] /\ J[i] = sel(I[i])
    <3> HIDE DEF sel, I
    <3> QED BY <1>2, <1>4, <1>8 DEF ToSet
  <2>2. PICK y \in P : y = I[i]
    <3> HIDE DEF I, P
    <3> QED BY <1>2
  <2>3. "op" \in DOMAIN y
    BY <2>2, PiecesHaveOp
  <2>4. x = IF y.op = "phi" THEN [y EXCEPT !.op = "select"] ELSE y
    BY <2>1, <2>2
  <2>5. [y EXCEPT !.op = "select"].op = "select"
    BY <2>3
  <2> QED BY <2>4, <2>5
<1>9. (\A x \in ToSet(Instructions(f)) : x.op # "phi") => h = f
  <2>1. (\A x \in ToSet(Instructions(f)) : x.op # "phi") => \A x \in ToSet(Instructions(f)) : Selected[x] = <<x>>
    BY <1>1, <1>3
  <2> QED BY <1>1, <2>1, MappedSame
<1> QED BY <1>7, <1>8, <1>9
-----------------------------------------------------------------------------
(* The analyses' results are fresh.                                         *)

\* A phi is left, that the Secret pass would rewrite.
HasPhi(f) == \E x \in ToSet(Instructions(f)) : x.op = "phi"

\* What is true of the function and the analyses' results between two passes.
Known ==
  /\ original \in Functions
  /\ \E ran : F = Applied(original, ran)
  /\ rewritten \in BOOLEAN
  /\ fcmps # None => fcmps = FindFCmpEq(F)
  /\ opcodes # None => IF rewritten THEN "phi" \in DOMAIN opcodes /\ ~HasPhi(F)
                                    ELSE opcodes = generateOpcodeMap(F)

\* What convert-fcmp-eq leaves.
Converts ==
  last = "convert-fcmp-eq" =>
    F.optnone \/ IF crashed THEN \E i \in ToSet(FindFCmpEq(F)) : i.ty # "double"
                            ELSE FindFCmpEq(F) = <<>>

\* What is known gives the function its shape.
LEMMA KnownShape ==
  ASSUME Known
  PROVE  Shaped(original, Written) /\ Shaped(F, Pieces(Written))
<1>1. Shaped(original, Written)
  BY PassedFunctions DEF Known, WellFormedFunction, Shaped
<1>2. PICK ran : F = Applied(original, ran)
  BY DEF Known
<1>3. Made(ran) \in Makers(Written, Pieces(Written))
  BY MadeType
<1> QED BY <1>1, <1>2, <1>3, MappedType DEF Applied

\* At the start no pass has been run.
LEMMA InitKnown == FunctionInit => Known /\ Converts
<1> SUFFICES ASSUME FunctionInit PROVE Known /\ Converts
  OBVIOUS
<1>1. Shaped(F, Written)
  BY PassedFunctions DEF FunctionInit, WellFormedFunction, Shaped
<1>2. \A x \in Written : Made({})[x] = <<x>>
  BY DEF Made, Became
<1>3. Made({}) \in Makers(Written, Pieces(Written))
  BY MadeType
<1>4. Mapped(F, Made({})) = F
  <2>1. \A x \in ToSet(Instructions(F)) : Made({})[x] = <<x>>
    BY <1>1, <1>2, InstructionsIn
  <2> QED BY <1>1, <1>3, <2>1, MappedSame
<1>5. F = Applied(original, {})
  BY <1>4 DEF Applied, FunctionInit
<1> QED BY <1>5, NoneAssumption DEF FunctionInit, Known, Converts

\* What the function is is known after every pass if it was before.
LEMMA TransformKnown ==
  ASSUME Known, NEW g, NEW changed \in BOOLEAN, Transform(g, changed), original' = original,
         \E ran : g = Applied(original, ran), ~changed => g = F
  PROVE  Known'
<1>1. CASE changed
  BY <1>1 DEF Known, Transform
<1>2. CASE ~changed
  <2>1. F' = F /\ fcmps' = fcmps /\ opcodes' = opcodes /\ rewritten' = rewritten
    BY <1>2 DEF Transform, Known
  <2> QED BY <2>1 DEF Known, HasPhi
<1> QED BY <1>1, <1>2

\* After mba-sub.
LEMMA SubKnown ==
  ASSUME Known, MBASub, original' = original
  PROVE  Known'
<1> DEFINE g == MapBlocks(LAMBDA ins : IF isSub(ins) THEN Substitute(ins) ELSE <<ins>>)
           changed == \E k \in DOMAIN Instructions(F) : isSub(Instructions(F)[k])
<1>1. g = Mapped(F, Subtracted)
  BY KnownShape, PassesMap
<1>2. \E ran : g = Applied(original, ran)
  <2>1. PICK ran : F = Applied(original, ran)
    BY DEF Known
  <2> HIDE DEF g
  <2>2. g = Applied(original, ran \cup {"mba-sub"})
    BY <1>1, <2>1, KnownShape, MappedApplied
  <2> QED BY <2>2
<1>3. ~changed => g = F
  <2>1. ~changed => \A x \in ToSet(Instructions(F)) : Subtracted[x] = <<x>>
    BY KnownShape, InstructionsIn DEF Subtracted, ToSet
  <2> HIDE DEF g, changed
  <2> QED BY <1>1, <2>1, KnownShape, MakersAre, MappedSame
<1>4. Transform(g, changed)
  BY DEF MBASub
<1> HIDE DEF g, changed
<1>5. changed \in BOOLEAN
  BY DEF changed
<1> QED BY <1>2, <1>3, <1>4, <1>5, TransformKnown

\* After mba-add, which rewrites nothing.
LEMMA AddKnown ==
  ASSUME Known, MBAAdd, original' = original
  PROVE  Known'
BY TransformKnown DEF MBAAdd, Known

\* After a printer, which caches what its analysis answers.
LEMMA PrinterKnown ==
  ASSUME Known, original' = original, FindFCmpEqPrinter \/ OpcodeCounterPrinter
  PROVE  Known'
<1>1. CASE FindFCmpEqPrinter
  BY <1>1 DEF FindFCmpEqPrinter, Comparisons, Known, HasPhi
<1>2. CASE OpcodeCounterPrinter
  BY <1>2 DEF OpcodeCounterPrinter, Known, HasPhi
<1> QED BY <1>1, <1>2

\* After the Secret pass, which leaves the results where they are: what was
\* counted has phis in it that are not there any more.
LEMMA VectorKnown ==
  ASSUME Known, InputsVectorPrinter, original' = original
  PROVE  Known'
<1>1. F' = Mapped(F, Selected)
  BY KnownShape, PassesMap DEF InputsVectorPrinter
<1>2. Shaped(F, Pieces(Written))
  BY KnownShape
<1>3. PICK h : h = F'
  OBVIOUS
<1>4. /\ FindFCmpEq(h) = FindFCmpEq(F)
      /\ \A x \in ToSet(Instructions(h)) : x.op # "phi"
      /\ (\A x \in ToSet(Instructions(F)) : x.op # "phi") => h = F
  BY <1>1, <1>2, <1>3, SelectedIs
<1>5. \E ran : F' = Applied(original, ran)
  <2>1. PICK ran : F = Applied(original, ran)
    BY DEF Known
  <2>2. F' = Applied(original, ran \cup {"inputsVector"})
    BY <1>1, <2>1, KnownShape, MappedApplied
  <2> QED BY <2>2
<1>6. ~HasPhi(h) /\ (h # F => HasPhi(F))
  BY <1>4 DEF HasPhi
<1>7. HasPhi(F) => "phi" \in DOMAIN generateOpcodeMap(F)
  BY <1>2, AnalysesAre DEF HasPhi
<1>8. fcmps' = fcmps /\ opcodes' = opcodes /\ rewritten' = (rewritten \/ (opcodes # None /\ h # F))
  BY <1>3 DEF InputsVectorPrinter
<1>9. HasPhi(F') <=> HasPhi(h)
  BY <1>3 DEF HasPhi
<1>10. fcmps' # None => fcmps' = FindFCmpEq(F')
  BY <1>3, <1>4, <1>8 DEF Known
<1>11. opcodes' # None => IF rewritten' THEN "phi" \in DOMAIN opcodes' /\ ~HasPhi(F')
                                        ELSE opcodes' = generateOpcodeMap(F')
  <2>1. CASE rewritten
    BY <1>6, <1>8, <1>9, <2>1 DEF Known
  <2>2. CASE ~rewritten /\ h # F
    BY <1>6, <1>7, <1>8, <1>9, <2>2 DEF Known
  <2>3. CASE ~rewritten /\ h = F
    BY <1>3, <1>8, <2>3 DEF Known
  <2> QED BY <2>1, <2>2, <2>3
<1>12. rewritten' \in BOOLEAN
  BY <1>8 DEF Known
<1> QED BY <1>5, <1>10, <1>11, <1>12 DEF Known, HasPhi

\* After convert-fcmp-eq, which asks for the comparisons and caches them
\* before it changes anything.
LEMMA ConvertKnown ==
  ASSUME Known, ConvertFCmpEq, original' = original, crashed = FALSE, last' = "convert-fcmp-eq"
  PROVE  Known' /\ Converts'
<1>1. Comparisons = FindFCmpEq(F)
  BY DEF Comparisons, Known
<1>2. Shaped(F, Pieces(Written)) /\ Shaped(original, Written)
  BY KnownShape
<1>3. /\ FindFCmpEq(F) \in Seq(Pieces(Written))
      /\ ToSet(FindFCmpEq(F)) = {x \in ToSet(Instructions(F)) : isEquality(x)}
  BY <1>2, AnalysesAre
<1>4. CASE ~F.optnone /\ \E k \in DOMAIN Comparisons : Comparisons[k].ty # "double"
  <2>1. crashed' = TRUE /\ F' = F /\ fcmps' = fcmps /\ opcodes' = opcodes /\ rewritten' = rewritten
    BY <1>4 DEF ConvertFCmpEq
  <2>2. \E i \in ToSet(FindFCmpEq(F)) : i.ty # "double"
    BY <1>1, <1>4 DEF ToSet
  <2> QED BY <2>1, <2>2 DEF Known, Converts, HasPhi
<1>5. CASE F.optnone
  <2>1. /\ F' = F /\ fcmps' = Comparisons /\ opcodes' = opcodes /\ rewritten' = rewritten
    BY <1>5 DEF ConvertFCmpEq, Modified, Known
  <2> QED BY <1>1, <1>5, <2>1 DEF Known, Converts, HasPhi
<1>6. CASE ~F.optnone /\ ~\E k \in DOMAIN Comparisons : Comparisons[k].ty # "double"
  <2>1. \A x \in ToSet(Instructions(F)) : x \in ToSet(Comparisons) <=> isEquality(x)
    BY <1>1, <1>3
  <2>2. F' = Mapped(F, Converted)
    BY <1>2, <1>6, <2>1, PassesMap DEF ConvertFCmpEq
  <2>3. PICK ran : F = Applied(original, ran)
    BY DEF Known
  <2>4. F' = Applied(original, ran \cup {"convert-fcmp-eq"})
    BY <1>2, <2>2, <2>3, MappedApplied
  <2>5. PICK h : h = F'
    OBVIOUS
  <2>6. FindFCmpEq(h) = <<>>
    <3>1. \A x \in ToSet(Instructions(h)) : ~isEquality(x)
      BY <1>2, <2>4, <2>5, ConvertedHasNone
    <3>2. h = Mapped(original, Made(ran \cup {"convert-fcmp-eq"}))
      BY <2>4, <2>5 DEF Applied
    <3>3. Shaped(h, Pieces(Written))
      BY <1>2, <3>2, MadeType, MappedType
    <3>4. FindFCmpEq(h) \in Seq(Pieces(Written)) /\ ToSet(FindFCmpEq(h)) = {}
      BY <3>1, <3>3, AnalysesAre
    <3>5. \A q \in Seq(Pieces(Written)) : ToSet(q) = {} => q = <<>>
      <4> SUFFICES ASSUME NEW q \in Seq(Pieces(Written)), ToSet(q) = {} PROVE q = <<>>
        OBVIOUS
      <4>1. DOMAIN q = 1..Len(q) /\ Len(q) \in Nat
        OBVIOUS
      <4>2. DOMAIN q = {}
        BY DEF ToSet
      <4>3. Len(q) = 0
        BY <4>1, <4>2
      <4> QED BY <4>3
    <3> QED BY <3>4, <3>5
  <2>7. Comparisons = <<>> => h = F
    <3>1. Comparisons = <<>> => \A x \in ToSet(Instructions(F)) : ~isEquality(x)
      BY <2>1 DEF ToSet
    <3>2. ToSet(Instructions(F)) \subseteq Pieces(Written)
      BY <1>2, InstructionsIn
    <3>3. Comparisons = <<>> => \A x \in ToSet(Instructions(F)) : Converted[x] = <<x>>
      BY <3>1, <3>2 DEF Converted
    <3> QED BY <1>2, <2>2, <2>5, <3>3, MakersAre, MappedSame
  <2>8. /\ fcmps' = IF Modified THEN None ELSE Comparisons
        /\ opcodes' = IF Modified THEN None ELSE opcodes
        /\ rewritten' = (~Modified /\ rewritten)
        /\ crashed' = crashed
    BY <1>6 DEF ConvertFCmpEq
  <2>9. Modified <=> Comparisons # <<>>
    BY <1>6 DEF Modified
  <2>10. Converts'
    BY <2>5, <2>6, <2>8 DEF Converts
  <2>13. original' \in Functions /\ \E done_ : F' = Applied(original', done_)
    BY <2>4 DEF Known
  <2>11. CASE Comparisons # <<>>
    <3>1. fcmps' = None /\ opcodes' = None /\ rewritten' = FALSE
      BY <2>8, <2>9, <2>11
    <3> QED BY <2>10, <2>13, <3>1 DEF Known
  <2>12. CASE Comparisons = <<>>
    <3>1. F' = F
      BY <2>5, <2>7, <2>12
    <3>2. fcmps' = Comparisons /\ opcodes' = opcodes /\ rewritten' = rewritten
      BY <2>8, <2>9, <2>12 DEF Known
    <3> QED BY <1>1, <2>10, <2>13, <3>1, <3>2 DEF Known, HasPhi
  <2> QED BY <2>10, <2>11, <2>12
<1> QED BY <1>4, <1>5, <1>6

\* After any pass.
LEMMA NextKnown ==
  ASSUME Known /\ Converts, [FunctionNext]_functionVars
  PROVE  (Known /\ Converts)'
<1>1. CASE UNCHANGED functionVars
  BY <1>1 DEF functionVars, Known, Converts, HasPhi
<1>2. CASE FunctionNext
  <2>1. original' = original /\ crashed = FALSE
    BY <1>2 DEF FunctionNext
  <2>2. CASE Run("convert-fcmp-eq", ConvertFCmpEq)
    BY <2>1, <2>2, ConvertKnown DEF Run
  <2>3. CASE Run("mba-sub", MBASub)
    BY <2>1, <2>3, SubKnown DEF Run, Converts
  <2>4. CASE Run("mba-add", MBAAdd)
    BY <2>1, <2>4, AddKnown DEF Run, Converts
  <2>5. CASE Run("print<inputsVector>", InputsVectorPrinter)
    BY <2>1, <2>5, VectorKnown DEF Run, Converts
  <2>6. CASE Run("print<find-fcmp-eq>", FindFCmpEqPrinter)
    BY <2>1, <2>6, PrinterKnown DEF Run, Converts
  <2>7. CASE Run("print<opcode-counter>", OpcodeCounterPrinter)
    BY <2>1, <2>7, PrinterKnown DEF Run, Converts
  <2> QED BY <1>2, <2>2, <2>3, <2>4, <2>5, <2>6, <2>7 DEF FunctionNext
<1> QED BY <1>1, <1>2

\* Whatever passes are run, a result in the analysis manager is what the
\* analysis would answer now, unless the Secret pass has rewritten a phi after
\* the opcodes were counted; and after convert-fcmp-eq no equality is left to
\* find, or it has stopped at a float (ConvertFCmpEq.cpp:136-162,
\* Secret.cpp:52).
THEOREM CachedResultsFresh == FunctionSpec => []AnalysesFresh
<1>1. Known /\ Converts => AnalysesFresh
  <2> SUFFICES ASSUME Known, Converts PROVE AnalysesFresh
    OBVIOUS
  <2>1. ~HasPhi(F) => "phi" \notin DOMAIN generateOpcodeMap(F)
    <3>1. Shaped(F, Pieces(Written))
      BY KnownShape
    <3>2. DOMAIN generateOpcodeMap(F) = {x.op : x \in ToSet(Instructions(F))}
      BY <3>1, AnalysesAre
    <3> QED BY <3>2 DEF HasPhi
  <2>2. opcodes # None => (opcodes = generateOpcodeMap(F) <=> ~rewritten)
    BY <2>1 DEF Known
  <2> QED BY <2>2 DEF Known, Converts, AnalysesFresh
<1> QED BY <1>1, InitKnown, NextKnown, PTL DEF FunctionSpec
-----------------------------------------------------------------------------
(* What replaced instructions compute.                                      *)

\* What is computed one instruction after another is that.
LEMMA AfterUnique ==
  ASSUME NEW X, NEW v, NEW s \in Seq(X), NEW g, g[0] = v,
         \A k \in 1..Len(s) : g[k] = Compute(g[k - 1], s[k])
  PROVE  After(v, s) = g[Len(s)]
<1>1. PICK e : /\ e[0] = v
               /\ \A k \in 1..Len(s) : e[k] = Compute(e[k - 1], s[k])
               /\ After(v, s) = e[Len(s)]
  BY ComputeFolds
<1>2. PICK n \in Nat : n = Len(s)
  OBVIOUS
<1> DEFINE N == {k \in Nat : k <= n => e[k] = g[k]}
<1>3. 0 \in N
  BY <1>1
<1>4. ASSUME NEW k \in Nat, k \in N PROVE k + 1 \in N
  <2> SUFFICES ASSUME k + 1 <= n PROVE e[k + 1] = g[k + 1]
    OBVIOUS
  <2>1. k + 1 \in 1..n /\ (k + 1) - 1 = k /\ e[k] = g[k]
    BY <1>4
  <2> QED BY <1>1, <1>2, <2>1
<1>5. n \in N
  <2> HIDE DEF N
  <2> QED BY <1>3, <1>4, NatInd
<1> QED BY <1>1, <1>2, <1>5

\* Instructions one after the other.
LEMMA AfterConcat ==
  ASSUME NEW X, NEW v, NEW a \in Seq(X), NEW b \in Seq(X)
  PROVE  After(v, a \o b) = After(After(v, a), b)
<1>1. PICK e : /\ e[0] = v
               /\ \A k \in 1..Len(a) : e[k] = Compute(e[k - 1], a[k])
               /\ After(v, a) = e[Len(a)]
  BY ComputeFolds
<1>2. PICK w : w = After(v, a)
  OBVIOUS
<1>3. PICK f : /\ f[0] = w
               /\ \A k \in 1..Len(b) : f[k] = Compute(f[k - 1], b[k])
               /\ After(w, b) = f[Len(b)]
  BY ComputeFolds
<1>4. PICK m \in Nat : m = Len(a)
  OBVIOUS
<1>5. PICK n \in Nat : n = Len(b)
  OBVIOUS
<1>6. e[m] = w /\ After(w, b) = f[n]
  BY <1>1, <1>2, <1>3, <1>4, <1>5
<1>7. PICK c \in Seq(X) : /\ c = a \o b /\ Len(c) = m + n
                          /\ \A x \in 1..m : c[x] = a[x]
                          /\ \A j \in 1..n : c[m + j] = b[j]
  <2>1. /\ a \o b \in Seq(X) /\ Len(a \o b) = m + n
        /\ \A x \in 1..m : (a \o b)[x] = a[x]
        /\ \A j \in 1..n : (a \o b)[m + j] = b[j]
    BY <1>4, <1>5, ConcatIs
  <2> QED BY <2>1
<1> DEFINE g == [k \in 0..(m + n) |-> IF k <= m THEN e[k] ELSE f[k - m]]
<1>8. g[0] = v
  BY <1>1
<1>9. ASSUME NEW k \in 1..(m + n) PROVE g[k] = Compute(g[k - 1], c[k])
  <2>1. CASE k <= m
    <3>1. k \in 1..m /\ k - 1 \in 0..(m + n) /\ k - 1 <= m /\ k \in 0..(m + n)
      BY <2>1
    <3>2. g[k] = e[k] /\ g[k - 1] = e[k - 1] /\ c[k] = a[k]
      BY <1>7, <2>1, <3>1
    <3> HIDE DEF g
    <3> QED BY <1>1, <1>4, <3>1, <3>2
  <2>2. CASE ~(k <= m)
    <3>1. PICK j \in 1..n : k = m + j
      <4>1. k - m \in 1..n /\ k = m + (k - m)
        BY <2>2
      <4> QED BY <4>1
    <3>2. g[k] = f[j]
      <4>1. k \in 0..(m + n) /\ k - m = j
        BY <3>1
      <4> QED BY <2>2, <4>1
    <3>3. g[k - 1] = f[j - 1]
      <4>1. k - 1 \in 0..(m + n)
        OBVIOUS
      <4>2. CASE j = 1
        <5>1. k - 1 = m /\ k - 1 <= m /\ j - 1 = 0
          BY <3>1, <4>2
        <5> QED BY <1>3, <1>6, <4>1, <5>1
      <4>3. CASE j # 1
        <5>1. ~(k - 1 <= m) /\ (k - 1) - m = j - 1
          BY <3>1, <4>3
        <5> QED BY <4>1, <5>1
      <4> QED BY <4>2, <4>3
    <3>4. c[k] = b[j]
      BY <1>7, <3>1
    <3> HIDE DEF g
    <3> QED BY <1>3, <1>5, <3>2, <3>3, <3>4
  <2> QED BY <2>1, <2>2
<1>10. g[m + n] = f[n]
  <2>1. m + n \in 0..(m + n)
    OBVIOUS
  <2>2. CASE n = 0
    <3>1. m + n <= m /\ m + n = m
      BY <2>2
    <3> QED BY <1>3, <1>6, <2>1, <2>2, <3>1
  <2>3. CASE n # 0
    <3>1. ~(m + n <= m) /\ (m + n) - m = n
      BY <2>3
    <3> QED BY <2>1, <3>1
  <2> QED BY <2>2, <2>3
<1>11. After(v, c) = g[m + n]
  <2>1. PICK h : h = g
    OBVIOUS
  <2> HIDE DEF g
  <2>2. h[0] = v /\ \A k \in 1..Len(c) : h[k] = Compute(h[k - 1], c[k])
    BY <1>7, <1>8, <1>9, <2>1
  <2>3. After(v, c) = h[Len(c)]
    BY <2>2, AfterUnique
  <2> QED BY <1>7, <2>1, <2>3
<1> QED BY <1>2, <1>6, <1>7, <1>10, <1>11

\* What is computed by what was made of instructions, one after the other.
LEMMA AfterEach ==
  ASSUME NEW Y, NEW Z, NEW r \in Makers(Y, Z), NEW s \in Seq(Y), NEW v
  PROVE  \E g : /\ g[0] = v
                /\ \A k \in 1..Len(s) : g[k] = After(g[k - 1], r[s[k]])
                /\ After(v, Each(r, s)) = g[Len(s)]
<1>7. [i \in DOMAIN s |-> r[s[i]]] \in Seq(Seq(Z)) /\ Len([i \in DOMAIN s |-> r[s[i]]]) = Len(s)
  BY EachType
<1>1. PICK n \in Nat : n = Len(s) /\ DOMAIN s = 1..n
  OBVIOUS
<1>2. PICK ss \in Seq(Seq(Z)) : ss = [i \in DOMAIN s |-> r[s[i]]] /\ Len(ss) = n
  BY <1>1, <1>7
<1>3. PICK e : /\ e \in [0..Len(ss) -> Seq(Z)] /\ e[0] = <<>>
               /\ \A i \in 1..Len(ss) : e[i] = e[i - 1] \o ss[i]
               /\ FlattenSeq(ss) = e[Len(ss)]
  BY FlattenFolds
<1> DEFINE g == [k \in 0..n |-> After(v, e[k])]
<1>4. g[0] = v
  <2>5. <<>> \in Seq(Z)
    OBVIOUS
  <2>1. PICK q \in Seq(Z) : q = <<>>
    BY <2>5
  <2>2. PICK f : /\ f[0] = v
                 /\ \A k \in 1..Len(q) : f[k] = Compute(f[k - 1], q[k])
                 /\ After(v, q) = f[Len(q)]
    BY ComputeFolds
  <2>3. After(v, q) = v
    BY <2>1, <2>2
  <2>4. 0 \in 0..n
    OBVIOUS
  <2> QED BY <1>3, <2>1, <2>3, <2>4
<1>5. ASSUME NEW k \in 1..n PROVE g[k] = After(g[k - 1], r[s[k]])
  <2>1. k \in 0..n /\ k - 1 \in 0..n
    OBVIOUS
  <2>2. e[k] = e[k - 1] \o ss[k] /\ e[k - 1] \in Seq(Z) /\ ss[k] \in Seq(Z) /\ ss[k] = r[s[k]]
    <3>1. ss[k] \in Seq(Z) /\ ss[k] = r[s[k]]
      BY <1>1, <1>2
    <3> QED BY <1>2, <1>3, <2>1, <3>1
  <2>3. PICK a \in Seq(Z) : a = e[k - 1]
    BY <2>2
  <2>4. PICK b \in Seq(Z) : b = ss[k]
    BY <2>2
  <2>5. After(v, a \o b) = After(After(v, a), b)
    BY AfterConcat
  <2> QED BY <2>1, <2>2, <2>3, <2>4, <2>5
<1>6. After(v, Each(r, s)) = g[n]
  <2>1. 0..n = 0..n /\ n \in 0..n
    OBVIOUS
  <2> QED BY <1>2, <1>3, <2>1 DEF Each
<1> HIDE DEF g
<1> QED BY <1>1, <1>4, <1>5, <1>6

\* One instruction.
LEMMA AfterOne ==
  ASSUME NEW v, NEW a
  PROVE  After(v, <<a>>) = Compute(v, a)
<1> DEFINE X == {a}
           v1 == Compute(v, a)
           g == [k \in 0..1 |-> CASE k = 0 -> v [] k = 1 -> v1]
<1>1. /\ g[0] = v /\ g[1] = v1
      /\ v1 = Compute(v, a)
  OBVIOUS
<1> HIDE DEF g, v1
<1>2. <<a>> \in Seq(X) /\ Len(<<a>>) = 1
  OBVIOUS
<1>3. ASSUME NEW k \in 1..1 PROVE g[k] = Compute(g[k - 1], <<a>>[k])
  <2>1. (k = 1 /\ k - 1 = 0)
    OBVIOUS
  <2> QED BY <1>1, <2>1
<1>4. PICK q \in Seq(X) : q = <<a>>
  BY <1>2
<1>5. Len(q) = 1 /\ \A k \in 1..1 : g[k] = Compute(g[k - 1], q[k])
  BY <1>2, <1>3, <1>4
<1>6. PICK h : h = g
  OBVIOUS
<1>7. h[0] = v /\ \A k \in 1..Len(q) : h[k] = Compute(h[k - 1], q[k])
  BY <1>1, <1>5, <1>6
<1>8. After(v, q) = h[Len(q)]
  BY <1>7, AfterUnique
<1> QED BY <1>1, <1>4, <1>5, <1>6, <1>8

\* Three instructions.
LEMMA AfterThree ==
  ASSUME NEW v, NEW a, NEW b, NEW c
  PROVE  After(v, <<a, b, c>>) = Compute(Compute(Compute(v, a), b), c)
<1> DEFINE X == {a, b, c}
           v1 == Compute(v, a)
           v2 == Compute(v1, b)
           v3 == Compute(v2, c)
           g == [k \in 0..3 |-> CASE k = 0 -> v [] k = 1 -> v1 [] k = 2 -> v2 [] k = 3 -> v3]
<1>1. /\ g[0] = v /\ g[1] = v1 /\ g[2] = v2 /\ g[3] = v3
      /\ v1 = Compute(v, a) /\ v2 = Compute(v1, b) /\ v3 = Compute(v2, c)
  OBVIOUS
<1> HIDE DEF g, v1, v2, v3
<1>2. <<a, b, c>> \in Seq(X) /\ Len(<<a, b, c>>) = 3
  OBVIOUS
<1>3. ASSUME NEW k \in 1..3 PROVE g[k] = Compute(g[k - 1], <<a, b, c>>[k])
  <2>1. (k = 1 /\ k - 1 = 0) \/ (k = 2 /\ k - 1 = 1) \/ (k = 3 /\ k - 1 = 2)
    OBVIOUS
  <2> QED BY <1>1, <2>1
<1>4. PICK q \in Seq(X) : q = <<a, b, c>>
  BY <1>2
<1>5. Len(q) = 3 /\ \A k \in 1..3 : g[k] = Compute(g[k - 1], q[k])
  BY <1>2, <1>3, <1>4
<1>6. PICK h : h = g
  OBVIOUS
<1>7. h[0] = v /\ \A k \in 1..Len(q) : h[k] = Compute(h[k - 1], q[k])
  BY <1>1, <1>5, <1>6
<1>8. After(v, q) = h[Len(q)]
  BY <1>7, AfterUnique
<1> QED BY <1>1, <1>4, <1>5, <1>6, <1>8

\* Five instructions.
LEMMA AfterFive ==
  ASSUME NEW v, NEW a, NEW b, NEW c, NEW d, NEW e
  PROVE  After(v, <<a, b, c, d, e>>) = Compute(Compute(Compute(Compute(Compute(v, a), b), c), d), e)
<1> DEFINE X == {a, b, c, d, e}
           v1 == Compute(v, a)
           v2 == Compute(v1, b)
           v3 == Compute(v2, c)
           v4 == Compute(v3, d)
           v5 == Compute(v4, e)
           g == [k \in 0..5 |-> CASE k = 0 -> v [] k = 1 -> v1 [] k = 2 -> v2 [] k = 3 -> v3 [] k = 4 -> v4 [] k = 5 -> v5]
<1>1. /\ g[0] = v /\ g[1] = v1 /\ g[2] = v2 /\ g[3] = v3 /\ g[4] = v4 /\ g[5] = v5
      /\ v1 = Compute(v, a) /\ v2 = Compute(v1, b) /\ v3 = Compute(v2, c) /\ v4 = Compute(v3, d) /\ v5 = Compute(v4, e)
  OBVIOUS
<1> HIDE DEF g, v1, v2, v3, v4, v5
<1>2. <<a, b, c, d, e>> \in Seq(X) /\ Len(<<a, b, c, d, e>>) = 5
  OBVIOUS
<1>3. ASSUME NEW k \in 1..5 PROVE g[k] = Compute(g[k - 1], <<a, b, c, d, e>>[k])
  <2>1. (k = 1 /\ k - 1 = 0) \/ (k = 2 /\ k - 1 = 1) \/ (k = 3 /\ k - 1 = 2) \/ (k = 4 /\ k - 1 = 3) \/ (k = 5 /\ k - 1 = 4)
    OBVIOUS
  <2> QED BY <1>1, <2>1
<1>4. PICK q \in Seq(X) : q = <<a, b, c, d, e>>
  BY <1>2
<1>5. Len(q) = 5 /\ \A k \in 1..5 : g[k] = Compute(g[k - 1], q[k])
  BY <1>2, <1>3, <1>4
<1>6. PICK h : h = g
  OBVIOUS
<1>7. h[0] = v /\ \A k \in 1..Len(q) : h[k] = Compute(h[k - 1], q[k])
  BY <1>1, <1>5, <1>6
<1>8. After(v, q) = h[Len(q)]
  BY <1>7, AfterUnique
<1> QED BY <1>1, <1>4, <1>5, <1>6, <1>8


\* What an instruction computes, and where.
LEMMA ComputeIs ==
  ASSUME NEW val, NEW ins
  PROVE  /\ DOMAIN Compute(val, ins) = DOMAIN val \cup {ins.name}
         /\ Compute(val, ins)[ins.name] = Value(ins, val)
         /\ \A x \in DOMAIN val : x # ins.name => Compute(val, ins)[x] = val[x]
BY DEF Compute, Put

\* A name that no pass makes, and an operand that has a value.
Own(x) == x[1] \in {"arg", "inst"}
\* An operand that has a value.
HasValue(arg, val) == arg[1] = "const" \/ (Own(arg) /\ arg \in DOMAIN val)

\* What val says of the names that the passes do not make, w says too, but
\* for the name x.
Keeps(val, w, x) ==
  /\ DOMAIN val \cup {x} \subseteq DOMAIN w
  /\ \A y \in DOMAIN val : Own(y) /\ y # x => w[y] = val[y]

\* What is kept are the values of operands, too.
LEMMA OperandKept ==
  ASSUME NEW val, NEW w, NEW x, Keeps(val, w, x), NEW arg, HasValue(arg, val), arg # x
  PROVE  ValueOf(arg, w) = ValueOf(arg, val) /\ HasValue(arg, w)
BY DEF Keeps, HasValue, ValueOf

\* One more instruction, with a name that a pass has made.
LEMMA ComputeKeeps ==
  ASSUME NEW val, NEW ins, ~Own(ins.name)
  PROVE  Keeps(val, Compute(val, ins), ins.name)
BY ComputeIs DEF Keeps

\* What the three instructions compute that a subtraction has become.
LEMMA SubComputes ==
  ASSUME NEW ins \in Written, NEW val, HasValue(ins.args[1], val), HasValue(ins.args[2], val)
  PROVE  LET w == After(val, Substitute(ins))
         IN  /\ Keeps(val, w, ins.name)
             /\ w[ins.name] = Add(Add(ValueOf(ins.args[1], val), Not(ValueOf(ins.args[2], val))), 1)
<1>1. ins.name[1] = "inst"
  BY DEF Written
<1>2. PICK a : a = ins.args[1] /\ HasValue(a, val)
  OBVIOUS
<1>3. PICK b : b = ins.args[2] /\ HasValue(b, val)
  OBVIOUS
<1>4. PICK n : n = ins.name[2]
  OBVIOUS
<1>14. PICK i1 : i1 = Instr(<<"not", n>>, "xor", ins.ty, None, <<b>>)
  OBVIOUS
<1>15. PICK i2 : i2 = Instr(<<"add", n>>, "add", ins.ty, None, <<a, <<"not", n>> >>)
  OBVIOUS
<1>16. PICK i3 : i3 = Instr(ins.name, "add", ins.ty, None, << <<"add", n>>, <<"const", 1>> >>)
  OBVIOUS
<1>17. PICK w1 : w1 = Compute(val, i1)
  OBVIOUS
<1>18. PICK w2 : w2 = Compute(w1, i2)
  OBVIOUS
<1>19. PICK w3 : w3 = Compute(w2, i3)
  OBVIOUS
<1>5. After(val, Substitute(ins)) = w3
  <2>1. Substitute(ins) = <<i1, i2, i3>>
    BY <1>2, <1>3, <1>4, <1>14, <1>15, <1>16 DEF Substitute
  <2>2. After(val, <<i1, i2, i3>>) = Compute(Compute(Compute(val, i1), i2), i3)
    BY AfterThree
  <2> QED BY <2>1, <2>2, <1>17, <1>18, <1>19
<1>6. /\ i1.name = <<"not", n>> /\ i1.op = "xor" /\ i1.args[1] = b
      /\ i2.name = <<"add", n>> /\ i2.op = "add" /\ i2.args[1] = a /\ i2.args[2] = <<"not", n>>
      /\ i3.name = ins.name /\ i3.op = "add" /\ i3.args[1] = <<"add", n>> /\ i3.args[2] = <<"const", 1>>
  BY <1>14, <1>15, <1>16 DEF Instr
<1>20. /\ DOMAIN w1 = DOMAIN val \cup {i1.name} /\ w1[i1.name] = Value(i1, val)
       /\ \A x \in DOMAIN val : x # i1.name => w1[x] = val[x]
  BY <1>17, ComputeIs
<1>21. /\ DOMAIN w2 = DOMAIN w1 \cup {i2.name} /\ w2[i2.name] = Value(i2, w1)
       /\ \A x \in DOMAIN w1 : x # i2.name => w2[x] = w1[x]
  BY <1>18, ComputeIs
<1>22. /\ DOMAIN w3 = DOMAIN w2 \cup {i3.name} /\ w3[i3.name] = Value(i3, w2)
       /\ \A x \in DOMAIN w2 : x # i3.name => w3[x] = w2[x]
  BY <1>19, ComputeIs
<1>7. /\ ~Own(<<"not", n>>) /\ ~Own(<<"add", n>>) /\ <<"not", n>> # <<"add", n>>
      /\ <<"not", n>> # ins.name /\ <<"add", n>> # ins.name
      /\ a # <<"not", n>> /\ b # <<"not", n>>
      /\ <<"not", n>>[1] # "const" /\ <<"add", n>>[1] # "const" /\ <<"const", 1>>[1] = "const" /\ <<"const", 1>>[2] = 1
  <2>1. <<"not", n>>[1] = "not" /\ <<"add", n>>[1] = "add" /\ <<"const", 1>>[1] = "const" /\ <<"const", 1>>[2] = 1
    OBVIOUS
  <2>2. a[1] # "not" /\ b[1] # "not"
    BY <1>2, <1>3 DEF HasValue, Own
  <2> QED BY <1>1, <2>1, <2>2 DEF Own
<1>8. Keeps(val, w1, <<"not", n>>) /\ w1[<<"not", n>>] = Not(ValueOf(b, val))
  <2>1. Value(i1, val) = Not(ValueOf(b, val))
    BY <1>6 DEF Value
  <2> QED BY <1>6, <1>20, <2>1 DEF Keeps
<1>9. ValueOf(a, w1) = ValueOf(a, val)
  BY <1>2, <1>7, <1>8, OperandKept
<1>10. Keeps(w1, w2, <<"add", n>>) /\ w2[<<"add", n>>] = Add(ValueOf(a, val), Not(ValueOf(b, val)))
  <2>1. ValueOf(<<"not", n>>, w1) = Not(ValueOf(b, val))
    BY <1>7, <1>8 DEF ValueOf
  <2>2. Value(i2, w1) = Add(ValueOf(a, w1), ValueOf(<<"not", n>>, w1))
    BY <1>6 DEF Value
  <2> QED BY <1>6, <1>9, <1>21, <2>1, <2>2 DEF Keeps
<1>11. w3[ins.name] = Add(Add(ValueOf(a, val), Not(ValueOf(b, val))), 1)
  <2>1. ValueOf(<<"add", n>>, w2) = Add(ValueOf(a, val), Not(ValueOf(b, val))) /\ ValueOf(<<"const", 1>>, w2) = 1
    BY <1>7, <1>10 DEF ValueOf
  <2>2. Value(i3, w2) = Add(ValueOf(<<"add", n>>, w2), ValueOf(<<"const", 1>>, w2))
    BY <1>6 DEF Value
  <2> QED BY <1>6, <1>22, <2>1, <2>2
<1>13. Keeps(val, w3, ins.name)
  BY <1>6, <1>7, <1>20, <1>21, <1>22 DEF Keeps
<1> QED BY <1>2, <1>3, <1>5, <1>11, <1>13


\* The fields of a converted comparison.
LEMMA ConvertedFields ==
  ASSUME NEW x \in Written, NEW m, NEW a
  PROVE  LET y == [x EXCEPT !.pred = m, !.args = a]
         IN  y.name = x.name /\ y.op = x.op /\ y.pred = m /\ y.args = a
<1>1. \E n, t, o, q, w : x = [name |-> n, ty |-> t, op |-> o, pred |-> q, args |-> w]
  BY DEF Written
<1>2. PICK n, t, o, q, w : x = [name |-> n, ty |-> t, op |-> o, pred |-> q, args |-> w]
  BY <1>1
<1>3. [x EXCEPT !.pred = m] = [name |-> n, ty |-> t, op |-> o, pred |-> m, args |-> w]
  BY <1>2
<1>4. \A y : y = [name |-> n, ty |-> t, op |-> o, pred |-> m, args |-> w] =>
            [y EXCEPT !.args = a] = [name |-> n, ty |-> t, op |-> o, pred |-> m, args |-> a]
  OBVIOUS
<1>5. [x EXCEPT !.pred = m, !.args = a] = [[x EXCEPT !.pred = m] EXCEPT !.args = a]
  OBVIOUS
<1>6. [x EXCEPT !.pred = m, !.args = a] = [name |-> n, ty |-> t, op |-> o, pred |-> m, args |-> a]
  BY <1>3, <1>4, <1>5
<1> QED BY <1>2, <1>6

\* What the five instructions compute that a comparison has become.
LEMMA ConvertComputes ==
  ASSUME NEW ins \in Written, ins.op = "fcmp", NEW val, HasValue(ins.args[1], val), HasValue(ins.args[2], val)
  PROVE  LET w == After(val, convertFCmpEqInstruction(ins))
         IN  /\ Keeps(val, w, ins.name)
             /\ w[ins.name] = FCmp(CmpPred(ins.pred),
                                   Distance(ValueOf(ins.args[1], val), ValueOf(ins.args[2], val)), Epsilon)
<1>1. ins.name[1] = "inst"
  BY DEF Written
<1>2. PICK a : a = ins.args[1] /\ HasValue(a, val)
  OBVIOUS
<1>3. PICK b : b = ins.args[2] /\ HasValue(b, val)
  OBVIOUS
<1>4. PICK n : n = ins.name[2]
  OBVIOUS
<1>5. PICK i1 : i1 = Instr(<<"diff", n>>, "fsub", "double", None, ins.args)
  OBVIOUS
<1>6. PICK i2 : i2 = Instr(<<"bits", n>>, "bitcast", "i64", None, << <<"diff", n>> >>)
  OBVIOUS
<1>7. PICK i3 : i3 = Instr(<<"abs", n>>, "and", "i64", None, << <<"bits", n>> >>)
  OBVIOUS
<1>8. PICK i4 : i4 = Instr(<<"dist", n>>, "bitcast", "double", None, << <<"abs", n>> >>)
  OBVIOUS
<1>9. PICK p : p = CmpPred(ins.pred)
  OBVIOUS
<1>10. PICK i5 : i5 = [ins EXCEPT !.pred = p, !.args = << <<"dist", n>>, <<"const", Epsilon>> >>]
  OBVIOUS
<1>11. PICK w1 : w1 = Compute(val, i1)
  OBVIOUS
<1>12. PICK w2 : w2 = Compute(w1, i2)
  OBVIOUS
<1>13. PICK w3 : w3 = Compute(w2, i3)
  OBVIOUS
<1>14. PICK w4 : w4 = Compute(w3, i4)
  OBVIOUS
<1>15. PICK w5 : w5 = Compute(w4, i5)
  OBVIOUS
<1>16. After(val, convertFCmpEqInstruction(ins)) = w5
  <2>1. convertFCmpEqInstruction(ins) = <<i1, i2, i3, i4, i5>>
    BY <1>4, <1>5, <1>6, <1>7, <1>8, <1>9, <1>10 DEF convertFCmpEqInstruction
  <2>2. After(val, <<i1, i2, i3, i4, i5>>) = Compute(Compute(Compute(Compute(Compute(val, i1), i2), i3), i4), i5)
    BY AfterFive
  <2> QED BY <2>1, <2>2, <1>11, <1>12, <1>13, <1>14, <1>15
<1>17. /\ i1.name = <<"diff", n>> /\ i1.op = "fsub" /\ i1.args[1] = a /\ i1.args[2] = b
       /\ i2.name = <<"bits", n>> /\ i2.op = "bitcast" /\ i2.ty = "i64" /\ i2.args[1] = <<"diff", n>>
       /\ i3.name = <<"abs", n>> /\ i3.op = "and" /\ i3.args[1] = <<"bits", n>>
       /\ i4.name = <<"dist", n>> /\ i4.op = "bitcast" /\ i4.ty = "double" /\ i4.args[1] = <<"abs", n>>
  BY <1>2, <1>3, <1>5, <1>6, <1>7, <1>8 DEF Instr
<1>18. i5.name = ins.name /\ i5.op = "fcmp" /\ i5.pred = p /\ i5.args[1] = <<"dist", n>> /\ i5.args[2] = <<"const", Epsilon>>
  <2>1. PICK q : q = << <<"dist", n>>, <<"const", Epsilon>> >>
    OBVIOUS
  <2>2. i5 = [ins EXCEPT !.pred = p, !.args = q]
    BY <1>10, <2>1
  <2>3. i5.name = ins.name /\ i5.op = ins.op /\ i5.pred = p /\ i5.args = q
    BY <2>2, ConvertedFields
  <2> QED BY <2>1, <2>3
<1>21. /\ DOMAIN w1 = DOMAIN val \cup {i1.name} /\ w1[i1.name] = Value(i1, val)
       /\ \A x \in DOMAIN val : x # i1.name => w1[x] = val[x]
  BY <1>11, ComputeIs
<1>22. /\ DOMAIN w2 = DOMAIN w1 \cup {i2.name} /\ w2[i2.name] = Value(i2, w1)
       /\ \A x \in DOMAIN w1 : x # i2.name => w2[x] = w1[x]
  BY <1>12, ComputeIs
<1>23. /\ DOMAIN w3 = DOMAIN w2 \cup {i3.name} /\ w3[i3.name] = Value(i3, w2)
       /\ \A x \in DOMAIN w2 : x # i3.name => w3[x] = w2[x]
  BY <1>13, ComputeIs
<1>24. /\ DOMAIN w4 = DOMAIN w3 \cup {i4.name} /\ w4[i4.name] = Value(i4, w3)
       /\ \A x \in DOMAIN w3 : x # i4.name => w4[x] = w3[x]
  BY <1>14, ComputeIs
<1>25. /\ DOMAIN w5 = DOMAIN w4 \cup {i5.name} /\ w5[i5.name] = Value(i5, w4)
       /\ \A x \in DOMAIN w4 : x # i5.name => w5[x] = w4[x]
  BY <1>15, ComputeIs
<1>26. \A s \in {"diff", "bits", "abs", "dist"} :
         /\ ~Own(<<s, n>>) /\ <<s, n>> # ins.name /\ <<s, n>>[1] # "const"
  BY <1>1 DEF Own
<1>27. <<"const", Epsilon>>[1] = "const" /\ <<"const", Epsilon>>[2] = Epsilon
  OBVIOUS
<1>28. Value(i1, val) = FSub(ValueOf(a, val), ValueOf(b, val))
  BY <1>17 DEF Value
<1>29. PICK d : d = FSub(ValueOf(a, val), ValueOf(b, val))
  OBVIOUS
<1>30. ValueOf(<<"diff", n>>, w1) = d
  BY <1>17, <1>21, <1>26, <1>28, <1>29 DEF ValueOf
<1>31. ValueOf(<<"bits", n>>, w2) = ToBits(d)
  <2>1. Value(i2, w1) = ToBits(ValueOf(<<"diff", n>>, w1))
    BY <1>17 DEF Value
  <2> QED BY <2>1, <1>17, <1>22, <1>26, <1>30 DEF ValueOf
<1>32. ValueOf(<<"abs", n>>, w3) = ClearSign(ToBits(d))
  <2>1. Value(i3, w2) = ClearSign(ValueOf(<<"bits", n>>, w2))
    BY <1>17 DEF Value
  <2> QED BY <2>1, <1>17, <1>23, <1>26, <1>31 DEF ValueOf
<1>33. ValueOf(<<"dist", n>>, w4) = FromBits(ClearSign(ToBits(d)))
  <2>1. Value(i4, w3) = FromBits(ValueOf(<<"abs", n>>, w3))
    BY <1>17 DEF Value
  <2> QED BY <2>1, <1>17, <1>24, <1>26, <1>32 DEF ValueOf
<1>34. w5[ins.name] = FCmp(p, FromBits(ClearSign(ToBits(d))), Epsilon)
  <2>1. Value(i5, w4) = FCmp(i5.pred, ValueOf(<<"dist", n>>, w4), ValueOf(<<"const", Epsilon>>, w4))
    BY <1>18 DEF Value
  <2>2. ValueOf(<<"const", Epsilon>>, w4) = Epsilon
    BY <1>27 DEF ValueOf
  <2> QED BY <2>1, <2>2, <1>18, <1>25, <1>33
<1>35. Keeps(val, w5, ins.name)
  BY <1>17, <1>18, <1>21, <1>22, <1>23, <1>24, <1>25, <1>26 DEF Keeps
<1> QED BY <1>2, <1>3, <1>9, <1>16, <1>29, <1>34, <1>35 DEF Distance
-----------------------------------------------------------------------------
(* What a function computes before and after.                               *)

\* What is computed under the name of an instruction.
Result(ins, ran, val) ==
  LET a == ValueOf(ins.args[1], val)
      b == ValueOf(ins.args[2], val)
  IN  IF "mba-sub" \in ran /\ isSub(ins) THEN Add(Add(a, Not(b)), 1)
      ELSE IF "convert-fcmp-eq" \in ran /\ isEquality(ins) THEN FCmp(CmpPred(ins.pred), Distance(a, b), Epsilon)
      ELSE Value(ins, val)

\* The operations with two operands.
Binary == {"sub", "add", "fsub", "fcmp"}

\* What an instruction has become computes its result, and keeps all else.
LEMMA BecameComputes ==
  ASSUME NEW ins \in Written, NEW ran, NEW val,
         ins.op \in Binary => HasValue(ins.args[1], val) /\ HasValue(ins.args[2], val)
  PROVE  LET w == After(val, Became(ins, ran))
         IN  Keeps(val, w, ins.name) /\ w[ins.name] = Result(ins, ran, val)
<1>1. CASE "mba-sub" \in ran /\ isSub(ins)
  <2>1. HasValue(ins.args[1], val) /\ HasValue(ins.args[2], val)
    BY <1>1 DEF isSub, Binary
  <2>2. Became(ins, ran) = Substitute(ins)
    BY <1>1 DEF Became
  <2>3. Keeps(val, After(val, Substitute(ins)), ins.name)
        /\ After(val, Substitute(ins))[ins.name] = Add(Add(ValueOf(ins.args[1], val), Not(ValueOf(ins.args[2], val))), 1)
    BY <2>1, SubComputes
  <2> QED BY <1>1, <2>2, <2>3 DEF Result
<1>2. CASE ~("mba-sub" \in ran /\ isSub(ins)) /\ "convert-fcmp-eq" \in ran /\ isEquality(ins)
  <2>1. HasValue(ins.args[1], val) /\ HasValue(ins.args[2], val) /\ ins.op = "fcmp"
    BY <1>2 DEF isEquality, Binary
  <2>2. Became(ins, ran) = convertFCmpEqInstruction(ins)
    BY <1>2 DEF Became
  <2>3. Keeps(val, After(val, convertFCmpEqInstruction(ins)), ins.name)
        /\ After(val, convertFCmpEqInstruction(ins))[ins.name] =
             FCmp(CmpPred(ins.pred), Distance(ValueOf(ins.args[1], val), ValueOf(ins.args[2], val)), Epsilon)
    BY <2>1, ConvertComputes
  <2> QED BY <1>2, <2>2, <2>3 DEF Result
<1>3. ASSUME ~("mba-sub" \in ran /\ isSub(ins)), ~("convert-fcmp-eq" \in ran /\ isEquality(ins))
      PROVE  Keeps(val, After(val, Became(ins, ran)), ins.name) /\ After(val, Became(ins, ran))[ins.name] = Result(ins, ran, val)
  <2>1. PICK x : x = IF "inputsVector" \in ran /\ ins.op = "phi" THEN [ins EXCEPT !.op = "select"] ELSE ins
    OBVIOUS
  <2>2. Became(ins, ran) = <<x>>
    BY <1>3, <2>1 DEF Became, AsSelect
  <2>3. x.name = ins.name /\ Value(x, val) = Value(ins, val)
    <3>1. CASE "inputsVector" \in ran /\ ins.op = "phi"
      <4>1. x.name = ins.name /\ x.op = "select" /\ x.args = ins.args
        BY <2>1, <3>1 DEF Written
      <4> QED BY <3>1, <4>1 DEF Value
    <3>2. CASE ~("inputsVector" \in ran /\ ins.op = "phi")
      BY <2>1, <3>2
    <3> QED BY <3>1, <3>2
  <2>4. After(val, <<x>>) = Compute(val, x)
    BY AfterOne
  <2>5. /\ DOMAIN Compute(val, x) = DOMAIN val \cup {x.name} /\ Compute(val, x)[x.name] = Value(x, val)
        /\ \A y \in DOMAIN val : y # x.name => Compute(val, x)[y] = val[y]
    BY ComputeIs
  <2>6. Result(ins, ran, val) = Value(ins, val)
    BY <1>3 DEF Result
  <2> QED BY <2>2, <2>3, <2>4, <2>5, <2>6 DEF Keeps
<1> QED BY <1>1, <1>2, <1>3

\* What an instruction of a type computes.
TypeOfValue(ty) == IF Floating(ty) THEN Doubles ELSE Words

\* What is computed of operands of a type is of that type.
LEMMA ValueTyped ==
  ASSUME NEW ins \in Written, ins.op # "fcmp", NEW val,
         ins.op \in Binary => Floating(ins.ty) = (ins.op \in {"fsub", "fcmp"}),
         ValueOf(ins.args[1], val) \in TypeOfValue(ins.ty),
         ins.op \in Binary => ValueOf(ins.args[2], val) \in TypeOfValue(ins.ty)
  PROVE  Value(ins, val) \in TypeOfValue(ins.ty)
<1>1. PICK a : a = ValueOf(ins.args[1], val)
  OBVIOUS
<1>2. PICK b : b = ValueOf(ins.args[2], val)
  OBVIOUS
<1>3. ins.op \in {"sub", "add", "fsub", "phi", "select"}
  BY DEF Written
<1>4. Modulus \in Nat \ {0} /\ MaxDouble \in Nat
  BY WidthAssumption, DoubleAssumption
<1>5. \A i \in Int : i % Modulus \in Words
  BY <1>4 DEF Words
<1>6. CASE ins.op = "sub"
  <2>1. a \in Int /\ b \in Int /\ TypeOfValue(ins.ty) = Words
    <3>1. TypeOfValue(ins.ty) = Words
      BY <1>6 DEF TypeOfValue, Binary
    <3>2. a \in Words /\ b \in Words
      BY <1>1, <1>2, <1>6, <3>1 DEF Binary
    <3> QED BY <1>4, <3>1, <3>2 DEF Words
  <2>2. Value(ins, val) = Sub(a, b)
    BY <1>1, <1>2, <1>6 DEF Value
  <2>3. a - b \in Int
    BY <2>1
  <2> QED BY <1>5, <2>1, <2>2, <2>3 DEF Sub
<1>7. CASE ins.op = "add"
  <2>1. a \in Int /\ b \in Int /\ TypeOfValue(ins.ty) = Words
    <3>1. TypeOfValue(ins.ty) = Words
      BY <1>7 DEF TypeOfValue, Binary
    <3>2. a \in Words /\ b \in Words
      BY <1>1, <1>2, <1>7, <3>1 DEF Binary
    <3> QED BY <1>4, <3>1, <3>2 DEF Words
  <2>2. Value(ins, val) = Add(a, b)
    BY <1>1, <1>2, <1>7 DEF Value
  <2>3. a + b \in Int
    BY <2>1
  <2> QED BY <1>5, <2>1, <2>2, <2>3 DEF Add
<1>8. CASE ins.op = "fsub"
  <2>1. a \in Doubles /\ b \in Doubles /\ TypeOfValue(ins.ty) = Doubles
    BY <1>1, <1>2, <1>8 DEF TypeOfValue, Binary
  <2>2. Value(ins, val) = FSub(a, b)
    BY <1>1, <1>2, <1>8 DEF Value
  <2>3. FSub(a, b) \in Doubles
    BY <1>4, <2>1 DEF FSub, Doubles, Inf, NaN, Magnitude
  <2> QED BY <2>1, <2>2, <2>3
<1>9. CASE ins.op \in {"phi", "select"}
  <2>1. Value(ins, val) = a
    BY <1>1, <1>9 DEF Value
  <2> QED BY <1>1, <2>1
<1> QED BY <1>3, <1>6, <1>7, <1>8, <1>9

\* What the instructions of a well-formed function are.
Ordinary(s) ==
  /\ s \in Seq(Written)
  /\ \A k \in DOMAIN s :
       /\ s[k].op \in Binary => Len(s[k].args) = 2 /\ Floating(s[k].ty) = (s[k].op \in {"fsub", "fcmp"})
       /\ Len(s[k].args) > 0
       /\ \A i \in DOMAIN s[k].args : OfType(s, k, s[k].args[i])
       /\ \A j \in DOMAIN s : s[j].name = s[k].name => j = k

\* The functions that the passes start with have them.
LEMMA OrdinaryIs ==
  ASSUME NEW f \in Functions
  PROVE  Ordinary(Instructions(f)) /\ Shaped(f, Written)
<1>1. WellFormedFunction(f)
  BY PassedFunctions
<1>2. Shaped(f, Written)
  BY <1>1 DEF WellFormedFunction, Shaped
<1>3. Instructions(f) \in Seq(Written)
  BY <1>2, InstructionsIn
<1>4. PICK s \in Seq(Written) : s = Instructions(f)
  BY <1>3
<1>5. \A k \in DOMAIN s :
        /\ s[k].op \in Binary => Len(s[k].args) = 2 /\ Floating(s[k].ty) = (s[k].op \in {"fsub", "fcmp"})
        /\ Len(s[k].args) > 0
        /\ \A i \in DOMAIN s[k].args : OfType(s, k, s[k].args[i])
        /\ \A j \in DOMAIN s : s[j].name = s[k].name => j = k
  BY <1>1, <1>4 DEF WellFormedFunction, Binary
<1> QED BY <1>2, <1>4, <1>5 DEF Ordinary

\* So the operands are there, and of their types.
LEMMA OperandsThere ==
  ASSUME NEW s, Ordinary(s), NEW k \in DOMAIN s
  PROVE  /\ s[k] \in Written /\ OfType(s, k, s[k].args[1])
         /\ s[k].op \in Binary => OfType(s, k, s[k].args[2]) /\ Floating(s[k].ty) = (s[k].op \in {"fsub", "fcmp"})
<1>1. s[k] \in Written
  BY DEF Ordinary
<1>2. PICK q : q = s[k].args
  OBVIOUS
<1>3. PICK A : A = ({"arg"} \X (1..4)) \cup ({"const"} \X (Words \cup Doubles)) \cup ({"inst"} \X Nat)
  OBVIOUS
<1>5. q \in Seq(A)
  BY <1>1, <1>2, <1>3 DEF Written
<1>4. 1 \in DOMAIN q /\ (s[k].op \in Binary => 2 \in DOMAIN q)
  BY <1>2, <1>5 DEF Ordinary
<1> QED BY <1>1, <1>2, <1>4 DEF Ordinary


\* Before and after the passes ran, an instruction computes the same, if it
\* is not a comparison, or what a comparison of the same operands does.
AgreedOn(ins, ran, e, g) ==
  /\ ins.name \in DOMAIN e /\ ins.name \in DOMAIN g
  /\ ins.op # "fcmp" => e[ins.name] = g[ins.name] /\ e[ins.name] \in TypeOfValue(ins.ty)
  /\ ins.op = "fcmp" =>
       LET a == ValueOf(ins.args[1], e)
           b == ValueOf(ins.args[2], e)
       IN  /\ a \in Doubles /\ b \in Doubles
           /\ e[ins.name] = FCmp(ins.pred, a, b)
           /\ g[ins.name] = IF "convert-fcmp-eq" \in ran /\ isEquality(ins)
                            THEN FCmp(CmpPred(ins.pred), Distance(a, b), Epsilon) ELSE FCmp(ins.pred, a, b)

\* The arguments are the same, and of their types.
ArgsAgreed(e, g) ==
  \A i \in 1..4 : /\ <<"arg", i>> \in DOMAIN e /\ <<"arg", i>> \in DOMAIN g
                  /\ e[<<"arg", i>>] = g[<<"arg", i>>]
                  /\ e[<<"arg", i>>] \in IF i \in {3, 4} THEN Doubles ELSE Words

\* So they are, and the first k instructions agree.
Agreed(s, ran, e, g, k) == ArgsAgreed(e, g) /\ \A j \in 1..k : AgreedOn(s[j], ran, e, g)

\* An operand is not an instruction that comes later.
LEMMA OperandEarlier ==
  ASSUME NEW s, Ordinary(s), NEW j \in DOMAIN s, NEW k \in DOMAIN s, j <= k, NEW arg, OfType(s, j, arg)
  PROVE  arg # s[k].name /\ s[k].name[1] = "inst"
<1>1. DOMAIN s = 1..Len(s) /\ Len(s) \in Nat
  BY DEF Ordinary
<1>2. s[k].name[1] = "inst"
  <2>1. s[k] \in Written
    BY DEF Ordinary
  <2> QED BY <2>1 DEF Written
<1>3. CASE arg[1] \in {"arg", "const"}
  BY <1>2, <1>3
<1>4. CASE \E i \in 1..(j - 1) : arg = s[i].name
  <2>1. PICK i \in 1..(j - 1) : arg = s[i].name
    BY <1>4
  <2>2. i \in DOMAIN s /\ i # k
    BY <1>1, <2>1
  <2> QED BY <1>2, <2>1, <2>2 DEF Ordinary
<1> QED BY <1>2, <1>3, <1>4 DEF OfType

\* An operand of one of these instructions, or of the next, has one value.
LEMMA OperandAgreed ==
  ASSUME NEW s, Ordinary(s), NEW ran, NEW e, NEW g, NEW k \in Nat, Agreed(s, ran, e, g, k),
         NEW j \in DOMAIN s, j <= k + 1, NEW arg, OfType(s, j, arg)
  PROVE  /\ HasValue(arg, e) /\ HasValue(arg, g)
         /\ ValueOf(arg, e) = ValueOf(arg, g) /\ ValueOf(arg, e) \in TypeOfValue(s[j].ty)
<1>1. DOMAIN s = 1..Len(s) /\ Len(s) \in Nat
  BY DEF Ordinary
<1>2. CASE arg \in {"arg"} \X (IF Floating(s[j].ty) THEN {3, 4} ELSE {1, 2})
  <2>1. PICK i \in (IF Floating(s[j].ty) THEN {3, 4} ELSE {1, 2}) : arg = <<"arg", i>>
    BY <1>2
  <2>2. i \in 1..4 /\ (i \in {3, 4} <=> Floating(s[j].ty))
    BY <2>1
  <2>3. arg[1] = "arg"
    BY <2>1
  <2> QED BY <2>1, <2>2, <2>3 DEF Agreed, ArgsAgreed, HasValue, Own, ValueOf, TypeOfValue
<1>3. CASE arg \in {"const"} \X (IF Floating(s[j].ty) THEN Doubles ELSE Words)
  <2>1. arg[1] = "const" /\ arg[2] \in IF Floating(s[j].ty) THEN Doubles ELSE Words
    BY <1>3
  <2> QED BY <2>1 DEF HasValue, ValueOf, TypeOfValue
<1>4. CASE \E i \in 1..(j - 1) : arg = s[i].name /\ s[i].op # "fcmp" /\ Floating(s[i].ty) = Floating(s[j].ty)
  <2>1. PICK i \in 1..(j - 1) : arg = s[i].name /\ s[i].op # "fcmp" /\ Floating(s[i].ty) = Floating(s[j].ty)
    BY <1>4
  <2>2. i \in DOMAIN s /\ i \in 1..k
    BY <1>1, <2>1
  <2>3. s[i] \in Written
    BY <2>2 DEF Ordinary
  <2>4. arg[1] = "inst"
    BY <2>1, <2>3 DEF Written
  <2>5. AgreedOn(s[i], ran, e, g)
    BY <2>2 DEF Agreed
  <2> QED BY <2>1, <2>4, <2>5 DEF AgreedOn, HasValue, Own, ValueOf, TypeOfValue
<1> QED BY <1>2, <1>3, <1>4 DEF OfType

\* Of the next instruction, by what it computes.
LEMMA NextAgreed ==
  ASSUME NEW s, Ordinary(s), NEW ran, NEW e, NEW g, NEW k \in Nat, k + 1 \in DOMAIN s, Agreed(s, ran, e, g, k)
  PROVE  Agreed(s, ran, Compute(e, s[k + 1]), After(g, Became(s[k + 1], ran)), k + 1)
<1>1. DOMAIN s = 1..Len(s) /\ Len(s) \in Nat
  BY DEF Ordinary
<1>2. PICK n \in DOMAIN s : n = k + 1
  OBVIOUS
<1>3. PICK ins \in Written : ins = s[n]
  BY DEF Ordinary
<1>4. PICK x : x = ins.name
  OBVIOUS
<1>5. PICK a : a = ins.args[1]
  OBVIOUS
<1>6. PICK b : b = ins.args[2]
  OBVIOUS
<1>7. OfType(s, n, a) /\ (ins.op \in Binary => OfType(s, n, b) /\ Floating(ins.ty) = (ins.op \in {"fsub", "fcmp"}))
  BY <1>3, <1>5, <1>6, OperandsThere
<1>8. /\ HasValue(a, e) /\ HasValue(a, g) /\ ValueOf(a, e) = ValueOf(a, g) /\ ValueOf(a, e) \in TypeOfValue(ins.ty)
  BY <1>2, <1>3, <1>7, OperandAgreed
<1>9. ASSUME ins.op \in Binary
      PROVE  HasValue(b, e) /\ HasValue(b, g) /\ ValueOf(b, e) = ValueOf(b, g) /\ ValueOf(b, e) \in TypeOfValue(ins.ty)
  <2>1. OfType(s, n, b)
    BY <1>7, <1>9
  <2> QED BY <1>2, <1>3, <2>1, OperandAgreed
<1>10. PICK e1 : e1 = Compute(e, ins)
  OBVIOUS
<1>11. PICK g1 : g1 = After(g, Became(ins, ran))
  OBVIOUS
<1>12. Keeps(e, e1, x) /\ e1[x] = Value(ins, e)
  <2>1. /\ DOMAIN Compute(e, ins) = DOMAIN e \cup {ins.name} /\ Compute(e, ins)[ins.name] = Value(ins, e)
        /\ \A y \in DOMAIN e : y # ins.name => Compute(e, ins)[y] = e[y]
    BY ComputeIs
  <2> QED BY <1>4, <1>10, <2>1 DEF Keeps
<1>13. Keeps(g, g1, x) /\ g1[x] = Result(ins, ran, g)
  <2>1. ins.op \in Binary => HasValue(ins.args[1], g) /\ HasValue(ins.args[2], g)
    BY <1>5, <1>6, <1>8, <1>9
  <2>2. Keeps(g, After(g, Became(ins, ran)), ins.name) /\ After(g, Became(ins, ran))[ins.name] = Result(ins, ran, g)
    BY <2>1, BecameComputes
  <2> QED BY <1>4, <1>11, <2>2
<1>14. x[1] = "inst" /\ x \in DOMAIN e1 /\ x \in DOMAIN g1
  BY <1>3, <1>4, <1>12, <1>13 DEF Written, Keeps
<1>15. ArgsAgreed(e1, g1)
  <2>1. \A i \in 1..4 : <<"arg", i>>[1] = "arg" /\ Own(<<"arg", i>>) /\ <<"arg", i>> # x
    BY <1>14 DEF Own
  <2>2. ArgsAgreed(e, g)
    BY DEF Agreed
  <2> QED BY <1>12, <1>13, <2>1, <2>2 DEF ArgsAgreed, Keeps
<1>16. Value(ins, e) = Value(ins, g)
  <2>1. ins.op \in {"phi", "select"} => Value(ins, e) = ValueOf(a, e) /\ Value(ins, g) = ValueOf(a, g)
    BY <1>5 DEF Value
  <2>2. ins.op \in Binary \cup {"phi", "select"}
    BY <1>3 DEF Written, Binary
  <2>3. CASE ins.op \in Binary
    <3>1. ValueOf(a, e) = ValueOf(a, g) /\ ValueOf(b, e) = ValueOf(b, g)
      BY <1>8, <1>9, <2>3
    <3>2. ins.op \in {"sub", "add", "fsub", "fcmp"}
      BY <2>3 DEF Binary
    <3> QED BY <1>5, <1>6, <3>1, <3>2 DEF Value
  <2> QED BY <1>8, <2>1, <2>2, <2>3
<1>17. ASSUME ins.op # "fcmp" PROVE e1[x] = g1[x] /\ e1[x] \in TypeOfValue(ins.ty)
  <2>1. Value(ins, e) \in TypeOfValue(ins.ty)
    BY <1>5, <1>6, <1>7, <1>8, <1>9, <1>17, ValueTyped
  <2>2. Result(ins, ran, g) = Value(ins, g)
    <3>1. CASE "mba-sub" \in ran /\ isSub(ins)
      <4>1. ins.op \in Binary /\ ins.op = "sub" /\ TypeOfValue(ins.ty) = Words
        BY <3>1 DEF isSub, Binary, TypeOfValue, Floating
      <4>2. ValueOf(a, g) \in Words /\ ValueOf(b, g) \in Words
        BY <1>8, <1>9, <4>1
      <4>3. Value(ins, g) = Sub(ValueOf(a, g), ValueOf(b, g))
        BY <1>5, <1>6, <4>1 DEF Value
      <4>4. Result(ins, ran, g) = Add(Add(ValueOf(a, g), Not(ValueOf(b, g))), 1)
        BY <1>5, <1>6, <3>1 DEF Result
      <4> QED BY <4>2, <4>3, <4>4, SubstitutionExact
    <3>2. CASE ~("mba-sub" \in ran /\ isSub(ins))
      BY <1>17, <3>2 DEF Result, isEquality
    <3> QED BY <3>1, <3>2
  <2> QED BY <1>12, <1>13, <1>16, <2>1, <2>2
<1>18. ASSUME ins.op = "fcmp"
       PROVE  /\ ValueOf(a, e1) = ValueOf(a, e) /\ ValueOf(b, e1) = ValueOf(b, e)
              /\ ValueOf(a, e) \in Doubles /\ ValueOf(b, e) \in Doubles
              /\ e1[x] = FCmp(ins.pred, ValueOf(a, e), ValueOf(b, e))
              /\ g1[x] = IF "convert-fcmp-eq" \in ran /\ isEquality(ins)
                         THEN FCmp(CmpPred(ins.pred), Distance(ValueOf(a, e), ValueOf(b, e)), Epsilon)
                         ELSE FCmp(ins.pred, ValueOf(a, e), ValueOf(b, e))
  <2>1. ins.op \in Binary /\ TypeOfValue(ins.ty) = Doubles /\ ~isSub(ins) /\ OfType(s, n, b)
    BY <1>7, <1>18 DEF Binary, TypeOfValue, isSub
  <2>2. a # x /\ b # x
    <3>1. n <= n
      BY <1>1
    <3> QED BY <1>3, <1>4, <1>7, <2>1, <3>1, OperandEarlier
  <2>3. ValueOf(a, e1) = ValueOf(a, e) /\ ValueOf(b, e1) = ValueOf(b, e)
    BY <1>8, <1>9, <1>12, <2>1, <2>2, OperandKept
  <2>4. Value(ins, e) = FCmp(ins.pred, ValueOf(a, e), ValueOf(b, e))
    BY <1>5, <1>6, <1>18 DEF Value
  <2>5. ValueOf(a, e) = ValueOf(a, g) /\ ValueOf(b, e) = ValueOf(b, g)
    BY <1>8, <1>9, <2>1
  <2>6. Result(ins, ran, g) = IF "convert-fcmp-eq" \in ran /\ isEquality(ins)
                              THEN FCmp(CmpPred(ins.pred), Distance(ValueOf(a, g), ValueOf(b, g)), Epsilon)
                              ELSE Value(ins, g)
    BY <1>5, <1>6, <2>1 DEF Result
  <2> QED BY <1>8, <1>9, <1>12, <1>13, <1>16, <2>1, <2>3, <2>4, <2>5, <2>6
<1>19. AgreedOn(ins, ran, e1, g1)
  BY <1>4, <1>5, <1>6, <1>14, <1>17, <1>18 DEF AgreedOn
<1>20. ASSUME NEW j \in 1..k PROVE AgreedOn(s[j], ran, e1, g1)
  <2>1. j \in DOMAIN s /\ j <= n /\ j <= k + 1 /\ j # n
    BY <1>1, <1>2
  <2>2. PICK y \in Written : y = s[j]
    BY <2>1 DEF Ordinary
  <2>3. AgreedOn(y, ran, e, g)
    BY <2>2 DEF Agreed
  <2>4. y.name # x /\ Own(y.name)
    <3>1. y.name # x
      BY <1>3, <1>4, <2>1, <2>2 DEF Ordinary
    <3> QED BY <3>1 DEF Own, Written
  <2>5. e1[y.name] = e[y.name] /\ g1[y.name] = g[y.name] /\ y.name \in DOMAIN e1 /\ y.name \in DOMAIN g1
    BY <1>12, <1>13, <2>3, <2>4 DEF Keeps, AgreedOn
  <2>6. ASSUME y.op = "fcmp"
        PROVE  ValueOf(y.args[1], e1) = ValueOf(y.args[1], e) /\ ValueOf(y.args[2], e1) = ValueOf(y.args[2], e)
    <3>1. OfType(s, j, y.args[1]) /\ OfType(s, j, y.args[2])
      BY <2>1, <2>2, <2>6, OperandsThere DEF Binary
    <3>2. PICK c : c = y.args[1]
      OBVIOUS
    <3>3. PICK d : d = y.args[2]
      OBVIOUS
    <3>4. HasValue(c, e) /\ HasValue(d, e)
      BY <2>1, <3>1, <3>2, <3>3, OperandAgreed
    <3>5. c # x /\ d # x
      BY <1>3, <1>4, <2>1, <3>1, <3>2, <3>3, OperandEarlier
    <3>6. ValueOf(c, e1) = ValueOf(c, e) /\ ValueOf(d, e1) = ValueOf(d, e)
      BY <1>12, <3>4, <3>5, OperandKept
    <3> QED BY <3>2, <3>3, <3>6
  <2> QED BY <2>2, <2>3, <2>5, <2>6 DEF AgreedOn
<1>21. \A j \in 1..n : AgreedOn(s[j], ran, e1, g1)
  <2>1. \A j \in 1..n : j = n \/ j \in 1..k
    BY <1>1, <1>2
  <2> QED BY <1>3, <1>19, <1>20, <2>1
<1> QED BY <1>2, <1>3, <1>10, <1>11, <1>15, <1>21 DEF Agreed


\* The arguments are of their types at the start.
LEMMA ArgumentsTyped ==
  ASSUME NEW args \in Arguments
  PROVE  ArgsAgreed(args, args)
<1>1. PICK p \in (Words \X Words \X {0} \X {0}) \cup ({0} \X {0} \X Doubles \X Doubles) :
             args = [x \in {"arg"} \X (1..4) |-> p[x[2]]]
  BY DEF Arguments
<1>2. 0 \in Words /\ 0 \in Doubles
  BY WidthAssumption, DoubleAssumption DEF Words, Doubles, Inf, NaN
<1>3. p[1] \in Words /\ p[2] \in Words /\ p[3] \in Doubles /\ p[4] \in Doubles
  BY <1>2
<1>4. ASSUME NEW i \in 1..4 PROVE <<"arg", i>> \in DOMAIN args /\ args[<<"arg", i>>] = p[i]
  BY <1>1
<1>5. \A i \in 1..4 : i = 1 \/ i = 2 \/ i = 3 \/ i = 4
  OBVIOUS
<1> HIDE <1>1
<1>6. \A i \in 1..4 : p[i] \in IF i \in {3, 4} THEN Doubles ELSE Words
  BY <1>3, <1>5
<1> QED BY <1>4, <1>6 DEF ArgsAgreed

\* A function is evaluated before and after it was changed.
LEMMA AllAgreed ==
  ASSUME NEW f \in Functions, NEW ran, NEW args \in Arguments
  PROVE  Agreed(Instructions(f), ran, Evaluate(f, args), Evaluate(Applied(f, ran), args), Len(Instructions(f)))
<1>1. PICK s \in Seq(Written) : s = Instructions(f) /\ Ordinary(s)
  BY OrdinaryIs DEF Ordinary
<1>2. PICK r \in Makers(Written, Pieces(Written)) : r = Made(ran)
  BY MadeType
<1>3. Shaped(f, Written)
  BY OrdinaryIs
<1>4. Instructions(Applied(f, ran)) = Each(r, s)
  BY <1>1, <1>2, <1>3, MappedType DEF Applied
<1>5. PICK n \in Nat : n = Len(s) /\ DOMAIN s = 1..n
  OBVIOUS
<1>6. PICK e : /\ e[0] = args
               /\ \A k \in 1..Len(s) : e[k] = Compute(e[k - 1], s[k])
               /\ After(args, s) = e[Len(s)]
  BY ComputeFolds
<1>7. PICK g : /\ g[0] = args
               /\ \A k \in 1..Len(s) : g[k] = After(g[k - 1], r[s[k]])
               /\ After(args, Each(r, s)) = g[Len(s)]
  BY AfterEach
<1> DEFINE N == {k \in Nat : k <= n => Agreed(s, ran, e[k], g[k], k)}
<1>8. 0 \in N
  <2>1. ArgsAgreed(args, args)
    BY ArgumentsTyped
  <2>2. Agreed(s, ran, args, args, 0)
    BY <2>1 DEF Agreed
  <2> QED BY <1>6, <1>7, <2>2
<1>9. ASSUME NEW k \in Nat, k \in N PROVE k + 1 \in N
  <2> SUFFICES ASSUME k + 1 <= n PROVE Agreed(s, ran, e[k + 1], g[k + 1], k + 1)
    OBVIOUS
  <2>1. k + 1 \in DOMAIN s /\ k + 1 \in 1..Len(s) /\ (k + 1) - 1 = k /\ Agreed(s, ran, e[k], g[k], k)
    BY <1>5, <1>9
  <2>2. PICK a : a = e[k]
    OBVIOUS
  <2>3. PICK b : b = g[k]
    OBVIOUS
  <2>4. Agreed(s, ran, Compute(a, s[k + 1]), After(b, Became(s[k + 1], ran)), k + 1)
    BY <1>1, <2>1, <2>2, <2>3, NextAgreed
  <2>5. s[k + 1] \in Written
    BY <2>1
  <2>6. r[s[k + 1]] = Became(s[k + 1], ran)
    BY <1>2, <2>5 DEF Made
  <2> QED BY <1>6, <1>7, <2>1, <2>2, <2>3, <2>4, <2>6
<1>10. n \in N
  <2> HIDE DEF N
  <2> QED BY <1>8, <1>9, NatInd
<1>11. Evaluate(f, args) = e[n] /\ Evaluate(Applied(f, ran), args) = g[n]
  BY <1>1, <1>4, <1>5, <1>6, <1>7 DEF Evaluate, After
<1> QED BY <1>1, <1>5, <1>10, <1>11

\* Which comparisons have been converted.
LEMMA ConvertedIs ==
  ASSUME NEW f \in Functions, NEW ran, NEW y \in ToSet(Instructions(f)), isEquality(y)
  PROVE  (\E i \in ToSet(Instructions(Applied(f, ran))) : i.name = y.name /\ i.op = "fcmp" /\ ~isEquality(i))
           <=> "convert-fcmp-eq" \in ran
<1>1. PICK s \in Seq(Written) : s = Instructions(f) /\ Ordinary(s)
  BY OrdinaryIs DEF Ordinary
<1>2. PICK r \in Makers(Written, Pieces(Written)) : r = Made(ran)
  BY MadeType
<1>3. Instructions(Applied(f, ran)) = Each(r, s)
  BY <1>1, <1>2, OrdinaryIs, MappedType DEF Applied
<1>4. /\ \A x \in ToSet(Each(r, s)) : \E z \in ToSet(s) : x \in ToSet(r[z])
      /\ \A z \in ToSet(s) : ToSet(r[z]) \subseteq ToSet(Each(r, s))
  BY EachMembers
<1>5. \A z \in ToSet(s) : z \in Written /\ r[z] = Became(z, ran)
  BY <1>1, <1>2 DEF ToSet, Made
<1>6. y \in ToSet(s) /\ y \in Written /\ y.op = "fcmp"
  BY <1>1, <1>5 DEF isEquality
<1>7. ASSUME "convert-fcmp-eq" \in ran
      PROVE  \E i \in ToSet(Each(r, s)) : i.name = y.name /\ i.op = "fcmp" /\ ~isEquality(i)
  <2>1. r[y] = convertFCmpEqInstruction(y)
    BY <1>5, <1>6, <1>7 DEF Became, isSub
  <2>2. PICK i : i = convertFCmpEqInstruction(y)[5]
    OBVIOUS
  <2>3. i \in ToSet(Each(r, s))
    <3>1. DOMAIN convertFCmpEqInstruction(y) = 1..5
      BY <1>6, NewKinds
    <3>2. i \in ToSet(r[y])
      BY <2>1, <2>2, <3>1 DEF ToSet
    <3> QED BY <1>4, <1>6, <3>2
  <2>4. i.name = y.name /\ i.op = "fcmp"
    <3>1. PICK q : q = << <<"dist", y.name[2]>>, <<"const", Epsilon>> >>
      OBVIOUS
    <3>2. PICK m : m = CmpPred(y.pred)
      OBVIOUS
    <3>3. i = [y EXCEPT !.pred = m, !.args = q]
      BY <2>2, <3>1, <3>2 DEF convertFCmpEqInstruction
    <3>4. i.name = y.name /\ i.op = y.op
      BY <1>6, <3>3, ConvertedFields
    <3> QED BY <1>6, <3>4
  <2>5. ~isEquality(i)
    <3>1. \A j \in 1..5 : ~isEquality(convertFCmpEqInstruction(y)[j])
      BY <1>6, NewKinds
    <3> QED BY <2>2, <3>1
  <2> QED BY <2>3, <2>4, <2>5
<1>8. ASSUME "convert-fcmp-eq" \notin ran, NEW i \in ToSet(Each(r, s)), i.name = y.name, i.op = "fcmp", ~isEquality(i)
      PROVE  FALSE
  <2>1. PICK z \in ToSet(s) : i \in ToSet(r[z])
    BY <1>4
  <2>2. z \in Written /\ r[z] = Became(z, ran)
    BY <1>5
  <2>3. CASE "mba-sub" \in ran /\ isSub(z)
    <3>1. DOMAIN Substitute(z) = 1..3 /\ \A j \in 1..3 : Substitute(z)[j].op \in {"xor", "add"}
      BY <2>2, NewKinds
    <3>2. r[z] = Substitute(z)
      BY <2>2, <2>3 DEF Became
    <3> QED BY <1>8, <2>1, <3>1, <3>2 DEF ToSet
  <2>4. CASE ~("mba-sub" \in ran /\ isSub(z)) /\ "inputsVector" \in ran /\ z.op = "phi"
    <3>1. DOMAIN AsSelect(z) = 1..1 /\ AsSelect(z)[1].op = "select"
      BY <2>2, NewKinds
    <3>2. r[z] = AsSelect(z)
      BY <1>8, <2>2, <2>4 DEF Became
    <3> QED BY <1>8, <2>1, <3>1, <3>2 DEF ToSet
  <2>5. CASE ~("mba-sub" \in ran /\ isSub(z)) /\ ~("inputsVector" \in ran /\ z.op = "phi")
    <3>1. r[z] = <<z>>
      BY <1>8, <2>2, <2>5 DEF Became
    <3>2. i = z
      BY <2>1, <3>1 DEF ToSet
    <3>3. PICK j \in DOMAIN s : s[j] = z
      BY DEF ToSet
    <3>4. PICK k \in DOMAIN s : s[k] = y
      BY <1>6 DEF ToSet
    <3>5. j = k
      BY <1>1, <1>8, <3>2, <3>3, <3>4 DEF Ordinary
    <3> QED BY <1>8, <3>2, <3>3, <3>4, <3>5
  <2> QED BY <2>3, <2>4, <2>5
<1> QED BY <1>3, <1>7, <1>8

\* Whatever passes are run, however often and in whatever order, a function
\* computes what it did before them, but for exactly the comparisons that were
\* converted and are blurred, for every function, argument, width, range of
\* doubles and epsilon (MBASub.cpp:42-82, ConvertFCmpEq.cpp:56-120).
THEOREM PassesKeepValues == FunctionSpec => []ValuesKept
<1>1. Known => ValuesKept
  <2> SUFFICES ASSUME Known, NEW args \in Arguments, NEW ins \in ToSet(Instructions(original))
               PROVE  LET before == Evaluate(original, args)
                          now    == Evaluate(F, args)
                          converted == {i.name : i \in {i \in ToSet(Instructions(F)) : i.op = "fcmp" /\ ~isEquality(i)}}
                      IN  now[ins.name] # before[ins.name] <=>
                            /\ isEquality(ins) /\ ins.name \in converted
                            /\ Blurred(ins.pred, ValueOf(ins.args[1], before), ValueOf(ins.args[2], before))
    BY DEF ValuesKept
  <2>1. PICK ran : F = Applied(original, ran)
    BY DEF Known
  <2>2. original \in Functions
    BY DEF Known
  <2>3. PICK e : e = Evaluate(original, args)
    OBVIOUS
  <2>4. PICK g : g = Evaluate(F, args)
    OBVIOUS
  <2>5. PICK s : s = Instructions(original) /\ Ordinary(s)
    BY <2>2, OrdinaryIs
  <2>6. PICK k \in DOMAIN s : s[k] = ins
    BY <2>5 DEF ToSet
  <2>7. AgreedOn(ins, ran, e, g)
    <3>1. Agreed(s, ran, e, g, Len(s))
      BY <2>1, <2>2, <2>3, <2>4, <2>5, AllAgreed
    <3>2. k \in 1..Len(s)
      BY <2>5 DEF Ordinary
    <3> QED BY <2>6, <3>1, <3>2 DEF Agreed
  <2>8. ins.name \in {i.name : i \in {i \in ToSet(Instructions(F)) : i.op = "fcmp" /\ ~isEquality(i)}}
          <=> \E i \in ToSet(Instructions(F)) : i.name = ins.name /\ i.op = "fcmp" /\ ~isEquality(i)
    BY Zenon
  <2>9. isEquality(ins) => (ins.name \in {i.name : i \in {i \in ToSet(Instructions(F)) : i.op = "fcmp" /\ ~isEquality(i)}}
                             <=> "convert-fcmp-eq" \in ran)
    BY <2>1, <2>2, <2>8, ConvertedIs
  <2>10. CASE ~isEquality(ins)
    <3>1. g[ins.name] = e[ins.name]
      BY <2>7, <2>10 DEF AgreedOn
    <3> QED BY <2>3, <2>4, <2>10, <3>1
  <2>11. CASE isEquality(ins)
    <3>1. PICK a \in Doubles : a = ValueOf(ins.args[1], e)
      BY <2>7, <2>11 DEF AgreedOn, isEquality
    <3>2. PICK b \in Doubles : b = ValueOf(ins.args[2], e)
      BY <2>7, <2>11 DEF AgreedOn, isEquality
    <3>3. e[ins.name] = FCmp(ins.pred, a, b)
          /\ g[ins.name] = IF "convert-fcmp-eq" \in ran THEN FCmp(CmpPred(ins.pred), Distance(a, b), Epsilon)
                                                        ELSE FCmp(ins.pred, a, b)
      BY <2>7, <2>11, <3>1, <3>2 DEF AgreedOn, isEquality
    <3>4. FCmp(CmpPred(ins.pred), Distance(a, b), Epsilon) # FCmp(ins.pred, a, b) <=> Blurred(ins.pred, a, b)
      BY <2>11, ConversionExact DEF isEquality
    <3> QED BY <2>3, <2>4, <2>9, <2>11, <3>1, <3>2, <3>3, <3>4
  <2> QED BY <2>10, <2>11
<1>2. FunctionSpec => [](Known /\ Converts)
  BY InitKnown, NextKnown, PTL DEF FunctionSpec
<1> QED BY <1>1, <1>2, PTL

=============================================================================
