------------------------------- MODULE Facts -------------------------------
(* What the proofs need of the numbers and of control-flow graphs, whatever   *)
(* is done to them. Of the numbers: remainders, the least of a set, induction *)
(* and recursion over the naturals, stated with sets and functions so that    *)
(* they can be used of a function that is defined by recursion. Of the        *)
(* graphs: what is reached, dominators, the sides of branches and loops.      *)
EXTENDS CFG, Integers, FiniteSetTheorems, TLAPS

-----------------------------------------------------------------------------
(* Numbers.                                                                  *)

\* What holds of 0 and, with n, of n + 1 holds of every natural number. Were n
\* out of S, then m |-> m + 1 would inject the members of S up to n into those
\* of them that are not 0, which are fewer.
THEOREM NatInd ==
  ASSUME NEW S, 0 \in S, \A n \in Nat : n \in S => n + 1 \in S
  PROVE  Nat \subseteq S
<1> SUFFICES ASSUME NEW n \in Nat, n \notin S PROVE FALSE
  OBVIOUS
<1> DEFINE X == {m \in 0..n : m \in S}
<1>1. IsFiniteSet(X)
  <2>1. IsFiniteSet(0..n)
    BY FS_Interval
  <2>2. X \in SUBSET (0..n)
    OBVIOUS
  <2> HIDE DEF X
  <2> QED
    BY <2>1, <2>2, FS_Subset
<1>2. 0 \in X /\ IsFiniteSet(X \ {0}) /\ Cardinality(X \ {0}) = Cardinality(X) - 1
  <2>1. 0 \in X
    OBVIOUS
  <2> HIDE DEF X
  <2> QED
    BY <1>1, <2>1, FS_RemoveElement
<1>3. Cardinality(X) \in Nat
  BY <1>1, FS_CardinalityType
<1> DEFINE up == [m \in X |-> m + 1]
<1>4. \A m \in X : m # n /\ m + 1 \in X \ {0}
  OBVIOUS
<1>5. up \in Injection(X, X \ {0})
  BY <1>4 DEF Injection, IsInjective
<1>6. Cardinality(X) <= Cardinality(X \ {0})
  BY <1>2, <1>5, FS_Injection
<1> QED
  BY <1>2, <1>3, <1>6

\* Every set of naturals but the empty one has a least member: were there
\* none, every number would be below all of them.
THEOREM LeastNat ==
  ASSUME NEW T \in SUBSET Nat, T # {}
  PROVE  \E m \in T : \A n \in T : m <= n
<1> SUFFICES ASSUME \A m \in T : \E n \in T : n < m PROVE FALSE
  OBVIOUS
<1> DEFINE S == {n \in Nat : \A t \in T : n <= t}
<1>1. 0 \in S
  OBVIOUS
<1>2. ASSUME NEW n \in Nat, n \in S PROVE n + 1 \in S
  <2>1. n \notin T
    BY <1>2
  <2> QED
    BY <1>2, <2>1
<1>3. Nat \subseteq S
  <2> HIDE DEF S
  <2> QED
    BY <1>1, <1>2, NatInd
<1>4. PICK t \in T : t \in Nat
  OBVIOUS
<1> QED
  BY <1>3, <1>4

\* f starts with a and steps with G.
Recursion(f, V, a, G) ==
  /\ f \in [Nat -> V]
  /\ f[0] = a
  /\ \A n \in Nat \ {0} : f[n] = G[<<n, f[n - 1]>>]

\* Such a function exists: for every n there are functions that do so up to n,
\* they agree, and f[n] is what they have for n.
THEOREM RecursiveFunction ==
  ASSUME NEW V, NEW a \in V, NEW G \in [Nat \X V -> V]
  PROVE  \E f : Recursion(f, V, a, G)
<1> DEFINE Att(n) == {h \in [Nat -> V] : /\ h[0] = a
                                         /\ \A i \in 1..n : h[i] = G[<<i, h[i - 1]>>]}
<1>1. \A n \in Nat : Att(n) # {}
  <2> DEFINE S == {n \in Nat : Att(n) # {}}
  <2>1. 0 \in S
    <3>1. [i \in Nat |-> a] \in Att(0)
      OBVIOUS
    <3> QED
      BY <3>1
  <2>2. ASSUME NEW n \in Nat, n \in S PROVE n + 1 \in S
    <3>1. PICK h \in Att(n) : TRUE
      BY <2>2
    <3> DEFINE g == [h EXCEPT ![n + 1] = G[<<n + 1, h[n]>>]]
    <3>2. G[<<n + 1, h[n]>>] \in V
      BY <3>1
    <3>3. g \in [Nat -> V] /\ g[0] = a
      BY <3>1, <3>2
    <3>4. ASSUME NEW i \in 1..(n + 1) PROVE g[i] = G[<<i, g[i - 1]>>]
      <4>1. i - 1 \in Nat /\ i - 1 # n + 1 /\ g[i - 1] = h[i - 1]
        BY <3>1
      <4>2. CASE i = n + 1
        BY <4>1, <4>2, <3>1
      <4>3. CASE i # n + 1
        BY <4>1, <4>3, <3>1
      <4> QED
        BY <4>2, <4>3
    <3>5. g \in Att(n + 1)
      BY <3>3, <3>4
    <3> HIDE DEF g, Att
    <3> QED
      BY <3>5
  <2>3. Nat \subseteq S
    <3> HIDE DEF S
    <3> QED
      BY <2>1, <2>2, NatInd
  <2> QED
    BY <2>3
<1>2. \A i \in Nat : \A m, n \in Nat : \A h \in Att(m), g \in Att(n) :
        i <= m /\ i <= n => h[i] = g[i]
  <2> DEFINE S == {i \in Nat : \A m, n \in Nat : \A h \in Att(m), g \in Att(n) :
                                 i <= m /\ i <= n => h[i] = g[i]}
  <2>1. 0 \in S
    OBVIOUS
  <2>2. ASSUME NEW i \in Nat, i \in S PROVE i + 1 \in S
    <3> SUFFICES ASSUME NEW m \in Nat, NEW n \in Nat, NEW h \in Att(m), NEW g \in Att(n),
                        i + 1 <= m, i + 1 <= n
                 PROVE  h[i + 1] = g[i + 1]
      <4>1. i + 1 \in Nat
        OBVIOUS
      <4> HIDE DEF Att
      <4> QED
        BY <4>1
    <3>1. h[i] = g[i]
      <4>1. i <= m /\ i <= n
        OBVIOUS
      <4> QED
        BY <2>2, <4>1
    <3>2. i + 1 \in 1..m /\ i + 1 \in 1..n /\ (i + 1) - 1 = i
      OBVIOUS
    <3>3. h[i + 1] = G[<<i + 1, h[i]>>] /\ g[i + 1] = G[<<i + 1, g[i]>>]
      BY <3>2
    <3> QED
      BY <3>1, <3>3
  <2>3. Nat \subseteq S
    <3> HIDE DEF S
    <3> QED
      BY <2>1, <2>2, NatInd
  <2> QED
    BY <2>3
<1> DEFINE att == [n \in Nat |-> CHOOSE h \in Att(n) : TRUE]
<1>3. \A n \in Nat : att[n] \in Att(n)
  BY <1>1
<1> HIDE DEF att
<1> DEFINE f == [n \in Nat |-> att[n][n]]
<1>4. f \in [Nat -> V]
  BY <1>3
<1>5. ASSUME NEW n \in Nat PROVE f[n] = IF n = 0 THEN a ELSE G[<<n, f[n - 1]>>]
  <2>1. CASE n = 0
    BY <1>3, <2>1
  <2>2. CASE n # 0
    <3>1. n \in 1..n /\ n - 1 \in Nat
      BY <2>2
    <3>2. att[n][n] = G[<<n, att[n][n - 1]>>]
      BY <1>3, <3>1
    <3>3. att[n][n - 1] = att[n - 1][n - 1]
      <4>1. n - 1 <= n /\ n - 1 <= n - 1
        BY <3>1
      <4> HIDE DEF Att
      <4> QED
        BY <1>2, <1>3, <3>1, <4>1
    <3> QED
      BY <2>2, <3>1, <3>2, <3>3
  <2> QED
    BY <2>1, <2>2
<1>6. Recursion(f, V, a, G)
  BY <1>3, <1>4, <1>5 DEF Recursion
<1> QED
  BY <1>6

\* A remainder is the only number below m that differs by a multiple of m.
THEOREM RemainderUnique ==
  ASSUME NEW m \in Nat \ {0}, NEW q \in Int, NEW r \in 0..(m - 1)
  PROVE  (m * q + r) % m = r
<1> DEFINE a == m * q + r  p == a \div m  s == a % m
<1>1. a \in Int /\ p \in Int /\ s \in 0..(m - 1) /\ a = m * p + s
  OBVIOUS
<1>2. m * (q - p) = s - r
  BY <1>1
<1>3. ~(q - p >= 1)
  <2>1. q - p >= 1 => m * (q - p) >= m
    BY <1>1
  <2> QED BY <2>1, <1>1, <1>2
<1>4. ~(q - p <= -1)
  <2>1. q - p <= -1 => m * (q - p) <= -m
    BY <1>1
  <2> QED BY <2>1, <1>1, <1>2
<1>5. q = p
  BY <1>1, <1>3, <1>4
<1> QED BY <1>1, <1>5

\* Numbers that a multiple of m lies between have the same remainder.
THEOREM SameRemainder ==
  ASSUME NEW m \in Nat \ {0}, NEW a \in Int, NEW k \in Int
  PROVE  (a + m * k) % m = a % m /\ a % m \in 0..(m - 1)
<1> DEFINE q == a \div m  r == a % m
<1>1. q \in Int /\ r \in 0..(m - 1) /\ a = m * q + r
  OBVIOUS
<1> HIDE DEF q, r
<1>2. a + m * k = m * (q + k) + r /\ q + k \in Int
  BY <1>1
<1>3. (m * (q + k) + r) % m = r
  BY <1>1, <1>2, RemainderUnique
<1> QED BY <1>1, <1>2, <1>3 DEF r

-----------------------------------------------------------------------------
(* Control-flow graphs.                                                      *)

\* A terminator has no, one or two successors, all of them blocks.
LEMMA Successors ==
  ASSUME NEW f, WellFormed(f), NEW b \in f.block
  PROVE  \/ f.succ[b] = <<>> /\ Len(f.succ[b]) = 0 /\ SuccSet(f, b) = {}
         \/ /\ Len(f.succ[b]) = 1 /\ f.succ[b] # <<>>
            /\ f.succ[b][1] \in f.block /\ SuccSet(f, b) = {f.succ[b][1]}
         \/ /\ Len(f.succ[b]) = 2 /\ f.succ[b] # <<>>
            /\ f.succ[b][1] \in f.block /\ f.succ[b][2] \in f.block
            /\ SuccSet(f, b) = {f.succ[b][1], f.succ[b][2]}
<1>1. CASE f.succ[b] = <<>>
  BY <1>1 DEF SuccSet
<1>2. CASE \E s \in f.block : f.succ[b] = <<s>>
  <2>1. PICK s \in f.block : f.succ[b] = <<s>>
    BY <1>2
  <2>2. Len(f.succ[b]) = 1 /\ f.succ[b][1] = s
    BY <2>1
  <2>3. SuccSet(f, b) = {s}
    BY <2>2 DEF SuccSet
  <2>. QED
    BY <2>1, <2>2, <2>3
<1>3. CASE \E s, t \in f.block : f.succ[b] = <<s, t>>
  <2>1. PICK s \in f.block, t \in f.block : f.succ[b] = <<s, t>>
    BY <1>3
  <2>2. Len(f.succ[b]) = 2 /\ f.succ[b][1] = s /\ f.succ[b][2] = t
    BY <2>1
  <2>3. SuccSet(f, b) = {s, t}
    BY <2>2 DEF SuccSet
  <2>. QED
    BY <2>1, <2>2, <2>3
<1>. QED
  BY <1>1, <1>2, <1>3 DEF WellFormed

-----------------------------------------------------------------------------
(* Reachability: ReachAvoiding is the least set closed under successors.     *)

Graph(f) == IsFiniteSet(f.block) /\ \A b \in f.block : SuccSet(f, b) \subseteq f.block

\* Control that is in T stays in it until it comes to a block of A.
Closed(f, T, A) == \A b \in T : \A s \in SuccSet(f, b) : s \in T \/ s \in A

\* One step of ReachAvoiding's recursion, and the whole of it.
Widen(f, T, A) == T \cup ((UNION {SuccSet(f, b) : b \in T}) \ A)

Rounds(f, S, A, reach) ==
  /\ reach \in [Nat -> SUBSET f.block]
  /\ reach[0] = S \ A
  /\ \A n \in Nat : reach[n + 1] = Widen(f, reach[n], A)

\* ReachAvoiding is what its rounds have come to after as many as there are
\* blocks.
LEMMA ReachRounds ==
  ASSUME NEW f, Graph(f), NEW S \in SUBSET f.block, NEW A
  PROVE  \E reach : Rounds(f, S, A, reach) /\ ReachAvoiding(f, S, A) = reach[Cardinality(f.block)]
<1> DEFINE V == SUBSET f.block
           a == S \ A
           G == [x \in Nat \X V |-> x[2] \cup ((UNION {SuccSet(f, b) : b \in x[2]}) \ A)]
           reach == CHOOSE r : r = [n \in Nat |->
                       IF n = 0 THEN S \ A
                       ELSE LET prev == r[n - 1]
                            IN  prev \cup ((UNION {SuccSet(f, b) : b \in prev}) \ A)]
<1>1. a \in V /\ G \in [Nat \X V -> V]
  <2>1. \A x \in Nat \X V : x[2] \cup ((UNION {SuccSet(f, b) : b \in x[2]}) \ A) \in V
    BY DEF Graph
  <2> QED
    BY <2>1
<1>2. PICK r : Recursion(r, V, a, G)
  <2> HIDE DEF V, a, G
  <2> QED
    BY <1>1, RecursiveFunction
<1>3. \A n \in Nat \ {0} : G[<<n, r[n - 1]>>] = r[n - 1] \cup ((UNION {SuccSet(f, b) : b \in r[n - 1]}) \ A)
  <2> SUFFICES ASSUME NEW n \in Nat \ {0}
               PROVE  G[<<n, r[n - 1]>>] = r[n - 1] \cup ((UNION {SuccSet(f, b) : b \in r[n - 1]}) \ A)
    OBVIOUS
  <2>1. n - 1 \in Nat
    OBVIOUS
  <2>2. r[n - 1] \in V
    BY <1>2, <2>1 DEF Recursion
  <2> QED
    BY <2>2
<1>4. r = [n \in Nat |-> IF n = 0 THEN S \ A
                         ELSE LET prev == r[n - 1]
                              IN  prev \cup ((UNION {SuccSet(f, b) : b \in prev}) \ A)]
  <2> HIDE DEF V, G
  <2> QED
    BY <1>2, <1>3 DEF Recursion
<1>5. reach = [n \in Nat |-> IF n = 0 THEN S \ A
                         ELSE LET prev == reach[n - 1]
                              IN  prev \cup ((UNION {SuccSet(f, b) : b \in prev}) \ A)]
  BY <1>4
<1>6. ReachAvoiding(f, S, A) = reach[Cardinality(f.block)]
  BY DEF ReachAvoiding
<1> HIDE DEF reach
<1>7. reach[0] = S \ A
  BY <1>5
<1>8. \A n \in Nat : reach[n + 1] = Widen(f, reach[n], A)
  <2> SUFFICES ASSUME NEW n \in Nat PROVE reach[n + 1] = Widen(f, reach[n], A)
    OBVIOUS
  <2>1. n + 1 \in Nat /\ n + 1 # 0 /\ (n + 1) - 1 = n
    OBVIOUS
  <2> QED
    BY <1>5, <2>1 DEF Widen
<1>9. reach \in [Nat -> V]
  <2> DEFINE N == {n \in Nat : reach[n] \in V}
  <2>1. 0 \in N
    BY <1>7
  <2>2. ASSUME NEW n \in Nat, n \in N PROVE n + 1 \in N
    <3>1. Widen(f, reach[n], A) \in V
      BY <2>2 DEF Widen, Graph
    <3> QED
      BY <1>8, <3>1
  <2>3. Nat \subseteq N
    <3> HIDE DEF N
    <3> QED
      BY <2>1, <2>2, NatInd
  <2>4. \A n \in Nat : reach[n] \in V
    BY <2>3
  <2>5. DOMAIN reach = Nat
    BY <1>5
  <2> HIDE DEF V
  <2> QED
    BY <1>5, <2>4, <2>5
<1> QED
  BY <1>6, <1>7, <1>8, <1>9 DEF Rounds

\* A round adds the successors that are not avoided.
LEMMA RoundAdds ==
  ASSUME NEW f, NEW S, NEW A, NEW reach, Rounds(f, S, A, reach), NEW n \in Nat
  PROVE  \A x : x \in reach[n + 1] <=>
                 x \in reach[n] \/ (x \notin A /\ \E b \in reach[n] : x \in SuccSet(f, b))
<1>1. reach[n + 1] = Widen(f, reach[n], A)
  BY DEF Rounds
<1>2. \A T : \A x : x \in Widen(f, T, A) <=>
                    x \in T \/ (x \notin A /\ \E b \in T : x \in SuccSet(f, b))
  <2> TAKE T, x
  <2> DEFINE U == UNION {SuccSet(f, b) : b \in T}
  <2>1. x \in U <=> \E b \in T : x \in SuccSet(f, b)
    BY Zenon
  <2>2. Widen(f, T, A) = T \cup (U \ A)
    BY DEF Widen
  <2> HIDE DEF U
  <2> QED
    BY <2>1, <2>2
<1> QED
  BY <1>1, <1>2

\* A finite set is only grown so many times: the last round adds nothing.
LEMMA RoundsEnd ==
  ASSUME NEW f, Graph(f), NEW S \in SUBSET f.block, NEW A, NEW reach,
         Rounds(f, S, A, reach)
  PROVE  Closed(f, reach[Cardinality(f.block)], A)
<1> DEFINE m == Cardinality(f.block)
<1>1. m \in Nat
  BY FS_CardinalityType DEF Graph
<1>2. \A n \in Nat : /\ reach[n] \subseteq reach[n + 1] /\ reach[n] \in SUBSET f.block
                     /\ IsFiniteSet(reach[n]) /\ Cardinality(reach[n]) \in Nat
                     /\ Cardinality(reach[n]) <= m
  <2> SUFFICES ASSUME NEW n \in Nat
               PROVE  /\ reach[n] \subseteq reach[n + 1] /\ reach[n] \in SUBSET f.block
                      /\ IsFiniteSet(reach[n]) /\ Cardinality(reach[n]) \in Nat
                      /\ Cardinality(reach[n]) <= m
    OBVIOUS
  <2>1. reach[n] \subseteq reach[n + 1] /\ reach[n] \in SUBSET f.block
    BY DEF Rounds, Widen
  <2>2. IsFiniteSet(reach[n]) /\ Cardinality(reach[n]) <= m
    BY <2>1, FS_Subset DEF Graph
  <2> QED
    BY <2>1, <2>2, FS_CardinalityType
<1>3. \A n \in Nat : Closed(f, reach[n], A) => Closed(f, reach[n + 1], A)
  <2> SUFFICES ASSUME NEW n \in Nat, Closed(f, reach[n], A)
               PROVE  Closed(f, reach[n + 1], A)
    OBVIOUS
  <2>1. \A x : x \in reach[n + 1] <=> x \in reach[n]
    BY RoundAdds DEF Closed
  <2> QED
    BY <2>1 DEF Closed
<1>4. \A n \in Nat : ~Closed(f, reach[n], A) => Cardinality(reach[n + 1]) > Cardinality(reach[n])
  <2> SUFFICES ASSUME NEW n \in Nat, ~Closed(f, reach[n], A)
               PROVE  Cardinality(reach[n + 1]) > Cardinality(reach[n])
    OBVIOUS
  <2>1. PICK x \in reach[n + 1] : x \notin reach[n]
    BY RoundAdds DEF Closed
  <2>2. n + 1 \in Nat
    OBVIOUS
  <2>3. /\ IsFiniteSet(reach[n + 1]) /\ reach[n] \subseteq reach[n + 1] /\ reach[n] # reach[n + 1]
    BY <1>2, <2>1, <2>2
  <2>4. Cardinality(reach[n]) < Cardinality(reach[n + 1])
    <3>1. Cardinality(reach[n]) <= Cardinality(reach[n + 1])
      BY <2>3, FS_Subset
    <3>2. Cardinality(reach[n]) # Cardinality(reach[n + 1])
      BY <2>3, FS_Subset
    <3> QED
      BY <1>2, <2>2, <3>1, <3>2
  <2> QED
    BY <1>2, <2>2, <2>4
<1> DEFINE N == {n \in Nat : Closed(f, reach[n], A) \/ Cardinality(reach[n]) >= n}
<1>5. 0 \in N
  BY <1>2
<1>6. ASSUME NEW n \in Nat, n \in N PROVE n + 1 \in N
  <2>1. n + 1 \in Nat
    OBVIOUS
  <2>2. CASE Closed(f, reach[n], A)
    BY <1>3, <2>1, <2>2
  <2>3. CASE ~Closed(f, reach[n], A)
    <3>1. Cardinality(reach[n]) >= n
      BY <1>6, <2>3
    <3>2. Cardinality(reach[n + 1]) > Cardinality(reach[n])
      BY <1>4, <2>3
    <3>3. Cardinality(reach[n + 1]) >= n + 1
      BY <1>2, <2>1, <3>1, <3>2
    <3> QED
      BY <2>1, <3>3
  <2> QED
    BY <2>2, <2>3
<1>7. Nat \subseteq N
  <2> HIDE DEF N
  <2> QED
    BY <1>5, <1>6, NatInd
<1>8. CASE Closed(f, reach[m], A)
  BY <1>8
<1>9. CASE ~Closed(f, reach[m], A)
  <2>1. Cardinality(reach[m]) >= m
    BY <1>1, <1>7, <1>9
  <2>2. Cardinality(reach[m + 1]) > Cardinality(reach[m])
    BY <1>1, <1>4, <1>9
  <2>3. m + 1 \in Nat /\ Cardinality(reach[m + 1]) <= m /\ Cardinality(reach[m + 1]) \in Nat
        /\ Cardinality(reach[m]) \in Nat
    BY <1>1, <1>2
  <2> HIDE DEF m
  <2> QED
    BY <1>1, <2>1, <2>2, <2>3
<1> QED
  BY <1>8, <1>9

\* The blocks reached are the least set that holds the first ones and is
\* closed.
LEMMA ReachIs ==
  ASSUME NEW f, Graph(f), NEW S \in SUBSET f.block, NEW A
  PROVE  /\ ReachAvoiding(f, S, A) \subseteq f.block
         /\ \A b \in ReachAvoiding(f, S, A) : b \notin A
         /\ \A b \in S : b \in A \/ b \in ReachAvoiding(f, S, A)
         /\ Closed(f, ReachAvoiding(f, S, A), A)
<1>1. PICK reach : Rounds(f, S, A, reach) /\ ReachAvoiding(f, S, A) = reach[Cardinality(f.block)]
  BY ReachRounds
<1>2. Cardinality(f.block) \in Nat
  BY FS_CardinalityType DEF Graph
<1> DEFINE N == {n \in Nat : \A b \in reach[n] : b \notin A}
           M == {n \in Nat : \A b \in S : b \in A \/ b \in reach[n]}
<1>3. Nat \subseteq N
  <2>1. 0 \in N
    BY <1>1 DEF Rounds
  <2>2. ASSUME NEW n \in Nat, n \in N PROVE n + 1 \in N
    BY <1>1, <2>2, RoundAdds
  <2> HIDE DEF N
  <2> QED
    BY <2>1, <2>2, NatInd
<1>4. Nat \subseteq M
  <2>1. 0 \in M
    BY <1>1 DEF Rounds
  <2>2. ASSUME NEW n \in Nat, n \in M PROVE n + 1 \in M
    BY <1>1, <2>2, RoundAdds
  <2> HIDE DEF M
  <2> QED
    BY <2>1, <2>2, NatInd
<1>5. Closed(f, ReachAvoiding(f, S, A), A)
  BY <1>1, RoundsEnd
<1>6. ReachAvoiding(f, S, A) \subseteq f.block
  BY <1>1, <1>2 DEF Rounds
<1> QED
  BY <1>1, <1>2, <1>3, <1>4, <1>5, <1>6

\* Any set that holds the start and is not left but into A holds all that is
\* reached avoiding A.
LEMMA ReachLeast ==
  ASSUME NEW f, Graph(f), NEW S \in SUBSET f.block, NEW A, NEW T,
         \A b \in S : b \in A \/ b \in T,
         \A b \in T : b \in f.block /\ b \notin A => \A s \in SuccSet(f, b) : s \in T \/ s \in A
  PROVE  ReachAvoiding(f, S, A) \subseteq T
<1>1. PICK reach : Rounds(f, S, A, reach) /\ ReachAvoiding(f, S, A) = reach[Cardinality(f.block)]
  BY ReachRounds
<1>2. Cardinality(f.block) \in Nat
  BY FS_CardinalityType DEF Graph
<1> DEFINE N == {n \in Nat : \A b \in reach[n] : b \in T /\ b \notin A}
<1>3. 0 \in N
  BY <1>1 DEF Rounds
<1>4. ASSUME NEW n \in Nat, n \in N PROVE n + 1 \in N
  <2>1. \A b \in reach[n] : b \in f.block
    BY <1>1 DEF Rounds
  <2> QED
    BY <1>1, <1>4, <2>1, RoundAdds
<1>5. Nat \subseteq N
  <2> HIDE DEF N
  <2> QED
    BY <1>3, <1>4, NatInd
<1> QED
  BY <1>1, <1>2, <1>5

-----------------------------------------------------------------------------
(* Supported functions: the forward graph, which leaves the loops back out.  *)

\* What the assumptions say of a function, and what is asked of it besides:
\* Supported, with its one exit.
Fit(f, r) ==
  /\ WellFormed(f) /\ DominatorsFlow(f) /\ HeadersDominate(f)
  /\ Analysed(f) /\ NoneDead(f) /\ LoopSimplifyForm(f)
  /\ Structured(f) /\ Rotated(f)
  /\ r \in f.block /\ Exits(f) = {r}

\* Where control goes forward from b, and all the blocks it comes to that way.
Ahead(f, b) == {s \in SuccSet(f, b) : s \notin f.dom[b]}

Onwards(f, T) == \A b \in T : \A s \in Ahead(f, b) : s \in T

Later(f, b) ==
  {x \in f.block : \A T \in SUBSET f.block : b \in T /\ Onwards(f, T) => x \in T}

\* Later holds the block itself and is closed under Ahead.
LEMMA LaterIs ==
  ASSUME NEW f, Graph(f), NEW b \in f.block
  PROVE  /\ b \in Later(f, b) /\ Later(f, b) \subseteq f.block
         /\ Onwards(f, Later(f, b))
<1>1. b \in Later(f, b) /\ Later(f, b) \subseteq f.block
  BY DEF Later
<1>2. ASSUME NEW x \in Later(f, b), NEW s \in Ahead(f, x) PROVE s \in Later(f, b)
  <2>1. x \in f.block /\ s \in f.block
    BY <1>1 DEF Ahead, Graph
  <2>2. ASSUME NEW T \in SUBSET f.block, b \in T, Onwards(f, T) PROVE s \in T
    BY <2>2 DEF Later, Onwards
  <2> QED
    BY <2>1, <2>2 DEF Later
<1> QED
  BY <1>1, <1>2 DEF Onwards

\* Later is the least such set.
LEMMA LaterLeast ==
  ASSUME NEW f, NEW b, NEW T, b \in T,
         \A x \in T : x \in f.block => \A s \in Ahead(f, x) : s \in f.block => s \in T,
         b \in f.block, Graph(f)
  PROVE  Later(f, b) \subseteq T
<1> DEFINE U == T \cap f.block
<1>1. U \in SUBSET f.block /\ b \in U
  OBVIOUS
<1>2. Onwards(f, U)
  BY DEF Onwards, Ahead, Graph
<1> QED
  BY <1>1, <1>2 DEF Later

\* What is later than a later block is later.
LEMMA LaterTransitive ==
  ASSUME NEW f, Graph(f), NEW b \in f.block, NEW x \in Later(f, b)
  PROVE  Later(f, x) \subseteq Later(f, b)
<1>1. x \in f.block /\ Onwards(f, Later(f, b))
  BY LaterIs
<1> QED
  BY <1>1, LaterLeast DEF Onwards

\* What comes later than b comes later than a block ahead of b, and is ahead
\* of a block later than b.
LEMMA LaterStep ==
  ASSUME NEW f, Graph(f), NEW b \in f.block, NEW x \in Later(f, b), x # b
  PROVE  /\ \E s \in Ahead(f, b) : x \in Later(f, s)
         /\ \E w \in Later(f, b) : x \in Ahead(f, w)
<1>1. Later(f, b) \subseteq f.block /\ Onwards(f, Later(f, b)) /\ b \in Later(f, b)
  BY LaterIs
<1>2. \E s \in Ahead(f, b) : x \in Later(f, s)
  <2> DEFINE T == {y \in f.block : y = b \/ \E s \in Ahead(f, b) : y \in Later(f, s)}
  <2>1. \A s \in Ahead(f, b) : s \in f.block
    BY DEF Ahead, Graph
  <2>2. ASSUME NEW y \in T, NEW z \in Ahead(f, y) PROVE z \in T
    <3>1. z \in f.block
      BY DEF Ahead, Graph
    <3>2. CASE y = b
      BY <2>1, <3>1, <3>2, LaterIs
    <3>3. CASE \E s \in Ahead(f, b) : y \in Later(f, s)
      BY <2>1, <3>1, <3>3, LaterIs DEF Onwards
    <3> QED
      BY <3>2, <3>3
  <2>3. b \in T
    OBVIOUS
  <2> HIDE DEF T
  <2>4. Later(f, b) \subseteq T
    BY <2>2, <2>3, LaterLeast
  <2> QED
    BY <2>4 DEF T
<1>3. \E w \in Later(f, b) : x \in Ahead(f, w)
  <2> SUFFICES ASSUME \A w \in Later(f, b) : x \notin Ahead(f, w) PROVE FALSE
    OBVIOUS
  <2> DEFINE T == Later(f, b) \ {x}
  <2>1. b \in T
    BY <1>1
  <2>2. \A y \in T : \A s \in Ahead(f, y) : s \in T
    BY <1>1 DEF Onwards
  <2> HIDE DEF T
  <2>3. Later(f, b) \subseteq T
    BY <2>1, <2>2, LaterLeast
  <2> QED
    BY <2>3 DEF T
<1> QED
  BY <1>2, <1>3

\* What is reached from a block that is reached, is reached; and what stops
\* at more blocks reaches less.
LEMMA ReachTransitive ==
  ASSUME NEW f, Graph(f), NEW S \in SUBSET f.block, NEW A, NEW B,
         NEW y \in f.block, y \in ReachAvoiding(f, S, A), \A x \in A : x \in B
  PROVE  ReachAvoiding(f, {y}, B) \subseteq ReachAvoiding(f, S, A)
<1> DEFINE T == ReachAvoiding(f, S, A)
<1>1. \A b \in T : \A s \in SuccSet(f, b) : s \in T \/ s \in B
  BY ReachIs DEF Closed
<1>2. y \in T /\ {y} \in SUBSET f.block
  OBVIOUS
<1> HIDE DEF T
<1>3. ReachAvoiding(f, {y}, B) \subseteq T
  BY <1>1, <1>2, ReachLeast
<1> QED
  BY <1>3 DEF T

\* Nothing is reached from a start that is avoided.
LEMMA NowhereFrom ==
  ASSUME NEW f, Graph(f), NEW y \in f.block, NEW A, y \in A
  PROVE  ReachAvoiding(f, {y}, A) = {}
<1> DEFINE T == {z \in f.block : FALSE}
<1>1. /\ \A b \in {y} : b \in A \/ b \in T
      /\ \A b \in T : b \in f.block /\ b \notin A => \A s \in SuccSet(f, b) : s \in T \/ s \in A
      /\ {y} \in SUBSET f.block
  OBVIOUS
<1> HIDE DEF T
<1>2. ReachAvoiding(f, {y}, A) \subseteq T
  BY <1>1, ReachLeast
<1> QED
  BY <1>2 DEF T

\* A function's elementary facts.
LEMMA FitIs ==
  ASSUME NEW f, NEW r, Fit(f, r)
  PROVE  /\ Graph(f) /\ r \in f.block /\ f.entry \in f.block
         /\ SuccSet(f, r) = {} /\ \A b \in f.block : SuccSet(f, b) = {} => b = r
         /\ \A d, b \in f.block :
              d \in f.dom[b] <=> b \notin ReachAvoiding(f, {f.entry}, {d})
         /\ \A b \in f.block : f.dom[b] \subseteq f.block
         /\ \A b \in f.block : b \in ReachAvoiding(f, {f.entry}, {})
         /\ \A b \in f.block : r \in ReachAvoiding(f, {b}, {})
<1>1. WellFormed(f) /\ Analysed(f) /\ NoneDead(f) /\ r \in f.block /\ Exits(f) = {r}
  BY DEF Fit
<1>2. Graph(f)
  BY <1>1, Successors DEF Graph, Analysed
<1>3. ASSUME NEW b \in f.block PROVE f.succ[b] = <<>> <=> SuccSet(f, b) = {}
  <2>1. \/ f.succ[b] = <<>> /\ SuccSet(f, b) = {}
        \/ f.succ[b] # <<>> /\ SuccSet(f, b) = {f.succ[b][1]}
        \/ f.succ[b] # <<>> /\ SuccSet(f, b) = {f.succ[b][1], f.succ[b][2]}
    BY <1>1, Successors
  <2> QED
    BY <2>1
<1>4. \A b \in f.block : f.succ[b] = <<>> <=> b = r
  BY <1>1 DEF Exits
<1>5. f.dom = [b \in f.block |-> {d \in f.block : b \notin ReachAvoiding(f, {f.entry}, {d})}]
  BY <1>1 DEF Analysed, DominatorsOf
<1>6. \A d, b \in f.block :
        d \in f.dom[b] <=> b \notin ReachAvoiding(f, {f.entry}, {d})
  BY <1>5
<1>7. \A b \in f.block : f.dom[b] \subseteq f.block
  BY <1>5
<1>8. \A b \in f.block : b \in ReachAvoiding(f, {f.entry}, {})
  BY <1>1 DEF NoneDead, Reachable
<1>9. \A b \in f.block : r \in ReachAvoiding(f, {b}, {})
  BY <1>1 DEF NoneDead
<1>10. f.entry \in f.block
  BY <1>1 DEF WellFormed
<1>11. SuccSet(f, r) = {} /\ \A b \in f.block : SuccSet(f, b) = {} => b = r
  BY <1>1, <1>3, <1>4
<1> QED
  BY <1>1, <1>2, <1>6, <1>7, <1>8, <1>9, <1>10, <1>11

-----------------------------------------------------------------------------
(* From every block the end is come to; loops are left at their latches.     *)

\* A block from which the end is reached only through A is not left past A:
\* closed sets without the end hold no reachable block.
LEMMA EndIsReached ==
  ASSUME NEW f, NEW r, Fit(f, r), NEW T, NEW b \in T, b \in f.block,
         \A x \in T : x \in f.block => \A s \in SuccSet(f, x) : s \in T
  PROVE  r \in T
<1>1. Graph(f) /\ r \in ReachAvoiding(f, {b}, {}) /\ {b} \in SUBSET f.block
  BY FitIs
<1>2. ReachAvoiding(f, {b}, {}) \subseteq T
  BY <1>1, ReachLeast
<1> QED
  BY <1>1, <1>2

\* A loop's latch, and what of it is known.
LEMMA LatchIs ==
  ASSUME NEW f, NEW r, Fit(f, r), NEW l \in f.block
  PROVE  /\ l \in DOMAIN f.header <=> \E s \in SuccSet(f, l) : s \in f.dom[l]
         /\ l \in DOMAIN f.header =>
              /\ f.header[l] \in f.block /\ f.header[l] \in SuccSet(f, l)
              /\ f.header[l] \in f.dom[l]
              /\ \A s \in SuccSet(f, l) : s \in f.dom[l] => s = f.header[l]
              /\ IsConditional(f, l)
              /\ \A b \in LoopBlocks(f, l) : b # l => \A s \in SuccSet(f, b) : s \in LoopBlocks(f, l)
<1>1. Analysed(f) /\ HeadersDominate(f) /\ LoopSimplifyForm(f) /\ Rotated(f) /\ Graph(f)
  BY FitIs DEF Fit
<1>2. DOMAIN f.header = {e[1] : e \in BackEdges(f, f.dom)}
  BY <1>1 DEF Analysed
<1>3. \A b, s \in f.block : <<b, s>> \in BackEdges(f, f.dom) <=> s \in SuccSet(f, b) /\ s \in f.dom[b]
  BY DEF BackEdges, Edges
<1>4. l \in DOMAIN f.header <=> \E s \in SuccSet(f, l) : s \in f.dom[l]
  <2>1. ASSUME l \in DOMAIN f.header PROVE \E s \in SuccSet(f, l) : s \in f.dom[l]
    <3>1. PICK e \in BackEdges(f, f.dom) : e[1] = l
      BY <1>2, <2>1
    <3> QED
      BY <3>1 DEF BackEdges, Edges
  <2>2. ASSUME NEW s \in SuccSet(f, l), s \in f.dom[l] PROVE l \in DOMAIN f.header
    <3>1. s \in f.block
      BY <1>1 DEF Graph
    <3>2. <<l, s>> \in BackEdges(f, f.dom) /\ <<l, s>>[1] = l
      BY <1>3, <2>2, <3>1
    <3> QED
      BY <1>2, <3>2
  <2> QED
    BY <2>1, <2>2
<1>5. ASSUME l \in DOMAIN f.header
      PROVE  /\ f.header[l] \in f.block /\ f.header[l] \in SuccSet(f, l)
             /\ f.header[l] \in f.dom[l]
             /\ \A s \in SuccSet(f, l) : s \in f.dom[l] => s = f.header[l]
             /\ IsConditional(f, l)
             /\ \A b \in LoopBlocks(f, l) : b # l => \A s \in SuccSet(f, b) : s \in LoopBlocks(f, l)
  <2>1. f.header[l] \in SuccSet(f, l) /\ f.header[l] \in f.dom[l]
    BY <1>1, <1>5 DEF HeadersDominate
  <2>2. f.header[l] \in f.block
    BY <1>1, <2>1 DEF Graph
  <2>3. \A s \in f.block : <<l, s>> \in BackEdges(f, f.dom) => s = f.header[l]
    BY <1>1, <1>5 DEF LoopSimplifyForm
  <2>4. \A s \in SuccSet(f, l) : s \in f.block
    BY <1>1 DEF Graph
  <2>5. \A s \in SuccSet(f, l) : s \in f.dom[l] => s = f.header[l]
    BY <1>3, <2>3, <2>4
  <2>6. /\ IsConditional(f, l)
        /\ \A b \in LoopBlocks(f, l) : b # l => \A s \in SuccSet(f, b) : s \in LoopBlocks(f, l)
    BY <1>1, <1>5 DEF Rotated
  <2> QED
    BY <2>1, <2>2, <2>5, <2>6
<1> QED
  BY <1>4, <1>5

\* A loop is entered through its header only, and holds its latch.
LEMMA LoopIs ==
  ASSUME NEW f, NEW r, Fit(f, r), NEW l \in DOMAIN f.header, l \in f.block
  PROVE  /\ LoopBlocks(f, l) \subseteq f.block
         /\ l \in LoopBlocks(f, l) /\ f.header[l] \in LoopBlocks(f, l)
         /\ \A y \in f.block : \A z \in SuccSet(f, y) :
              z \in LoopBlocks(f, l) /\ z # f.header[l] => y \in LoopBlocks(f, l)
<1> DEFINE h == f.header[l]
<1>1. h \in f.block /\ h \in SuccSet(f, l) /\ h \in f.dom[l]
  BY LatchIs
<1>2. Graph(f) /\ f.entry \in f.block /\ DominatorsFlow(f)
  BY FitIs DEF Fit
<1>3. \A d, b \in f.block : d \in f.dom[b] <=> b \notin ReachAvoiding(f, {f.entry}, {d})
  BY FitIs
<1>4. LoopBlocks(f, l) \subseteq f.block
  BY DEF LoopBlocks
<1>5. l \in LoopBlocks(f, l)
  <2>1. l \in ReachAvoiding(f, {l}, {h} \ {l})
    <3>1. {l} \in SUBSET f.block
      OBVIOUS
    <3> QED
      BY <1>2, <3>1, ReachIs
  <2> QED
    BY <1>1, <2>1 DEF LoopBlocks
<1>6. h \in LoopBlocks(f, l)
  <2>1. h \in f.dom[h]
    <3>1. h \notin ReachAvoiding(f, {f.entry}, {h})
      BY <1>2, ReachIs
    <3> QED
      BY <1>1, <1>3, <3>1
  <2>2. l \in ReachAvoiding(f, {h}, {})
    <3> DEFINE R1 == ReachAvoiding(f, {f.entry}, {h})
               R2 == ReachAvoiding(f, {h}, {})
               T  == R1 \cup R2
    <3>0. {h} \in SUBSET f.block /\ {f.entry} \in SUBSET f.block
      BY <1>1, <1>2
    <3>1. /\ h \in R2
          /\ \A b \in R2 : \A s \in SuccSet(f, b) : s \in R2
      BY <1>2, <3>0, ReachIs DEF Closed
    <3>2. /\ f.entry = h \/ f.entry \in R1
          /\ \A b \in R1 : \A s \in SuccSet(f, b) : s \in R1 \/ s = h
      <4>1. /\ \A b \in {f.entry} : b \in {h} \/ b \in R1
            /\ Closed(f, R1, {h})
        BY <1>2, <3>0, ReachIs
      <4> HIDE DEF R1
      <4> QED
        BY <4>1 DEF Closed
    <3>3. /\ \A b \in {f.entry} : b \in {} \/ b \in T
          /\ \A b \in T : b \in f.block /\ b \notin {} => \A s \in SuccSet(f, b) : s \in T \/ s \in {}
          /\ {f.entry} \in SUBSET f.block
      BY <1>2, <3>1, <3>2
    <3>4. ReachAvoiding(f, {f.entry}, {}) \subseteq T
      <4> HIDE DEF T
      <4> QED
        BY <1>2, <3>3, ReachLeast
    <3>5. l \in T
      BY <3>4, FitIs
    <3>6. l \notin R1
      BY <1>1, <1>3
    <3> QED
      BY <3>5, <3>6
  <2>3. {h} \ {h} = {}
    OBVIOUS
  <2> QED
    BY <1>1, <2>1, <2>2, <2>3 DEF LoopBlocks
<1>7. ASSUME NEW y \in f.block, NEW z \in SuccSet(f, y), z \in LoopBlocks(f, l), z # h
      PROVE  y \in LoopBlocks(f, l)
  <2>1. z \in f.block /\ h \in f.dom[z] /\ l \in ReachAvoiding(f, {z}, {h} \ {z})
    BY <1>7 DEF LoopBlocks
  <2>2. h \in f.dom[y]
    BY <1>2, <1>7, <2>1 DEF DominatorsFlow
  <2> DEFINE A == {h} \ {y}
  <2>3. y \in ReachAvoiding(f, {y}, A) /\ Closed(f, ReachAvoiding(f, {y}, A), A)
    <3>1. {y} \in SUBSET f.block /\ y \notin A
      OBVIOUS
    <3> HIDE DEF A
    <3> QED
      BY <1>2, <3>1, ReachIs
  <2>4. z \notin A
    BY <1>7
  <2>5. z \in ReachAvoiding(f, {y}, A)
    BY <2>3, <2>4 DEF Closed
  <2>6. \A x \in A : x \in {h} \ {z}
    BY <1>7
  <2>7. ReachAvoiding(f, {z}, {h} \ {z}) \subseteq ReachAvoiding(f, {y}, A)
    <3> HIDE DEF A
    <3>1. {y} \in SUBSET f.block
      OBVIOUS
    <3> QED
      BY <1>2, <2>1, <2>5, <2>6, <3>1, ReachTransitive
  <2> QED
    BY <2>1, <2>2, <2>7 DEF LoopBlocks
<1> QED
  BY <1>4, <1>5, <1>6, <1>7

\* A latch has one way out of the loop, which is the way ahead.
LEMMA LatchLeaves ==
  ASSUME NEW f, NEW r, Fit(f, r), NEW l \in DOMAIN f.header, l \in f.block
  PROVE  \E x \in f.block \ LoopBlocks(f, l) :
           /\ SuccSet(f, l) = {f.header[l], x} /\ x # f.header[l]
           /\ Ahead(f, l) = {x}
           /\ f.succ[l][1] = f.header[l] => f.succ[l][2] = x
           /\ f.succ[l][1] # f.header[l] => f.succ[l][1] = x /\ f.succ[l][2] = f.header[l]
<1> DEFINE h == f.header[l]
<1>1. /\ h \in f.block /\ h \in SuccSet(f, l) /\ h \in f.dom[l]
      /\ \A s \in SuccSet(f, l) : s \in f.dom[l] => s = h
      /\ IsConditional(f, l)
      /\ \A b \in LoopBlocks(f, l) : b # l => \A s \in SuccSet(f, b) : s \in LoopBlocks(f, l)
  BY LatchIs
<1>2. /\ f.succ[l][1] \in f.block /\ f.succ[l][2] \in f.block
      /\ SuccSet(f, l) = {f.succ[l][1], f.succ[l][2]}
  BY <1>1, Successors DEF IsConditional, Fit
<1>3. LoopBlocks(f, l) \subseteq f.block /\ l \in LoopBlocks(f, l) /\ h \in LoopBlocks(f, l)
  BY LoopIs
<1>4. \E x \in SuccSet(f, l) : x \notin LoopBlocks(f, l)
  <2> SUFFICES ASSUME \A x \in SuccSet(f, l) : x \in LoopBlocks(f, l) PROVE FALSE
    OBVIOUS
  <2>1. \A b \in LoopBlocks(f, l) : b \in f.block => \A s \in SuccSet(f, b) : s \in LoopBlocks(f, l)
    BY <1>1
  <2>2. r \in LoopBlocks(f, l)
    BY <1>3, <2>1, EndIsReached
  <2>3. Graph(f) /\ SuccSet(f, r) = {} /\ r \in f.block
    BY FitIs
  <2>4. l \in ReachAvoiding(f, {r}, {h} \ {r})
    BY <2>2 DEF LoopBlocks
  <2>5. ReachAvoiding(f, {r}, {h} \ {r}) \subseteq {r}
    <3>1. {r} \in SUBSET f.block
      BY <2>3
    <3> QED
      BY <2>3, <3>1, ReachLeast
  <2> QED
    BY <1>2, <2>3, <2>4, <2>5
<1>5. PICK x \in SuccSet(f, l) : x \notin LoopBlocks(f, l)
  BY <1>4
<1>6. x # h /\ x \in f.block /\ SuccSet(f, l) = {h, x}
  BY <1>1, <1>2, <1>3, <1>5
<1>7. Ahead(f, l) = {x}
  BY <1>1, <1>6 DEF Ahead
<1> QED
  BY <1>2, <1>5, <1>6, <1>7

-----------------------------------------------------------------------------
(* The join of a branch, and that going forward makes no circle.             *)

\* What is known of the join of a branch: the end is reached through it only.
LEMMA JoinIs ==
  ASSUME NEW f, NEW r, Fit(f, r), NEW b \in f.block, b # r
  PROVE  /\ f.ipd[b] \in f.block /\ f.ipd[b] # b
         /\ r \notin ReachAvoiding(f, {b}, {f.ipd[b]})
<1> DEFINE J == f.ipd[b]
           pdom == PostDominatorsOf(f)
<1>1. /\ Analysed(f) /\ Graph(f) /\ r \in f.block /\ Exits(f) = {r}
  BY FitIs DEF Fit
<1>2. pdom[b] = {d \in f.block \ {b} : ReachAvoiding(f, {b}, {d}) \cap Exits(f) = {}}
  BY DEF PostDominatorsOf
<1>3. \A d \in f.block : d \in pdom[b] <=> d # b /\ r \notin ReachAvoiding(f, {b}, {d})
  BY <1>1, <1>2
<1>4. r \notin ReachAvoiding(f, {b}, {r})
  <2>1. {b} \in SUBSET f.block
    OBVIOUS
  <2> QED
    BY <1>1, <2>1, ReachIs
<1>5. r \in pdom[b]
  BY <1>1, <1>3, <1>4
<1>6. J \in IF pdom[b] = {} THEN {VirtualRoot} ELSE pdom[b]
  BY <1>1 DEF Analysed
<1>7. J \in pdom[b] /\ J \in f.block
  BY <1>2, <1>5, <1>6
<1> QED
  BY <1>3, <1>7

\* The blocks on a way from b back to b.
Cycle(f, b) == {x \in f.block : x \in Later(f, b) /\ b \in Later(f, x)}

\* On a circle of forward edges, if there were one, every block would have a
\* next and a previous one.
LEMMA CycleIs ==
  ASSUME NEW f, NEW r, Fit(f, r), NEW b \in f.block,
         NEW s \in Ahead(f, b), b \in Later(f, s)
  PROVE  /\ b \in Cycle(f, b) /\ r \notin Cycle(f, b)
         /\ \A x \in Cycle(f, b) : \E y \in Ahead(f, x) : y \in Cycle(f, b)
         /\ \A x \in Cycle(f, b) : \E y \in Cycle(f, b) : x \in Ahead(f, y)
         /\ \A x \in Cycle(f, b), y \in Cycle(f, b) : y \in Later(f, x)
         /\ \A x, z \in Cycle(f, b) : \A y \in f.block :
              y \in Later(f, x) /\ z \in Later(f, y) => y \in Cycle(f, b)
<1> DEFINE C == Cycle(f, b)
<1>1. Graph(f) /\ r \in f.block /\ SuccSet(f, r) = {}
  BY FitIs
<1>2. s \in f.block
  BY <1>1 DEF Ahead, Graph
<1>3. \A x \in f.block : /\ x \in Later(f, x) /\ Later(f, x) \subseteq f.block
                         /\ Onwards(f, Later(f, x))
  BY <1>1, LaterIs
<1>4. \A x \in f.block : \A y \in Later(f, x) : Later(f, y) \subseteq Later(f, x)
  BY <1>1, LaterTransitive
<1>5. b \in C
  BY <1>3 DEF Cycle
<1>6. s \in C
  BY <1>2, <1>3 DEF Cycle, Onwards
<1>7. \A x \in C, y \in C : y \in Later(f, x)
  BY <1>4 DEF Cycle
<1>8. \A x, z \in C : \A y \in f.block : y \in Later(f, x) /\ z \in Later(f, y) => y \in C
  BY <1>4 DEF Cycle
<1>9. ASSUME NEW x \in C PROVE \E y \in Ahead(f, x) : y \in C
  <2>1. CASE x = b
    BY <1>6, <2>1
  <2>2. CASE x # b
    <3>1. x \in f.block /\ b \in Later(f, x) /\ b # x
      BY <2>2 DEF Cycle
    <3>2. PICK y \in Ahead(f, x) : b \in Later(f, y)
      BY <1>1, <3>1, LaterStep
    <3>3. y \in f.block /\ y \in Later(f, x)
      BY <1>1, <1>3, <3>1 DEF Ahead, Graph, Onwards
    <3>4. y \in C
      BY <1>5, <1>8, <3>2, <3>3
    <3> QED
      BY <3>4
  <2> QED
    BY <2>1, <2>2
<1>10. ASSUME NEW x \in C PROVE \E y \in C : x \in Ahead(f, y)
  <2>1. PICK y \in Ahead(f, x) : y \in C
    BY <1>9
  <2>2. x \in f.block /\ y \in f.block /\ x \in Later(f, y)
    BY <1>7, <2>1 DEF Cycle
  <2>3. CASE y = x
    BY <2>1, <2>3
  <2>4. CASE y # x
    <3>1. PICK w \in Later(f, y) : x \in Ahead(f, w)
      BY <1>1, <2>2, <2>4, LaterStep
    <3>2. w \in f.block
      BY <1>3, <2>2
    <3>3. x \in Later(f, w)
      BY <1>3, <3>1, <3>2 DEF Onwards
    <3>4. w \in C
      BY <1>8, <2>1, <3>1, <3>2, <3>3
    <3> QED
      BY <3>1, <3>4
  <2> QED
    BY <2>3, <2>4
<1>11. r \notin C
  BY <1>1, <1>9 DEF Ahead
<1> QED
  BY <1>5, <1>7, <1>8, <1>9, <1>10, <1>11

\* A cycle that does not hold the end is left for it.
LEMMA CycleIsLeft ==
  ASSUME NEW f, NEW r, Fit(f, r), NEW C \in SUBSET f.block, NEW b \in C, r \notin C
  PROVE  \E u \in C : \E v \in SuccSet(f, u) : v \notin C /\ r \in ReachAvoiding(f, {v}, C)
<1> SUFFICES ASSUME \A u \in C : \A v \in SuccSet(f, u) :
                      v \notin C => r \notin ReachAvoiding(f, {v}, C)
             PROVE  FALSE
  OBVIOUS
<1> DEFINE N == {x \in f.block : r \notin ReachAvoiding(f, {x}, C)}
<1>1. Graph(f) /\ r \in f.block
  BY FitIs
<1>2. \A x \in C : x \in N
  BY <1>1, NowhereFrom
<1>3. ASSUME NEW x \in N, NEW y \in SuccSet(f, x) PROVE y \in N
  <2>1. x \in f.block /\ y \in f.block /\ {x} \in SUBSET f.block
    BY <1>1 DEF Graph
  <2>2. CASE y \in C
    BY <1>2, <2>2
  <2>3. CASE y \notin C /\ x \in C
    BY <2>1, <2>3
  <2>4. CASE y \notin C /\ x \notin C
    <3>1. /\ x \in ReachAvoiding(f, {x}, C)
          /\ Closed(f, ReachAvoiding(f, {x}, C), C)
      BY <1>1, <2>1, <2>4, ReachIs
    <3>2. y \in ReachAvoiding(f, {x}, C)
      BY <2>4, <3>1 DEF Closed
    <3>3. ReachAvoiding(f, {y}, C) \subseteq ReachAvoiding(f, {x}, C)
      BY <1>1, <2>1, <3>2, ReachTransitive
    <3>4. r \notin ReachAvoiding(f, {x}, C)
      OBVIOUS
    <3> QED
      BY <2>1, <3>3, <3>4
  <2> QED
    BY <2>2, <2>3, <2>4
<1>4. r \in N
  <2>1. b \in N /\ b \in f.block
    BY <1>2
  <2> HIDE DEF N
  <2> QED
    BY <1>3, <2>1, EndIsReached
<1>5. r \in ReachAvoiding(f, {r}, C)
  <2>1. {r} \in SUBSET f.block
    BY <1>1
  <2> QED
    BY <1>1, <2>1, ReachIs
<1> QED
  BY <1>4, <1>5

\* Going forward, control comes to no block twice. The block at which a cycle
\* is left for good is no latch, as no loop is left but from its latch; and
\* the side of a branch does not come back to it but by a back edge.
LEMMA NoCycle ==
  ASSUME NEW f, NEW r, Fit(f, r), NEW b \in f.block, NEW s \in Ahead(f, b)
  PROVE  b \notin Later(f, s)
<1> SUFFICES ASSUME b \in Later(f, s) PROVE FALSE
  OBVIOUS
<1> DEFINE C == Cycle(f, b)
<1>1. Graph(f) /\ r \in f.block
  BY FitIs
<1>2. /\ b \in C /\ r \notin C /\ C \in SUBSET f.block
      /\ \A x \in C : \E y \in Ahead(f, x) : y \in C
      /\ \A x \in C : \E y \in C : x \in Ahead(f, y)
      /\ \A x \in C, y \in C : y \in Later(f, x)
      /\ \A x, z \in C : \A y \in f.block : y \in Later(f, x) /\ z \in Later(f, y) => y \in C
  <2>1. C \in SUBSET f.block
    BY DEF Cycle
  <2> HIDE DEF C
  <2> QED
    BY <2>1, CycleIs, ZenonT(30) DEF C
<1> HIDE DEF C
<1>3. PICK u \in C : \E v \in SuccSet(f, u) : v \notin C /\ r \in ReachAvoiding(f, {v}, C)
  BY <1>2, CycleIsLeft
<1>4. PICK v \in SuccSet(f, u) : v \notin C /\ r \in ReachAvoiding(f, {v}, C)
  BY <1>3
<1>5. PICK t \in Ahead(f, u) : t \in C
  BY <1>2
<1>6. PICK w \in C : u \in Ahead(f, w)
  BY <1>2
<1>7. /\ u \in f.block /\ v \in f.block /\ t \in f.block /\ w \in f.block
      /\ t \in SuccSet(f, u) /\ t # v /\ u \notin f.dom[w] /\ u # r
  BY <1>1, <1>2, <1>3, <1>4, <1>5, <1>6 DEF Ahead, Graph
\* From t the whole cycle is reached without leaving it.
<1>8. ASSUME NEW T, t \in T, \A y \in T : y \in C => \A z \in Ahead(f, y) : z \in C => z \in T
      PROVE  u \in T /\ w \in T
  <2> DEFINE S == {y \in Later(f, t) : y \in C => y \in T}
  <2>1. t \in S
    BY <1>1, <1>7, <1>8, LaterIs
  <2>2. ASSUME NEW y \in S, NEW z \in Ahead(f, y) PROVE z \in S
    <3>1. z \in Later(f, t) /\ y \in f.block
      BY <1>1, <1>7, LaterIs DEF Onwards
    <3>2. ASSUME z \in C PROVE z \in T
      <4>1. z \in Later(f, y)
        BY <1>1, <3>1, LaterIs DEF Onwards
      <4>2. y \in C
        BY <1>2, <1>5, <3>1, <3>2, <4>1
      <4> QED
        BY <1>8, <3>2, <4>2
    <3> QED
      BY <3>1, <3>2
  <2>3. Later(f, t) \subseteq S
    <3> HIDE DEF S
    <3> QED
      BY <1>1, <1>7, <2>1, <2>2, LaterLeast
  <2>4. u \in Later(f, t) /\ w \in Later(f, t)
    BY <1>2, <1>3, <1>5, <1>6
  <2> QED
    BY <1>3, <1>6, <2>3, <2>4
<1>9. CASE u \in DOMAIN f.header
  <2>1. PICK x \in f.block \ LoopBlocks(f, u) :
          SuccSet(f, u) = {f.header[u], x} /\ x # f.header[u] /\ Ahead(f, u) = {x}
    BY <1>7, <1>9, LatchLeaves
  <2>2. t = x /\ v = f.header[u]
    BY <1>4, <1>5, <1>7, <2>1
  <2> DEFINE T == {y \in f.block : y \notin LoopBlocks(f, u)}
  <2>3. t \in T
    BY <2>1, <2>2
  <2>4. ASSUME NEW y \in T, y \in C, NEW z \in Ahead(f, y), z \in C PROVE z \in T
    <3>1. z \in f.block /\ z \in SuccSet(f, y) /\ z # f.header[u]
      BY <1>1, <1>4, <2>2, <2>4 DEF Ahead, Graph
    <3>2. z \in LoopBlocks(f, u) => y \in LoopBlocks(f, u)
      BY <1>7, <1>9, <3>1, LoopIs
    <3> QED
      BY <3>1, <3>2
  <2>5. u \in T
    <3> HIDE DEF T
    <3> QED
      BY <1>8, <2>3, <2>4
  <2> QED
    BY <1>7, <1>9, <2>5, LoopIs
<1>10. CASE u \notin DOMAIN f.header
  <2>1. IsConditional(f, u) /\ SuccSet(f, u) = {f.succ[u][1], f.succ[u][2]}
    BY <1>4, <1>7, Successors DEF IsConditional, Fit
  <2> DEFINE J == f.ipd[u]
  <2>2. J \in f.block /\ J # u /\ r \notin ReachAvoiding(f, {u}, {J})
    BY <1>7, JoinIs
  <2>3. J \notin C
    <3> SUFFICES ASSUME J \in C PROVE FALSE
      OBVIOUS
    <3>1. {u} \in SUBSET f.block
      BY <1>7
    <3>2. u \in ReachAvoiding(f, {u}, {J}) /\ Closed(f, ReachAvoiding(f, {u}, {J}), {J})
      BY <1>1, <2>2, <3>1, ReachIs
    <3>3. v # J
      BY <1>4
    <3>4. v \in ReachAvoiding(f, {u}, {J})
      BY <3>2, <3>3 DEF Closed
    <3>5. ReachAvoiding(f, {v}, C) \subseteq ReachAvoiding(f, {u}, {J})
      <4>1. \A x \in {J} : x \in C
        OBVIOUS
      <4> QED
        BY <1>1, <1>7, <3>1, <3>4, <4>1, ReachTransitive
    <3> QED
      BY <1>4, <2>2, <3>5
  <2>4. PICK k \in {1, 2} : f.succ[u][k] = t
    BY <1>7, <2>1
  <2>5. Side(f, u, k) = ReachAvoiding(f, {t}, {J})
    BY <2>4 DEF Side
  <2>6. \A x \in Side(f, u, k) : u \in f.dom[x]
    BY <1>7, <1>10, <2>1 DEF Fit, Structured
  <2> DEFINE T == ReachAvoiding(f, {t}, {J})
  <2>7. /\ {t} \in SUBSET f.block /\ t # J
    BY <1>5, <1>7, <2>3
  <2>8. t \in T /\ Closed(f, T, {J})
    BY <1>1, <2>7, ReachIs
  <2>9. \A y \in T : y \in C => \A z \in Ahead(f, y) : z \in C => z \in T
    BY <2>3, <2>8 DEF Closed, Ahead
  <2>10. w \in T
    <3> HIDE DEF T
    <3> QED
      BY <1>8, <2>8, <2>9
  <2> QED
    BY <1>7, <2>5, <2>6, <2>10
<1> QED
  BY <1>9, <1>10

-----------------------------------------------------------------------------
(* Going forward is a partial order with a first and a last block.          *)

\* Of two blocks only one is later than the other.
LEMMA LaterOrder ==
  ASSUME NEW f, NEW r, Fit(f, r), NEW x \in f.block, NEW y \in Later(f, x), x \in Later(f, y)
  PROVE  x = y
<1> SUFFICES ASSUME x # y PROVE FALSE
  OBVIOUS
<1>1. Graph(f)
  BY FitIs
<1>2. PICK s \in Ahead(f, x) : y \in Later(f, s)
  BY <1>1, LaterStep
<1>3. s \in f.block
  BY <1>1 DEF Ahead, Graph
<1>4. x \in Later(f, s)
  BY <1>1, <1>2, <1>3, LaterTransitive
<1> QED
  BY <1>2, <1>4, NoCycle

\* Of any blocks one is followed by no other, and one follows no other.
LEMMA LastOf ==
  ASSUME NEW f, NEW r, Fit(f, r), NEW T \in SUBSET f.block, T # {}
  PROVE  \E x \in T : \A y \in T : y \in Later(f, x) => y = x
<1>1. Graph(f)
  BY FitIs
<1>2. \A x \in f.block : /\ x \in Later(f, x) /\ Later(f, x) \subseteq f.block
                         /\ IsFiniteSet(Later(f, x)) /\ Cardinality(Later(f, x)) \in Nat
  BY <1>1, LaterIs, FS_Subset, FS_CardinalityType DEF Graph
<1> DEFINE N == {Cardinality(Later(f, x)) : x \in T}
<1>3. N \in SUBSET Nat /\ N # {}
  BY <1>2
<1>4. \E m \in N : \A n \in N : m <= n
  <2> HIDE DEF N
  <2> QED
    BY <1>3, LeastNat
<1>5. PICK x \in T : \A y \in T : Cardinality(Later(f, x)) <= Cardinality(Later(f, y))
  BY <1>4
<1>6. ASSUME NEW y \in T, y \in Later(f, x), y # x PROVE FALSE
  <2>1. Later(f, y) \subseteq Later(f, x)
    BY <1>1, <1>6, LaterTransitive
  <2>2. x \notin Later(f, y)
    BY <1>6, LaterOrder
  <2>3. Later(f, y) # Later(f, x)
    BY <1>2, <2>2
  <2>4. Cardinality(Later(f, y)) <= Cardinality(Later(f, x))
        /\ Cardinality(Later(f, x)) # Cardinality(Later(f, y))
    BY <1>2, <2>1, <2>3, FS_Subset
  <2>5. Cardinality(Later(f, x)) \in Nat /\ Cardinality(Later(f, y)) \in Nat
    BY <1>2
  <2> QED
    BY <1>5, <2>4, <2>5
<1> QED
  BY <1>6

\* A set of blocks has one that is later than no other of them.
LEMMA FirstOf ==
  ASSUME NEW f, NEW r, Fit(f, r), NEW T \in SUBSET f.block, T # {}
  PROVE  \E x \in T : \A y \in T : x \in Later(f, y) => y = x
<1>1. Graph(f)
  BY FitIs
<1> DEFINE E(x) == {z \in f.block : x \in Later(f, z)}
<1>2. \A x \in f.block : /\ x \in E(x) /\ E(x) \in SUBSET f.block
                         /\ IsFiniteSet(E(x)) /\ Cardinality(E(x)) \in Nat
  <2>1. ASSUME NEW x \in f.block PROVE x \in E(x) /\ E(x) \in SUBSET f.block
    BY <1>1, LaterIs
  <2> HIDE DEF E
  <2>2. ASSUME NEW x \in f.block PROVE IsFiniteSet(E(x)) /\ Cardinality(E(x)) \in Nat
    BY <1>1, <2>1, FS_Subset, FS_CardinalityType DEF Graph
  <2> QED
    BY <2>1, <2>2
<1> DEFINE N == {Cardinality(E(x)) : x \in T}
<1>3. N \in SUBSET Nat /\ N # {}
  <2> HIDE DEF E
  <2> QED
    BY <1>2
<1>4. \E m \in N : \A n \in N : m <= n
  <2> HIDE DEF N
  <2> QED
    BY <1>3, LeastNat
<1>5. PICK x \in T : \A y \in T : Cardinality(E(x)) <= Cardinality(E(y))
  BY <1>4
<1>6. ASSUME NEW y \in T, x \in Later(f, y), y # x PROVE FALSE
  <2>1. E(y) \subseteq E(x)
    BY <1>1, <1>6, LaterTransitive
  <2>2. y \in E(x)
    BY <1>6
  <2>3. x \notin E(y)
    BY <1>6, LaterOrder
  <2>4. x \in E(x) /\ x \in f.block /\ y \in f.block
    BY <1>2
  <2> HIDE DEF E
  <2>5. E(y) # E(x)
    BY <2>3, <2>4
  <2>6. Cardinality(E(y)) <= Cardinality(E(x))
        /\ Cardinality(E(x)) # Cardinality(E(y))
    BY <1>2, <2>1, <2>4, <2>5, FS_Subset
  <2> QED
    BY <1>2, <1>5, <2>4, <2>6
<1> QED
  BY <1>6

\* Every block but the entry is come to by a step forward.
LEMMA Entered ==
  ASSUME NEW f, NEW r, Fit(f, r), NEW y \in f.block, y # f.entry
  PROVE  \E p \in f.block : y \in Ahead(f, p)
<1> SUFFICES ASSUME \A p \in f.block : y \notin Ahead(f, p) PROVE FALSE
  OBVIOUS
<1>1. /\ Graph(f) /\ f.entry \in f.block
      /\ \A d, b \in f.block : d \in f.dom[b] <=> b \notin ReachAvoiding(f, {f.entry}, {d})
      /\ \A b \in f.block : b \in ReachAvoiding(f, {f.entry}, {})
  BY FitIs
<1> DEFINE R == ReachAvoiding(f, {f.entry}, {y})
<1>2. {f.entry} \in SUBSET f.block
  BY <1>1
<1>3. R \subseteq f.block /\ y \notin R /\ f.entry \in R /\ Closed(f, R, {y})
  BY <1>1, <1>2, ReachIs
<1>4. \A b \in R : y \notin f.dom[b]
  BY <1>1, <1>3
<1> HIDE DEF R
<1>5. \A b \in R : \A s \in SuccSet(f, b) : s \in R
  BY <1>3, <1>4 DEF Closed, Ahead
<1>6. ReachAvoiding(f, {f.entry}, {}) \subseteq R
  BY <1>1, <1>2, <1>3, <1>5, ReachLeast
<1> QED
  BY <1>1, <1>3, <1>6

\* Every block is later than the entry.
LEMMA EntryFirst ==
  ASSUME NEW f, NEW r, Fit(f, r), NEW y \in f.block
  PROVE  y \in Later(f, f.entry)
<1> SUFFICES ASSUME y \notin Later(f, f.entry) PROVE FALSE
  OBVIOUS
<1>1. Graph(f) /\ f.entry \in f.block
  BY FitIs
<1> DEFINE T == {z \in f.block : z \notin Later(f, f.entry)}
<1>2. T \in SUBSET f.block /\ T # {}
  OBVIOUS
<1>3. \E x \in T : \A z \in T : x \in Later(f, z) => z = x
  <2> HIDE DEF T
  <2> QED
    BY <1>2, FirstOf
<1>4. PICK x \in T : \A z \in T : x \in Later(f, z) => z = x
  BY <1>3
<1>5. x # f.entry
  BY <1>1, LaterIs
<1>6. PICK p \in f.block : x \in Ahead(f, p)
  BY <1>5, Entered
<1>7. x \in Later(f, p)
  BY <1>1, <1>6, LaterIs DEF Onwards
<1>8. p \in T
  BY <1>1, <1>6, LaterIs DEF Onwards
<1>9. p = x
  BY <1>4, <1>7, <1>8
<1> QED
  BY <1>6, <1>7, <1>9, NoCycle

\* A block is later than those that dominate it.
LEMMA DomLater ==
  ASSUME NEW f, NEW r, Fit(f, r), NEW x \in f.block, NEW d \in f.dom[x]
  PROVE  x \in Later(f, d)
<1> DEFINE T == {y \in f.block : \A c \in f.dom[y] : y \in Later(f, c)}
<1>1. /\ Graph(f) /\ f.entry \in f.block /\ DominatorsFlow(f)
      /\ \A b \in f.block : f.dom[b] \subseteq f.block
  BY FitIs DEF Fit
<1>2. f.entry \in T
  BY <1>1, LaterIs DEF DominatorsFlow
<1>3. ASSUME NEW y \in T, NEW s \in Ahead(f, y) PROVE s \in T
  <2>1. s \in f.block /\ s \in SuccSet(f, y)
    BY <1>1 DEF Ahead, Graph
  <2>2. ASSUME NEW c \in f.dom[s] PROVE s \in Later(f, c)
    <3>1. c \in f.dom[y] \/ c = s
      BY <1>1, <2>1 DEF DominatorsFlow
    <3>2. CASE c = s
      BY <1>1, <2>1, <3>2, LaterIs
    <3>3. CASE c \in f.dom[y]
      <4>1. y \in Later(f, c) /\ c \in f.block
        BY <1>1, <3>3
      <4> QED
        BY <1>1, <4>1, LaterIs DEF Onwards
    <3> QED
      BY <3>1, <3>2, <3>3
  <2> QED
    BY <2>1, <2>2
<1>4. Later(f, f.entry) \subseteq T
  <2> HIDE DEF T
  <2> QED
    BY <1>1, <1>2, <1>3, LaterLeast
<1> QED
  BY <1>4, EntryFirst

\* There is a way ahead of every block but the end; and it leads to the end.
LEMMA AheadIs ==
  ASSUME NEW f, NEW r, Fit(f, r), NEW b \in f.block
  PROVE  /\ b # r => Ahead(f, b) # {}
         /\ b \notin DOMAIN f.header => Ahead(f, b) = SuccSet(f, b)
         /\ f.entry \notin Ahead(f, b)
<1>1. /\ \A c \in f.block : SuccSet(f, c) = {} => c = r
      /\ f.entry \in f.block /\ Graph(f)
      /\ \A d, c \in f.block : d \in f.dom[c] <=> c \notin ReachAvoiding(f, {f.entry}, {d})
  BY FitIs
<1>2. b \notin DOMAIN f.header => Ahead(f, b) = SuccSet(f, b)
  BY LatchIs DEF Ahead
<1>3. b \in DOMAIN f.header => Ahead(f, b) # {}
  BY LatchLeaves
<1>4. f.entry \in f.dom[b]
  BY <1>1, NowhereFrom
<1> QED
  BY <1>1, <1>2, <1>3, <1>4 DEF Ahead

\* The end is later than every block.
LEMMA EndLast ==
  ASSUME NEW f, NEW r, Fit(f, r), NEW b \in f.block
  PROVE  r \in Later(f, b)
<1>1. Graph(f)
  BY FitIs
<1>2. Later(f, b) \in SUBSET f.block /\ Later(f, b) # {} /\ Onwards(f, Later(f, b))
  BY <1>1, LaterIs
<1>3. \E x \in Later(f, b) : \A y \in Later(f, b) : y \in Later(f, x) => y = x
  BY <1>2, LastOf
<1>4. PICK x \in Later(f, b) : \A y \in Later(f, b) : y \in Later(f, x) => y = x
  BY <1>3
<1>5. x \in f.block
  BY <1>2
<1>6. ASSUME x # r PROVE FALSE
  <2>1. PICK s \in Ahead(f, x) : TRUE
    BY <1>5, <1>6, AheadIs
  <2>2. s \in Later(f, b) /\ s \in Later(f, x)
    BY <1>1, <1>2, <1>5, LaterIs DEF Onwards
  <2>3. s = x
    BY <1>4, <2>2
  <2> QED
    BY <1>5, <2>1, <2>2, <2>3, NoCycle
<1> QED
  BY <1>6

-----------------------------------------------------------------------------
(* The sides of a branch.                                                   *)

\* A branch that is to be serialised.
Secret(f, b) == b \in f.block /\ IsConditional(f, b) /\ b \notin DOMAIN f.header

\* The part of a side that is come to by going forward only.
WithinSide(f, b, k, T) ==
  /\ f.succ[b][k] \in T \/ f.succ[b][k] = f.ipd[b]
  /\ \A x \in T : \A s \in Ahead(f, x) : s \in T \/ s = f.ipd[b]

SideAhead(f, b, k) ==
  {x \in f.block : \A T \in SUBSET f.block : WithinSide(f, b, k, T) => x \in T}

\* The two ways a branch to be serialised can go.
LEMMA SecretIs ==
  ASSUME NEW f, NEW r, Fit(f, r), NEW b, Secret(f, b), NEW k \in {1, 2}
  PROVE  /\ b \in f.block /\ b # r
         /\ f.succ[b][k] \in f.block /\ f.succ[b][k] \in Ahead(f, b)
         /\ Ahead(f, b) = {f.succ[b][1], f.succ[b][2]}
         /\ f.ipd[b] \in f.block /\ f.ipd[b] # b
<1>1. b \in f.block /\ b \notin DOMAIN f.header /\ WellFormed(f)
  BY DEF Secret, Fit
<1>2. /\ f.succ[b][1] \in f.block /\ f.succ[b][2] \in f.block
      /\ SuccSet(f, b) = {f.succ[b][1], f.succ[b][2]}
  BY <1>1, Successors DEF Secret, IsConditional
<1>3. Ahead(f, b) = SuccSet(f, b)
  BY <1>1, AheadIs
<1>4. b # r
  <2>1. SuccSet(f, r) = {}
    BY FitIs
  <2> QED
    BY <1>2, <2>1
<1>5. f.ipd[b] \in f.block /\ f.ipd[b] # b
  <2>1. b \in f.block
    BY <1>1
  <2>2. /\ f.ipd[b] \in f.block /\ f.ipd[b] # b
        /\ r \notin ReachAvoiding(f, {b}, {f.ipd[b]})
    BY <1>4, <2>1, JoinIs
  <2> QED
    BY <2>2
<1> QED
  BY <1>1, <1>2, <1>3, <1>4, <1>5

\* A side holds the blocks come to by going forward up to the join.
LEMMA SideIs ==
  ASSUME NEW f, NEW r, Fit(f, r), NEW b, Secret(f, b), NEW k \in {1, 2}
  PROVE  /\ SideAhead(f, b, k) \subseteq f.block
         /\ WithinSide(f, b, k, SideAhead(f, b, k))
         /\ f.ipd[b] \notin SideAhead(f, b, k)
         /\ \A x \in SideAhead(f, b, k) : x \in Later(f, f.succ[b][k])
         /\ \A x \in SideAhead(f, b, k) : x \in Side(f, b, k)
<1> DEFINE t == f.succ[b][k]
           J == f.ipd[b]
           F == SideAhead(f, b, k)
<1>1. t \in f.block /\ J \in f.block
  BY SecretIs
<1>2. Graph(f)
  BY FitIs
<1>3. F \subseteq f.block
  BY DEF SideAhead
<1>4. WithinSide(f, b, k, F)
  <2>1. t \in F \/ t = J
    BY <1>1 DEF SideAhead, WithinSide
  <2>2. ASSUME NEW x \in F, NEW s \in Ahead(f, x), s # J PROVE s \in F
    <3>1. s \in f.block
      BY <1>2, <1>3 DEF Ahead, Graph
    <3>2. ASSUME NEW T \in SUBSET f.block, WithinSide(f, b, k, T) PROVE s \in T
      <4>1. x \in T
        BY <3>2 DEF SideAhead
      <4> QED
        BY <2>2, <3>2, <4>1 DEF WithinSide
    <3> QED
      BY <3>1, <3>2 DEF SideAhead
  <2> QED
    BY <2>1, <2>2 DEF WithinSide
<1>5. J \notin F
  <2> DEFINE T == f.block \ {J}
  <2>1. \A x \in T : \A s \in Ahead(f, x) : s \in T \/ s = J
    BY <1>2 DEF Ahead, Graph
  <2>2. WithinSide(f, b, k, T) /\ T \in SUBSET f.block
    BY <1>1, <2>1 DEF WithinSide
  <2> QED
    BY <2>2 DEF SideAhead
<1>6. ASSUME NEW x \in F PROVE x \in Later(f, t)
  <2>1. t \in Later(f, t) /\ Onwards(f, Later(f, t)) /\ Later(f, t) \in SUBSET f.block
    BY <1>1, <1>2, LaterIs
  <2>2. WithinSide(f, b, k, Later(f, t))
    BY <2>1 DEF WithinSide, Onwards
  <2> QED
    BY <2>1, <2>2 DEF SideAhead
<1>7. ASSUME NEW x \in F PROVE x \in Side(f, b, k)
  <2> DEFINE R == ReachAvoiding(f, {t}, {J})
  <2>1. {t} \in SUBSET f.block
    BY <1>1
  <2>2. R \subseteq f.block /\ (t = J \/ t \in R) /\ Closed(f, R, {J})
    BY <1>2, <2>1, ReachIs
  <2> HIDE DEF R
  <2>3. WithinSide(f, b, k, R)
    BY <2>2 DEF WithinSide, Closed, Ahead
  <2>4. x \in R
    BY <2>2, <2>3 DEF SideAhead
  <2> QED
    BY <2>4 DEF R, Side
<1> QED
  BY <1>3, <1>4, <1>5, <1>6, <1>7

\* Going forward from a side one comes to its end, and past it to the join.
LEMMA SideEnds ==
  ASSUME NEW f, NEW r, Fit(f, r), NEW b, Secret(f, b), NEW k \in {1, 2}
  PROVE  /\ b \notin SideAhead(f, b, k) /\ r \notin SideAhead(f, b, k)
         /\ \A x \in SideAhead(f, b, k) : b \in f.dom[x]
         /\ \A x \in SideAhead(f, b, k) : f.ipd[b] \in Later(f, x)
         /\ \A x \in SideAhead(f, b, k) : \A y \in Later(f, x) :
               y \in SideAhead(f, b, k) \/ y \in Later(f, f.ipd[b])
         /\ f.ipd[b] \in Later(f, b) /\ SideAhead(f, b, k) \subseteq Later(f, b)
<1> DEFINE t == f.succ[b][k]
           J == f.ipd[b]
           F == SideAhead(f, b, k)
<1>1. Graph(f) /\ t \in f.block /\ J \in f.block /\ b \in f.block /\ t \in Ahead(f, b) /\ b # r /\ J # b
  BY SecretIs, FitIs
<1>2. /\ F \subseteq f.block /\ J \notin F
      /\ t \in F \/ t = J
      /\ \A x \in F : \A s \in Ahead(f, x) : s \in F \/ s = J
      /\ \A x \in F : x \in Later(f, t)
      /\ \A x \in F : x \in Side(f, b, k)
  BY SideIs DEF WithinSide
<1> HIDE DEF F
<1>3. b \notin F
  BY <1>1, <1>2, NoCycle
<1>4. \A x \in F : b \in f.dom[x]
  <2>1. \A x \in Side(f, b, k) : b \in f.dom[x]
    BY DEF Secret, Fit, Structured
  <2> QED
    BY <1>2, <2>1
<1>5. r \notin F
  <2> DEFINE R == ReachAvoiding(f, {b}, {J})
  <2>1. {b} \in SUBSET f.block /\ \A x \in {J} : x \in {J}
    BY <1>1
  <2>2. R \subseteq f.block /\ b \in R /\ Closed(f, R, {J})
    BY <1>1, <2>1, ReachIs
  <2>3. t \in SuccSet(f, b)
    BY <1>1 DEF Ahead
  <2>4. t = J \/ t \in R
    BY <2>2, <2>3 DEF Closed
  <2>5. CASE t = J
    <3>1. F \subseteq {}
      <4>1. WithinSide(f, b, k, {}) /\ {} \in SUBSET f.block
        BY <2>5 DEF WithinSide
      <4> QED
        BY <4>1 DEF F, SideAhead
    <3> QED
      BY <3>1
  <2>6. CASE t \in R
    <3>1. ReachAvoiding(f, {t}, {J}) \subseteq R
      BY <1>1, <2>1, <2>6, ReachTransitive
    <3>2. r \notin R
      BY <1>1, JoinIs
    <3> QED
      BY <1>2, <3>1, <3>2 DEF Side
  <2> QED
    BY <2>4, <2>5, <2>6
<1>6. ASSUME NEW x \in F, NEW y \in Later(f, x) PROVE y \in F \/ y \in Later(f, J)
  <2> DEFINE T == {z \in f.block : z \in F \/ z \in Later(f, J)}
  <2>1. x \in T /\ x \in f.block
    BY <1>2
  <2>2. ASSUME NEW z \in T, NEW s \in Ahead(f, z) PROVE s \in T
    <3>1. s \in f.block
      BY <1>1 DEF Ahead, Graph
    <3>2. J \in Later(f, J) /\ Onwards(f, Later(f, J))
      BY <1>1, LaterIs
    <3> QED
      BY <1>2, <3>1, <3>2 DEF Onwards
  <2>3. Later(f, x) \subseteq T
    <3> HIDE DEF T
    <3> QED
      BY <1>1, <2>1, <2>2, LaterLeast
  <2> QED
    BY <2>3
<1>7. ASSUME NEW x \in F, J \notin Later(f, x) PROVE FALSE
  <2> DEFINE T == {z \in F : z \in Later(f, x)}
  <2>1. x \in T /\ x \in f.block
    BY <1>1, <1>2, LaterIs
  <2>2. \A z \in T : \A s \in Ahead(f, z) : s \in T
    BY <1>1, <1>2, <1>7, <2>1, LaterIs DEF Onwards
  <2>3. Later(f, x) \subseteq T
    <3> HIDE DEF T
    <3> QED
      BY <1>1, <2>1, <2>2, LaterLeast
  <2>4. r \in Later(f, x)
    BY <2>1, EndLast
  <2> QED
    BY <1>5, <2>3, <2>4
<1>8. t \in Later(f, b) /\ Later(f, t) \subseteq Later(f, b)
  <2>1. t \in Later(f, b)
    BY <1>1, LaterIs DEF Onwards
  <2> QED
    BY <1>1, <2>1, LaterTransitive
<1>9. J \in Later(f, b)
  BY <1>2, <1>7, <1>8
<1>10. F \subseteq Later(f, b)
  BY <1>2, <1>8
<1> QED
  BY <1>3, <1>4, <1>5, <1>6, <1>7, <1>9, <1>10 DEF F

\* The sides are apart.
LEMMA SidesApart ==
  ASSUME NEW f, NEW r, Fit(f, r), NEW b, Secret(f, b)
  PROVE  /\ \A x \in SideAhead(f, b, 1) : x \notin SideAhead(f, b, 2)
         /\ \A x \in SideAhead(f, b, 2) : x \notin SideAhead(f, b, 1)
<1>1. Side(f, b, 1) \cap Side(f, b, 2) = {}
  BY DEF Secret, Fit, Structured
<1>2. /\ \A x \in SideAhead(f, b, 1) : x \in Side(f, b, 1)
      /\ \A x \in SideAhead(f, b, 2) : x \in Side(f, b, 2)
  BY SideIs
<1> QED
  BY <1>1, <1>2

\* The only step forward into a side from outside is the branch's.
LEMMA SideDoor ==
  ASSUME NEW f, NEW r, Fit(f, r), NEW b, Secret(f, b), NEW k \in {1, 2},
         NEW z \in f.block, z \notin SideAhead(f, b, k),
         NEW w \in Ahead(f, z), w \in SideAhead(f, b, k)
  PROVE  z = b
<1> SUFFICES ASSUME z # b PROVE FALSE
  OBVIOUS
<1> DEFINE F == SideAhead(f, b, k)
           J == f.ipd[b]
<1>1. Graph(f) /\ b \in f.block /\ J \in f.block /\ DominatorsFlow(f)
      /\ Ahead(f, b) = {f.succ[b][1], f.succ[b][2]}
  BY SecretIs, FitIs DEF Fit
<1>2. /\ w \in f.block /\ w \in SuccSet(f, z) /\ w \notin f.dom[z]
      /\ b # w /\ b \in f.dom[w]
  BY <1>1, SideEnds DEF Ahead, Graph
<1>3. b \in f.dom[z]
  BY <1>1, <1>2 DEF DominatorsFlow
<1>4. z \in Later(f, b)
  BY <1>2, <1>3, DomLater
<1>5. PICK s \in Ahead(f, b) : z \in Later(f, s)
  BY <1>1, <1>4, LaterStep
<1>6. PICK m \in {1, 2} : s = f.succ[b][m]
  BY <1>1, <1>5
<1>7. /\ s \in SideAhead(f, b, m) \/ s = J
      /\ \A u \in SideAhead(f, b, m) : \A v \in Ahead(f, u) : v \in SideAhead(f, b, m) \/ v = J
      /\ J \notin F
  BY <1>6, SideIs DEF WithinSide
<1>8. z \in SideAhead(f, b, m) \/ z \in Later(f, J)
  BY <1>5, <1>7, SideEnds
<1>9. CASE z \in SideAhead(f, b, m)
  <2>1. m # k
    BY <1>9
  <2>2. w \in SideAhead(f, b, m)
    BY <1>7, <1>9
  <2> QED
    BY <2>1, <2>2, SidesApart
<1>10. CASE z \in Later(f, J)
  <2>1. w \in Later(f, J)
    BY <1>1, <1>10, LaterIs DEF Onwards
  <2>2. J \in Later(f, w)
    BY SideEnds
  <2>3. w = J
    BY <1>1, <2>1, <2>2, LaterOrder
  <2> QED
    BY <1>7, <2>3
<1> QED
  BY <1>8, <1>9, <1>10

\* So what comes before a block of the side comes before the branch.
LEMMA SideEntered ==
  ASSUME NEW f, NEW r, Fit(f, r), NEW b, Secret(f, b), NEW k \in {1, 2},
         NEW x \in f.block, x \notin SideAhead(f, b, k),
         NEW y \in SideAhead(f, b, k), y \in Later(f, x)
  PROVE  b \in Later(f, x)
<1> SUFFICES ASSUME b \notin Later(f, x) PROVE FALSE
  OBVIOUS
<1> DEFINE T == {z \in Later(f, x) : z \notin SideAhead(f, b, k)}
<1>1. Graph(f)
  BY FitIs
<1>2. /\ x \in Later(f, x) /\ Later(f, x) \subseteq f.block /\ Onwards(f, Later(f, x))
  BY <1>1, LaterIs
<1>3. \A z \in T : \A s \in Ahead(f, z) : s \in T
  BY <1>2, SideDoor DEF Onwards
<1>4. x \in T
  BY <1>2
<1>5. Later(f, x) \subseteq T
  <2> HIDE DEF T
  <2> QED
    BY <1>1, <1>3, <1>4, LaterLeast
<1> QED
  BY <1>5

\* A block with two blocks before it is no loop's header, and no loop is left
\* for it.
LEMMA LoopsApart ==
  ASSUME NEW f, NEW r, Fit(f, r), NEW J \in f.block,
         NEW u \in f.block, NEW v \in f.block, u # v, J \in Ahead(f, u), J \in Ahead(f, v),
         NEW l \in DOMAIN f.header
  PROVE  J \notin SuccSet(f, l)
<1>1. l \in f.block /\ LoopSimplifyForm(f) /\ Graph(f)
  <2>1. WellFormed(f) /\ LoopSimplifyForm(f) /\ Graph(f)
    BY FitIs DEF Fit
  <2>2. l \in f.block
    BY <2>1 DEF WellFormed
  <2> QED
    BY <2>1, <2>2
<1>2. PICK x \in f.block \ LoopBlocks(f, l) : SuccSet(f, l) = {f.header[l], x} /\ x # f.header[l]
  BY <1>1, LatchLeaves
<1>3. l \in LoopBlocks(f, l) /\ f.header[l] \in f.dom[l] /\ LoopBlocks(f, l) \subseteq f.block
  BY <1>1, LatchIs, LoopIs
<1>4. J \in SuccSet(f, u) /\ J \in SuccSet(f, v) /\ J \notin f.dom[u] /\ J \notin f.dom[v]
  BY DEF Ahead
<1>5. u \in Preds(f, J) /\ v \in Preds(f, J)
  BY <1>4 DEF Preds
<1>6. ASSUME J = f.header[l] PROVE FALSE
  <2>1. PICK p \in f.block : Preds(f, f.header[l]) = {p, l}
    BY <1>1 DEF LoopSimplifyForm
  <2>2. u \in {p, l} /\ v \in {p, l} /\ u # l /\ v # l
    BY <1>3, <1>4, <1>5, <1>6, <2>1
  <2> QED
    BY <2>2
<1>7. ASSUME J = x PROVE FALSE
  <2>1. \A y \in (UNION {SuccSet(f, c) : c \in LoopBlocks(f, l)}) \ LoopBlocks(f, l) :
          Preds(f, y) \subseteq LoopBlocks(f, l)
    BY <1>1 DEF LoopSimplifyForm
  <2>2. x \in UNION {SuccSet(f, c) : c \in LoopBlocks(f, l)}
    BY <1>2, <1>3, Zenon
  <2>3. u \in LoopBlocks(f, l) /\ v \in LoopBlocks(f, l)
    BY <1>2, <1>5, <1>7, <2>1, <2>2
  <2>4. \A c \in LoopBlocks(f, l) : c # l => \A s \in SuccSet(f, c) : s \in LoopBlocks(f, l)
    BY <1>1, LatchIs
  <2> QED
    BY <1>2, <1>4, <1>7, <2>3, <2>4
<1> QED
  BY <1>2, <1>6, <1>7

\* So the join of a branch with a then side is neither.
LEMMA JoinIsNoLoops ==
  ASSUME NEW f, NEW r, Fit(f, r), NEW b, Secret(f, b), f.succ[b][1] # f.ipd[b],
         NEW l \in DOMAIN f.header
  PROVE  f.ipd[b] \notin SuccSet(f, l)
<1> DEFINE J == f.ipd[b]
<1>1. Graph(f) /\ b \in f.block /\ J \in f.block
  BY SecretIs, FitIs
\* the last block of a side
<1>2. ASSUME NEW k \in {1, 2}, f.succ[b][k] # J
      PROVE  \E w \in SideAhead(f, b, k) : J \in Ahead(f, w)
  <2> DEFINE t == f.succ[b][k]
  <2>1. t \in f.block /\ t \in SideAhead(f, b, k)
    BY <1>2, SecretIs, SideIs DEF WithinSide
  <2>2. J \in Later(f, t) /\ J # t
    BY <1>2, <2>1, SideEnds
  <2>3. PICK w \in Later(f, t) : J \in Ahead(f, w)
    BY <1>1, <2>1, <2>2, LaterStep
  <2>4. w \in SideAhead(f, b, k) \/ w \in Later(f, J)
    BY <2>1, <2>3, SideEnds
  <2>5. w \in f.block
    BY <1>1, <2>1, <2>3, LaterIs
  <2>6. w \notin Later(f, J)
    BY <1>1, <2>3, <2>5, NoCycle
  <2> QED
    BY <2>3, <2>4, <2>6
<1>3. PICK u \in SideAhead(f, b, 1) : J \in Ahead(f, u)
  BY <1>2
<1>4. u \in f.block /\ u # b
  BY <1>3, SideIs, SideEnds
<1>5. CASE f.succ[b][2] = J
  <2>1. J \in Ahead(f, b)
    BY <1>5, SecretIs
  <2> QED
    BY <1>1, <1>3, <1>4, <2>1, LoopsApart
<1>6. CASE f.succ[b][2] # J
  <2>1. PICK v \in SideAhead(f, b, 2) : J \in Ahead(f, v)
    BY <1>2, <1>6
  <2>2. v \in f.block /\ v # u
    BY <1>3, <2>1, SideIs, SidesApart
  <2> QED
    BY <1>1, <1>3, <1>4, <2>1, <2>2, LoopsApart
<1> QED
  BY <1>5, <1>6

-----------------------------------------------------------------------------
(* Loops and the sides of branches.                                         *)

\* A loop goes forward from its header to its latch.
LEMMA LoopOrder ==
  ASSUME NEW f, NEW r, Fit(f, r), NEW l \in DOMAIN f.header, NEW b \in LoopBlocks(f, l)
  PROVE  /\ l \in f.block /\ b \in f.block /\ f.header[l] \in f.block
         /\ b \in Later(f, f.header[l]) /\ l \in Later(f, b)
         /\ \A s \in SuccSet(f, b) : b # l => s \in LoopBlocks(f, l)
         /\ r \notin LoopBlocks(f, l)
<1> DEFINE L == LoopBlocks(f, l)
<1>1. l \in f.block /\ Graph(f) /\ SuccSet(f, r) = {}
  <2>1. WellFormed(f) /\ Graph(f) /\ SuccSet(f, r) = {}
    BY FitIs DEF Fit
  <2> QED
    BY <2>1 DEF WellFormed
<1>2. /\ L \subseteq f.block /\ l \in L
      /\ f.header[l] \in f.block /\ f.header[l] \in SuccSet(f, l)
      /\ \A c \in L : c # l => \A s \in SuccSet(f, c) : s \in L
  BY <1>1, LoopIs, LatchIs
<1>3. b \in Later(f, f.header[l])
  <2>1. f.header[l] \in f.dom[b] /\ b \in f.block
    BY DEF LoopBlocks
  <2> QED
    BY <2>1, DomLater
<1>4. r \notin L
  <2> SUFFICES ASSUME r \in L PROVE FALSE
    OBVIOUS
  <2>1. r # l
    BY <1>1, <1>2
  <2>2. l \in ReachAvoiding(f, {r}, {f.header[l]} \ {r})
    BY DEF LoopBlocks
  <2>3. {r} \in SUBSET f.block
    BY <1>2
  <2>4. ReachAvoiding(f, {r}, {f.header[l]} \ {r}) \subseteq {r}
    BY <1>1, <2>3, ReachLeast
  <2> QED
    BY <2>1, <2>2, <2>4
<1>5. l \in Later(f, b)
  <2> DEFINE T == {x \in Later(f, b) : x \in L}
  <2>1. b \in Later(f, b) /\ Onwards(f, Later(f, b)) /\ b \in f.block
    BY <1>1, <1>2, LaterIs
  <2>2. T \in SUBSET f.block /\ T # {}
    BY <1>2, <2>1
  <2>3. \E x \in T : \A y \in T : y \in Later(f, x) => y = x
    <3> HIDE DEF T
    <3> QED
      BY <2>2, LastOf
  <2>4. PICK x \in T : \A y \in T : y \in Later(f, x) => y = x
    BY <2>3
  <2>5. ASSUME x # l PROVE FALSE
    <3>1. x \in f.block /\ x # r
      BY <1>2, <1>4
    <3>2. PICK s \in Ahead(f, x) : TRUE
      BY <3>1, AheadIs
    <3>3. s \in SuccSet(f, x) /\ s \in L
      BY <1>2, <2>5 DEF Ahead
    <3>4. s \in Later(f, x) /\ s \in Later(f, b)
      BY <1>1, <2>1, <3>1, LaterIs DEF Onwards
    <3>5. s = x
      BY <2>4, <3>3, <3>4
    <3> QED
      BY <3>1, <3>2, <3>4, <3>5, NoCycle
  <2> QED
    BY <2>5
<1> QED
  BY <1>1, <1>2, <1>3, <1>4, <1>5

\* A loop is entered at its header.
LEMMA LoopEntered ==
  ASSUME NEW f, NEW r, Fit(f, r), NEW l \in DOMAIN f.header,
         NEW x \in f.block, x \notin LoopBlocks(f, l),
         NEW y \in LoopBlocks(f, l), y \in Later(f, x)
  PROVE  f.header[l] \in Later(f, x)
<1> SUFFICES ASSUME f.header[l] \notin Later(f, x) PROVE FALSE
  OBVIOUS
<1> DEFINE T == {z \in Later(f, x) : z \notin LoopBlocks(f, l)}
<1>1. Graph(f) /\ l \in f.block
  BY FitIs, LoopOrder
<1>2. x \in Later(f, x) /\ Later(f, x) \subseteq f.block /\ Onwards(f, Later(f, x))
  BY <1>1, LaterIs
<1>3. ASSUME NEW z \in T, NEW s \in Ahead(f, z) PROVE s \in T
  <2>1. z \in f.block /\ s \in Later(f, x) /\ s \in SuccSet(f, z)
    BY <1>2 DEF Onwards, Ahead
  <2>2. s \in LoopBlocks(f, l) /\ s # f.header[l] => z \in LoopBlocks(f, l)
    BY <1>1, <2>1, LoopIs
  <2> QED
    BY <2>1, <2>2
<1>4. x \in T
  BY <1>2
<1>5. Later(f, x) \subseteq T
  <2> HIDE DEF T
  <2> QED
    BY <1>1, <1>3, <1>4, LaterLeast
<1> QED
  BY <1>5

\* Between two blocks of a loop there are only blocks of the loop.
LEMMA LoopConvex ==
  ASSUME NEW f, NEW r, Fit(f, r), NEW l \in DOMAIN f.header,
         NEW y \in LoopBlocks(f, l), NEW z \in LoopBlocks(f, l),
         NEW x \in f.block, x \in Later(f, y), z \in Later(f, x)
  PROVE  x \in LoopBlocks(f, l)
<1> SUFFICES ASSUME x \notin LoopBlocks(f, l) PROVE FALSE
  OBVIOUS
<1>1. f.header[l] \in Later(f, x)
  BY LoopEntered
<1>2. y \in f.block /\ y \in Later(f, f.header[l])
  BY LoopOrder
<1>3. y \in Later(f, x)
  BY <1>1, <1>2, FitIs, LaterTransitive
<1> QED
  BY <1>2, <1>3, LaterOrder

\* The join of a branch in a loop is in the loop: the loop is left from its
\* latch only, which is not on both sides.
LEMMA JoinInLoop ==
  ASSUME NEW f, NEW r, Fit(f, r), NEW l \in DOMAIN f.header,
         NEW b \in LoopBlocks(f, l), Secret(f, b)
  PROVE  f.ipd[b] \in LoopBlocks(f, l)
<1> SUFFICES ASSUME f.ipd[b] \notin LoopBlocks(f, l) PROVE FALSE
  OBVIOUS
<1>1. b # l /\ b \in f.block /\ f.ipd[b] \in f.block /\ l \in LoopBlocks(f, l)
  BY SecretIs, LoopOrder, LoopIs DEF Secret
<1>2. ASSUME NEW k \in {1, 2} PROVE l \in SideAhead(f, b, k)
  <2>1. f.succ[b][k] \in LoopBlocks(f, l)
    BY <1>1, LoopOrder, SecretIs DEF Ahead
  <2>2. f.succ[b][k] \in SideAhead(f, b, k)
    BY <2>1, SideIs DEF WithinSide
  <2>3. l \in Later(f, f.succ[b][k])
    BY <2>1, LoopOrder
  <2>4. l \in SideAhead(f, b, k) \/ l \in Later(f, f.ipd[b])
    BY <2>2, <2>3, SideEnds
  <2>5. f.ipd[b] \in Later(f, b)
    BY SideEnds
  <2> QED
    BY <1>1, <2>4, <2>5, LoopConvex
<1> QED
  BY <1>2, SidesApart

\* A side whose join is in a loop, and not its header, is in the loop.
LEMMA SideInLoop ==
  ASSUME NEW f, NEW r, Fit(f, r), NEW l \in DOMAIN f.header, NEW b, Secret(f, b),
         f.ipd[b] \in LoopBlocks(f, l), f.ipd[b] # f.header[l], NEW x \in SideAhead(f, b, 1)
  PROVE  x \in LoopBlocks(f, l)
<1> DEFINE J == f.ipd[b]
           h == f.header[l]
<1>1. /\ Graph(f) /\ b \in f.block /\ l \in f.block /\ h \in f.block /\ J \in f.block
      /\ J \in Later(f, h)
  <2>1. Graph(f) /\ b \in f.block /\ J \in f.block
    BY SecretIs, FitIs
  <2>2. l \in f.block /\ h \in f.block /\ J \in Later(f, h)
    BY LoopOrder
  <2> QED
    BY <2>1, <2>2
<1>2. CASE b \in LoopBlocks(f, l)
  <2>1. x \in f.block /\ x \in Later(f, b) /\ J \in Later(f, x)
    BY SideIs, SideEnds
  <2> QED
    BY <1>2, <2>1, LoopConvex
<1>3. CASE b \notin LoopBlocks(f, l)
  <2>1. ASSUME NEW k \in {1, 2} PROVE h \in SideAhead(f, b, k)
    <3>1. PICK t : t = f.succ[b][k]
      OBVIOUS
    <3>2. t \in f.block /\ t \in SuccSet(f, b) /\ (t \in SideAhead(f, b, k) \/ t = J)
      BY <3>1, SecretIs, SideIs DEF WithinSide, Ahead
    <3>3. t \in LoopBlocks(f, l) => t = h
      BY <1>1, <1>3, <3>2, LoopIs
    <3>4. t \in SideAhead(f, b, k)
      BY <3>2, <3>3
    <3>5. CASE t \in LoopBlocks(f, l)
      BY <3>3, <3>4, <3>5
    <3>6. CASE t \notin LoopBlocks(f, l)
      <4>1. J \in Later(f, t)
        BY <3>4, SideEnds
      <4>2. h \in Later(f, t)
        BY <3>2, <3>6, <4>1, LoopEntered
      <4>3. h \in SideAhead(f, b, k) \/ h \in Later(f, J)
        BY <3>4, <4>2, SideEnds
      <4>4. h \notin Later(f, J)
        BY <1>1, LaterOrder
      <4> QED
        BY <4>3, <4>4
    <3> QED
      BY <3>5, <3>6
  <2> QED
    BY <2>1, SidesApart
<1> QED
  BY <1>2, <1>3
=============================================================================
