---------------------------- MODULE MCSecretPass ----------------------------
(* Programs for the model checker to run the whole pass on.                  *)
EXTENDS SecretPass, SmallFunctions

Conditionals(f) == {b \in f.block : IsConditional(f, b)}

Merging(f) == {b \in f.block : Cardinality(Preds(f, b)) > 1}

AllCompared(f) == [b \in Conditionals(f) |-> 0]

Program(f, secret, first, starts, access) ==
  [f |-> f, phi |-> Merging(f), cond |-> AllCompared(f), secret |-> secret, first |-> first,
   starts |-> starts, access |-> access]

\* Phis of a single operand in the blocks after loops (loop-closed form); in
\* Shapes, also in every block.
AfterLoops(f) ==
  UNION {UNION {SuccSet(f, b) : b \in LoopBlocks(f, l)} \ LoopBlocks(f, l) : l \in DOMAIN f.header}

\* All functions with loops: the conditions are comparisons, or one is a phi.
Shapes ==
  UNION {{[Program(f, Conditionals(f), {}, {}, <<>>) EXCEPT !.cond = c] :
            c \in {AllCompared(f)}
                  \cup {[AllCompared(f) EXCEPT ![b] = d] : b \in Conditionals(f), d \in Merging(f)}} :
         f \in RunOn(LoopShapes \cup WhileShapes)}
  \cup UNION {{[Program(f, {}, {}, {}, <<>>) EXCEPT !.phi = m] :
                 m \in {Merging(f) \cup AfterLoops(f), f.block \ {f.entry}}} :
                f \in RunOn(LoopShapes \cup WhileShapes)}

\* A loop with a branch, two loops in a row, a loop in a loop, three in a row;
\* with the blocks of their accesses and the loops whose index these use.
Single == Analyse(Function(<< <<2>>, <<3, 4>>, <<4>>, <<2, 5>>, <<>> >>))
Successive == Analyse(Function(<< <<2>>, <<2, 3>>, <<4>>, <<4, 5>>, <<>> >>))
Nested == Analyse(Function(<< <<2>>, <<3>>, <<3, 4>>, <<2, 5>>, <<>> >>))
ThreeSuccessive ==
  Analyse(Function(<< <<2>>, <<2, 3>>, <<4>>, <<4, 5>>, <<6>>, <<6, 7>>, <<>> >>))

Load(b, l) == [block |-> b, loop |-> l, local |-> TRUE, direct |-> TRUE, store |-> FALSE,
               data |-> FALSE, phis |-> {}]
Store(b, l) == [Load(b, l) EXCEPT !.store = TRUE]
StoreSecret(b, l) == [Store(b, l) EXCEPT !.data = TRUE]

\* A load whose value goes into the phis of one of the blocks.
LoadFor(b, l, blocks) == {[Load(b, l) EXCEPT !.phis = {x}] : x \in blocks}

Kinds(p, blocks) ==
  {Load(p[1], p[2]), Store(p[1], p[2]), StoreSecret(p[1], p[2])} \cup LoadFor(p[1], p[2], blocks)

\* At most two accesses at the given places.
Ordered(S) == {<<>>} \cup {<<a>> : a \in S} \cup {s \in S \X S : s[1].block <= s[2].block}

At(places, blocks) == UNION {Kinds(p, blocks) : p \in places}

\* Secret bounds: the conditions are all comparisons, or a latch's is none; of
\* two accesses, the second perhaps a store to memory that is no local array.
Bounds(f, places, blocks, starts) ==
  LET access == Ordered(At(places, blocks))
  IN  {Program(f, s, {}, e, a) : s \in SUBSET Conditionals(f), e \in starts, a \in access}
      \cup {[Program(f, s, {}, e, a) EXCEPT !.access[2].local = FALSE] :
              s \in SUBSET Conditionals(f), e \in starts,
              a \in {x \in access : Len(x) = 2 /\ x[2].store /\ ~x[2].data}}
      \cup {[Program(f, DOMAIN f.header, {}, e, a) EXCEPT !.cond[l] = -1] :
              e \in starts, a \in {x \in access : Len(x) < 2}, l \in DOMAIN f.header}

\* Secret first indexes, with secret bounds or without; arrays are indexed with
\* the phi or its next value.
Firsts(f, places, blocks) ==
  {Program(f, s, i, {}, a) :
     s \in {{}, DOMAIN f.header}, i \in (SUBSET DOMAIN f.header) \ {{}},
     a \in Ordered(UNION {{[k EXCEPT !.direct = d] : d \in BOOLEAN} :
                            k \in {k \in At(places, blocks) : ~k.data}})}

\* An index goes on from the one before: what a turn guards leads to the next.
Chained ==
  {Program(ThreeSuccessive, s, {}, {<<2, 4>>, <<4, 6>>}, a) :
     s \in {{4, 6}, {2, 4, 6}},
     a \in Ordered({Store(2, 2), Store(4, 2), Store(6, 4), Load(4, 2), Load(6, 4)})}

MCPrograms ==
  Shapes \cup Bounds(Single, {<<3, 4>>, <<4, 4>>}, {2, 4}, {{}})
         \cup Bounds(Successive, {<<2, 2>>, <<4, 4>>}, {4}, {{}})
         \cup Bounds(Nested, {<<3, 3>>, <<4, 4>>}, {3, 2}, {{}})
         \cup Bounds(Nested, {<<3, 3>>, <<3, 4>>}, {2}, {{<<4, 3>>}})
         \cup Firsts(Single, {<<4, 4>>}, {2})
         \cup Firsts(Successive, {<<2, 2>>, <<4, 4>>}, {4})
         \cup Firsts(Nested, {<<3, 3>>, <<4, 4>>}, {3})
         \cup Chained

MCFunctions == {p.f : p \in MCPrograms}
=============================================================================
