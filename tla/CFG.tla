-------------------------------- MODULE CFG --------------------------------
(* Control-flow graphs as the passes of this repository see them, and the  *)
(* LLVM analyses they query (dominator tree, post-dominator tree, loops).  *)
(*                                                                         *)
(* A function is a record                                                  *)
(*   block   its basic blocks                entry   its entry block       *)
(*   succ    per block, the successors of its terminator in operand order: *)
(*           <<>> for ret and for unreachable, <<s>> for an unconditional  *)
(*           branch, <<s0, s1>> for a conditional one                      *)
(*   ret     the blocks that end in ret (the others with succ <<>> end in  *)
(*           a terminator that is neither a branch nor ret)                *)
(* to which Analyse adds what the analyses of LLVM answer:                 *)
(*   dom     per block, its dominators (itself included)                   *)
(*   ipd     per block, its immediate post-dominator, or VirtualRoot       *)
(*   header  per loop latch, the header of the loop it is the latch of     *)
EXTENDS Naturals, Sequences, FiniteSets

\* The post-dominator tree's root, a node without a block.
CONSTANT VirtualRoot

SuccSet(g, b) == {g.succ[b][i] : i \in 1..Len(g.succ[b])}

Preds(g, b) == {p \in g.block : b \in SuccSet(g, p)}

Edges(g) == {e \in g.block \X g.block : e[2] \in SuccSet(g, e[1])}

IsConditional(g, b) == Len(g.succ[b]) = 2

\* The blocks control can reach from the blocks of S when it stops at Avoid.
ReachAvoiding(g, S, Avoid) ==
  LET reach[n \in Nat] ==
        IF n = 0 THEN S \ Avoid
        ELSE LET prev == reach[n - 1]
             IN  prev \cup ((UNION {SuccSet(g, b) : b \in prev}) \ Avoid)
  IN  reach[Cardinality(g.block)]

Reachable(g) == ReachAvoiding(g, {g.entry}, {})

\* Per block, the blocks that are on every path to it from the entry.
DominatorsOf(g) ==
  LET without == [d \in g.block |-> ReachAvoiding(g, {g.entry}, {d})]
  IN  [b \in g.block |-> {d \in g.block : b \notin without[d]}]

Exits(g) == {b \in g.block : g.succ[b] = <<>>}

\* Per block, the other blocks on every path from it to an exit.
PostDominatorsOf(g) ==
  [b \in g.block |->
     {d \in g.block \ {b} : ReachAvoiding(g, {b}, {d}) \cap Exits(g) = {}}]

\* The nearest strict post-dominator: all the others post-dominate it.
ImmediatePostDominator(pdom, b) ==
  IF pdom[b] = {} THEN VirtualRoot
  ELSE CHOOSE d \in pdom[b] : pdom[b] \ {d} \subseteq pdom[d]

\* A back edge goes to a block that dominates its source; in loop-simplify
\* form (which the pass asserts) every loop has exactly one, from its latch.
BackEdges(g, dom) == {e \in Edges(g) : e[2] \in dom[e[1]]}

Analyse(g) ==
  LET dom  == DominatorsOf(g)
      pdom == PostDominatorsOf(g)
      back == BackEdges(g, dom)
  IN  [block  |-> g.block,  entry |-> g.entry, succ |-> g.succ, ret |-> g.ret,
       dom    |-> dom,
       ipd    |-> [b \in g.block |-> ImmediatePostDominator(pdom, b)],
       header |-> [l \in {e[1] : e \in back} |->
                     CHOOSE h \in g.block : <<l, h>> \in back]]

ForwardEdges(g) == Edges(g) \ BackEdges(g, g.dom)

\* The blocks of the loop whose latch is l: those that reach l without
\* passing the header, and the header.
LoopBlocks(g, l) ==
  {b \in g.block : /\ g.header[l] \in g.dom[b]
                   /\ l \in ReachAvoiding(g, {b}, {g.header[l]} \ {b})}

\* What isLoopSimplifyForm() says of every loop: one latch, a preheader, and
\* exits that are entered from the loop only. (Loops are natural loops: a
\* cycle without a header that dominates it is no loop for LLVM.)
LoopSimplifyForm(g) ==
  \A l \in DOMAIN g.header :
    LET head == g.header[l]
        body == LoopBlocks(g, l)
    IN  /\ \A k \in DOMAIN g.header : g.header[k] = head => k = l
        /\ \A m \in g.block : <<l, m>> \in BackEdges(g, g.dom) => m = head
        /\ \E p \in g.block \ body : Preds(g, head) = {p, l} /\ Len(g.succ[p]) = 1
        /\ \A x \in (UNION {SuccSet(g, b) : b \in body}) \ body : Preds(g, x) \subseteq body

-----------------------------------------------------------------------------
(* Shapes of functions. compile.sh runs clang -O1, loop-simplify and        *)
(* lowerswitch before the pass; what it needs beyond that is said here.     *)

\* The blocks of the side s of the conditional branch b.
Side(f, b, s) == ReachAvoiding(f, {f.succ[b][s]}, {f.ipd[b]})

\* The two sides of a branch share no block before they join, and are
\* entered through the branch only.
Structured(f) ==
  \A b \in f.block \ DOMAIN f.header :
    IsConditional(f, b) =>
      /\ Side(f, b, 1) \cap Side(f, b, 2) = {}
      /\ \A x \in Side(f, b, 1) \cup Side(f, b, 2) : b \in f.dom[x]

\* Loops are left from their latches only (what loop-rotate establishes).
Rotated(f) ==
  \A l \in DOMAIN f.header :
    /\ IsConditional(f, l)
    /\ \A b \in LoopBlocks(f, l) \ {l} : SuccSet(f, b) \subseteq LoopBlocks(f, l)

\* The function has one exit, a ret.
SingleReturn(f) == \E r \in f.ret : Exits(f) = {r}

Supported(f) == Structured(f) /\ Rotated(f) /\ SingleReturn(f)

\* Loops left from their header only, by an unconditional latch: while loops
\* that loop-rotate has not touched.
HeaderControlled(f) ==
  \A l \in DOMAIN f.header :
    /\ f.succ[l] = <<f.header[l]>> /\ IsConditional(f, f.header[l])
    /\ \A b \in LoopBlocks(f, l) : SuccSet(f, b) \subseteq LoopBlocks(f, l)
                                   <=> b # f.header[l]

-----------------------------------------------------------------------------
(* What the proofs are told of a function: what its data are, facts that    *)
(* hold of the analyses of any function, and that its blocks are on the way *)
(* to an exit. TLC evaluates them on every function it checks.              *)

WellFormed(g) ==
  /\ g.entry \in g.block
  /\ g.ret \subseteq g.block
  /\ g.succ \in [g.block -> {<<>>} \cup {<<s>> : s \in g.block}
                              \cup {<<s, t>> : s \in g.block, t \in g.block}]
  /\ \A b \in g.ret : g.succ[b] = <<>>
  /\ g.ipd \in [g.block -> g.block \cup {VirtualRoot}]
  /\ g.dom \in [g.block -> SUBSET g.block]
  /\ DOMAIN g.header \subseteq g.block

\* A dominator of a block's successor is that successor or dominates the block.
DominatorsFlow(g) ==
  /\ g.dom[g.entry] = {g.entry}
  /\ \A b \in g.block : \A s \in SuccSet(g, b) : g.dom[s] \subseteq g.dom[b] \cup {s}

\* A loop's latch branches to the loop's header, which dominates it.
HeadersDominate(g) ==
  \A l \in DOMAIN g.header : g.header[l] \in SuccSet(g, l) \cap g.dom[l]

\* The analyses answer what they are defined to: of the post-dominators, one
\* if there is any (the nearest, which the proofs do not need).
Analysed(g) ==
  LET pdom == PostDominatorsOf(g)
  IN  /\ IsFiniteSet(g.block)
      /\ g.dom = DominatorsOf(g)
      /\ \A b \in g.block :
           g.ipd[b] \in (IF pdom[b] = {} THEN {VirtualRoot} ELSE pdom[b])
      /\ g.header \in [{e[1] : e \in BackEdges(g, g.dom)} -> g.block]

\* Every block is on a way from the entry to an exit. (LLVM's post-dominator
\* tree gives endless loops an artificial exit, which is not modelled.)
NoneDead(g) ==
  /\ Reachable(g) = g.block
  /\ \A b \in g.block : ReachAvoiding(g, {b}, {}) \cap Exits(g) # {}
=============================================================================
