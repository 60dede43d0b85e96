----------------------------- MODULE PhiToSelect -----------------------------
(* modifyPhis and generateSelect of lib/Secret.cpp. Once both sides of a    *)
(* branch are executed, a phi no longer knows where control came from: the  *)
(* pass replaces it by selects on the conditions of the branches that       *)
(* dominate its incoming blocks.                                            *)
(*                                                                          *)
(* One phi is followed: that the pass replaces several does not matter, the *)
(* three containers are cleared for each. Its i-th incoming value is named  *)
(* by i. The function is the original one: the pass replaces phis before it *)
(* replaces the terminators, with the dominator tree computed before.       *)
EXTENDS CFG

CONSTANT Phis  \* records: g a function, join the phi's block, inc the
               \* sequence of its incoming blocks in operand order

Incoming(p) == 1..Len(p.inc)

Dominates(f, a, b) == a \in f.dom[b]

\* DominatorTree::findNearestCommonDominator.
NearestCommonDominator(f, a, b) ==
  CHOOSE d \in f.dom[a] \cap f.dom[b] : f.dom[a] \cap f.dom[b] \subseteq f.dom[d]

\* The dominator of two operands' blocks.
Branch(p, i, j) == NearestCommonDominator(p.g, p.inc[i], p.inc[j])

\* The operands to which control comes on the side s of the branch of d.
From(p, d, s) ==
  {i \in Incoming(p) :
     IF p.inc[i] = d THEN p.g.succ[d][s] = p.join
     ELSE p.inc[i] \in ReachAvoiding(p.g, {p.g.succ[d][s]}, {p.join})}

\* A phi has an operand for every block that leads to its own, and is not the
\* phi of a loop: those are left alone (lines 727-749).
WellFormedPhi(p) ==
  /\ WellFormed(p.g) /\ IsFiniteSet(p.g.block)
  /\ p.g.dom = DominatorsOf(p.g) /\ Reachable(p.g) = p.g.block
  /\ p.join \in p.g.block /\ p.inc \in Seq(p.g.block)
  /\ \A b \in p.g.block : b \in Preds(p.g, p.join) <=> \E i \in Incoming(p) : p.inc[i] = b
  /\ \A i, j \in Incoming(p) : p.inc[i] = p.inc[j] => i = j
  /\ \A i \in Incoming(p) : p.join \notin p.g.dom[p.inc[i]]

\* Of two operands, one comes on one side of their branch, the other on the
\* other: what structured branches give.
Separated(p) ==
  \A i, j \in Incoming(p) : i # j =>
    LET d == Branch(p, i, j)
    IN  /\ IsConditional(p.g, d)
        /\ \E s, t \in {1, 2} : /\ i \in From(p, d, s) \ From(p, d, t)
                                /\ j \in From(p, d, t) \ From(p, d, s)

ASSUME PhisAssumption == \A p \in Phis : WellFormedPhi(p) /\ Separated(p)

VARIABLES
  phi,               \* the phi being replaced
  addr,              \* per operand, how many of the blocks have a lower address
  commonDomMap,      \* per pair of operands, the dominator of their blocks
  selectBasicBlock,  \* per incoming block, the select that stands for it
  selects,           \* the selects made so far
  pc

vars == <<phi, addr, commonDomMap, selectBasicBlock, selects, pc>>

Pairs(p) == {ij \in Incoming(p) \X Incoming(p) : ij[1] < ij[2]}

\* modifyPhis, lines 657-677. Nothing in the program fixes the addresses.
Init ==
  /\ phi \in Phis
  /\ addr \in [Incoming(phi) -> 0..(Len(phi.inc) - 1)]
  /\ \A i, j \in Incoming(phi) : addr[i] = addr[j] => i = j
  /\ commonDomMap = [ij \in Pairs(phi) |-> Branch(phi, ij[1], ij[2])]
  /\ selectBasicBlock = [i \in {} |-> 0]
  /\ selects = <<>>
  /\ pc = "select"

\* Where a pair is in the map's order: keys are vectors of two pointers.
Key(ij) == Len(phi.inc) * addr[ij[1]] + addr[ij[2]]

begin == CHOOSE ij \in DOMAIN commonDomMap : \A xy \in DOMAIN commonDomMap : Key(ij) <= Key(xy)

\* Mutant: up, to the dominators of the present pair's.
MoveUp(t, k) ==
  LET higher == {ij \in DOMAIN commonDomMap :
                   Key(ij) = k /\ Dominates(phi.g, commonDomMap[ij], commonDomMap[t])}
  IN  IF higher = {} THEN t ELSE CHOOSE ij \in higher : TRUE

\* Lines 584-589: from t move to the pair with key k, if there is one and its
\* dominator is dominated by that of t.
Move(t, k) ==
  LET lower == {ij \in DOMAIN commonDomMap :
                  Key(ij) = k /\ Dominates(phi.g, commonDomMap[t], commonDomMap[ij])}
  IN  IF lower = {} THEN t ELSE CHOOSE ij \in lower : TRUE

\* The pair that one pass over the map, from its first pair on, ends with.
temp ==
  LET scan[n \in Nat] == IF n = 0 THEN begin ELSE LET t == scan[n - 1] IN Move(t, n - 1)
  IN  scan[Len(phi.inc) * Len(phi.inc)]

\* An operand of a select: an incoming value, or an earlier select.
Value(i) == [select |-> FALSE, of |-> i]
Select(n) == [select |-> TRUE, of |-> n]

\* Mutants: the select that stands for a block is not looked up, or is the
\* one after it.
OperandOriginal(i) == Value(i)
OperandNext(i) == IF i \in DOMAIN selectBasicBlock THEN Select(selectBasicBlock[i] + 1)
                  ELSE Value(i)

Operand(i) == IF i \in DOMAIN selectBasicBlock THEN Select(selectBasicBlock[i])
              ELSE Value(i)

Operands(s) == {s.then, s.els}

\* The pairs that have another dominator than ij.
OtherPairs(ij) == {xy \in DOMAIN commonDomMap : commonDomMap[xy] # commonDomMap[ij]}

\* Mutants: the sides are swapped; no pair is forgotten (three selects will do).
SelectForSwapped(t) ==
  /\ selects' = Append(selects, [cond |-> commonDomMap[t],
                                 then |-> Operand(t[2]), els |-> Operand(t[1])])
  /\ selectBasicBlock' = [k \in DOMAIN selectBasicBlock \cup {t[1], t[2]} |->
                            IF k \in {t[1], t[2]} THEN Len(selects') ELSE selectBasicBlock[k]]
  /\ commonDomMap' = [ij \in OtherPairs(t) |-> commonDomMap[ij]]

SelectForNoErase(t) ==
  /\ selects' = IF Len(selects) = 3 THEN selects
                ELSE Append(selects, [cond |-> commonDomMap[t],
                                      then |-> Operand(t[1]), els |-> Operand(t[2])])
  /\ UNCHANGED <<commonDomMap, selectBasicBlock>>

\* Lines 592-644: a select on the condition of the pair's dominator, which then
\* stands for both blocks of the pair; every pair with that dominator is
\* forgotten.
SelectFor(t) ==
  /\ selects' = Append(selects, [cond |-> commonDomMap[t],
                                 then |-> Operand(t[1]), els |-> Operand(t[2])])
  /\ selectBasicBlock' = [k \in DOMAIN selectBasicBlock \cup {t[1], t[2]} |->
                            IF k \in {t[1], t[2]} THEN Len(selects') ELSE selectBasicBlock[k]]
  /\ commonDomMap' = [ij \in OtherPairs(t) |-> commonDomMap[ij]]

\* One iteration of the while loop.
GenerateSelect ==
  /\ pc = "select" /\ DOMAIN commonDomMap # {}
  /\ \E t \in {temp} : SelectFor(t)
  /\ UNCHANGED <<phi, addr, pc>>

\* Lines 681-686: the last select takes the phi's place. A phi with a single
\* incoming value gives none, and back() of the empty vector is read.
ReplacePhi ==
  /\ pc = "select" /\ DOMAIN commonDomMap = {}
  /\ pc' = IF selects = <<>> THEN "crashed" ELSE "replaced"
  /\ UNCHANGED <<phi, addr, commonDomMap, selectBasicBlock, selects>>

Halt == pc # "select" /\ UNCHANGED vars

Next == GenerateSelect \/ ReplacePhi \/ Halt

Spec == Init /\ [][Next]_vars /\ WF_vars(Next)

-----------------------------------------------------------------------------
(* What the phi and the selects compute. An environment says how each       *)
(* conditional branch goes.                                                 *)

Environments(f) == [{b \in f.block : IsConditional(f, b)} -> BOOLEAN]

\* Where control goes from b.
Follow(f, env, b) ==
  CASE f.succ[b] = <<>>   -> b
    [] Len(f.succ[b]) = 1 -> f.succ[b][1]
    [] OTHER              -> f.succ[b][IF env[b] THEN 1 ELSE 2]

\* The blocks of an execution, one after the other.
Execution(f, env) ==
  LET at[n \in Nat] == IF n = 0 THEN f.entry ELSE Follow(f, env, at[n - 1])
  IN  at

\* The incoming value the phi takes: the edge by which control first enters
\* its block; 0 if it does not.
PhiValue(p, env) ==
  LET at == Execution(p.g, env)
      enters == {n \in 0..Cardinality(p.g.block) : at[n + 1] = p.join}
      first == CHOOSE n \in enters : \A m \in enters : n <= m
  IN  IF enters = {} THEN 0 ELSE CHOOSE i \in Incoming(p) : p.inc[i] = at[first]

\* What the last select comes to.
SelectValue(env) ==
  LET operand(val, o) == IF o.select THEN val[o.of] ELSE o.of
      value[n \in 1..Len(selects)] ==
        LET s == selects[n]
        IN  operand(value, IF env[s.cond] THEN s.then ELSE s.els)
  IN  value[Len(selects)]

\* Of two incoming blocks, the first comes on the true side of the branch
\* that separates them: the operand order in which clang emits phis of
\* if/else statements, and the one the pass takes for granted.
ThenFirst(p) ==
  \A i, j \in Incoming(p) : i < j =>
    i \in From(p, Branch(p, i, j), 1) /\ j \in From(p, Branch(p, i, j), 2)

\* Between two operands of one side of a branch is none of the other side.
InTurn(p) ==
  \A i, j, k \in Incoming(p) :
    i < j /\ j < k /\ Branch(p, i, j) = Branch(p, j, k) => Branch(p, i, k) = Branch(p, i, j)

\* The containers hold what their C++ types say, and selects refer to earlier
\* ones only: each is inserted after its operands (lines 681-683).
TypeOK ==
  /\ pc \in {"select", "replaced", "crashed"}
  /\ \A ij \in DOMAIN commonDomMap :
       /\ ij \in Incoming(phi) \X Incoming(phi)
       /\ IsConditional(phi.g, commonDomMap[ij])
  /\ DOMAIN selectBasicBlock \subseteq Incoming(phi)
  /\ \A i \in DOMAIN selectBasicBlock : selectBasicBlock[i] \in 1..Len(selects)
  /\ \A n \in 1..Len(selects) :
       \A o \in Operands(selects[n]) :
         o.of \in IF o.select THEN 1..(n - 1) ELSE Incoming(phi)

\* The value computed by the last select is the phi's, however the branches
\* go, if the phi's operands come in the order of the branches' sides. (The
\* pairs are taken bottom up, and of those with the same dominator one.) Of
\* the phis of two operands these are all: one in the other order is replaced
\* by the select of the wrong value.
SelectsAgree ==
  pc = "replaced" =>
    LET agree == \A env \in Environments(phi.g) :
                   PhiValue(phi, env) # 0 => SelectValue(env) = PhiValue(phi, env)
    IN  /\ ThenFirst(phi) => agree
        /\ agree /\ Len(phi.inc) = 2 => ThenFirst(phi)

\* No pair is handled before a pair whose branch is below its own, although
\* the search starts anywhere and passes over the map once: when a select is
\* made, each of its branch's sides is down to one value.
BottomUp ==
  pc = "select" /\ DOMAIN commonDomMap # {} =>
    \A t \in {temp} : \A ij \in DOMAIN commonDomMap :
      Dominates(phi.g, commonDomMap[t], commonDomMap[ij]) => commonDomMap[ij] = commonDomMap[t]

\* After a pair is merged, selectBasicBlock still holds an older select for
\* the other blocks of its two groups; the blocks of the next pair, being the
\* last in the map's order, are never among those: no value is lost. It takes
\* operands whose sides come in turn: of four others, one may be lost.
NothingLost ==
  pc = "replaced" /\ InTurn(phi) =>
    /\ \A i \in Incoming(phi) : \E n \in 1..Len(selects) : Value(i) \in Operands(selects[n])
    /\ \A m \in 1..(Len(selects) - 1) :
         \E n \in (m + 1)..Len(selects) : Select(m) \in Operands(selects[n])

\* The while loop ends: every iteration forgets at least one pair.
Terminates == <>(pc # "select")
=============================================================================
