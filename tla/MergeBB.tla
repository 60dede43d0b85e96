------------------------------- MODULE MergeBB -------------------------------
(* The MergeBB pass (lib/MergeBB.cpp): a block that only leads to a          *)
(* successor which an identical block leads to as well is removed, and its   *)
(* predecessors branch to the other one.                                     *)
(*                                                                           *)
(* A function is a record                                                    *)
(*   block  its blocks, entry its entry block, order their sequence          *)
(*   succ   per block, its terminator's successors in operand order          *)
(*   term   per block, the terminator's kind: br, switch, ret or other       *)
(*          (indirectbr, invoke, callbr...)                                  *)
(*   phi    per block, the sequence of its phis: a phi is a record of its    *)
(*          entries, per operand a [from, value], and of its uses            *)
(*   body   per block, the sequence of its other instructions up to the      *)
(*          terminator, intrinsics for debugging left out: records of what   *)
(*          an instruction does (its operation and operands) and of its uses *)
(* A value is [at, n]: the n-th instruction of the block at, or, with at 0,  *)
(* a constant, an argument or a value of a block that is not merged.         *)
EXTENDS Naturals, Sequences, FiniteSets, SequencesExt

CONSTANTS Functions

Succs(g, b) == ToSet(g.succ[b])

Preds(g, b) == {p \in g.block : b \in Succs(g, p)}

\* A phi has one value for each of its block's predecessors; a value of a
\* block without phis is one of the block's other instructions.
WellFormedPhis(g) ==
  \A s \in g.block :
    /\ Len(g.phi[s]) \in Nat /\ DOMAIN g.phi[s] = 1..Len(g.phi[s])
    /\ \A k \in DOMAIN g.phi[s] :
         LET entries == ToSet(g.phi[s][k].entries)
         IN  /\ \A p \in Preds(g, s) : \E e \in entries : e.from = p
             /\ \A e1, e2 \in entries : e1.from = e2.from => e1.value = e2.value
             /\ \A e \in entries :
                  /\ e.value = [at |-> e.value.at, n |-> e.value.n]
                  /\ e.value.at \in g.block /\ g.phi[e.value.at] = <<>> =>
                       e.value.n \in DOMAIN g.body[e.value.at]

\* The uses of b's n-th instruction: without uses it is in no phi, and with a
\* single one it is in no phi but that of its block's successor, as the value
\* for b, or of b itself.
UsedAlone(g, b, n) ==
  g.body[b][n].uses \in {"none", "phi", "block"} =>
    \A s \in g.block : \A k \in DOMAIN g.phi[s] : \A e \in ToSet(g.phi[s][k].entries) :
      e.value = [at |-> b, n |-> n] =>
        \/ g.body[b][n].uses = "phi" /\ e.from = b
        \/ g.body[b][n].uses = "block" /\ s = b

\* One used by the phi of the block's successor is that phi's value for b.
UsedByPhi(g, b, n) ==
  g.body[b][n].uses = "phi" =>
    \E s \in Succs(g, b) : \E k \in DOMAIN g.phi[s] : \E e \in ToSet(g.phi[s][k].entries) :
      e.from = b /\ e.value = [at |-> b, n |-> n]

\* One used in its own block is an operand there, and, as this is its only use,
\* of no instruction of another block: none does what that user does.
UsedInBlock(g, b, n) ==
  g.body[b][n].uses = "block" /\ g.phi[b] = <<>> =>
    \E j \in DOMAIN g.body[b] : \A c \in g.block \ {b} : \A i \in DOMAIN g.body[c] :
      g.body[c][i].what # g.body[b][j].what

WellFormedUses(g) ==
  \A b \in g.block : \A n \in DOMAIN g.body[b] :
    UsedAlone(g, b, n) /\ UsedByPhi(g, b, n) /\ UsedInBlock(g, b, n)

\* What every function in LLVM is, as far as the passes rely on it.
WellFormed(g) ==
  /\ DOMAIN g = {"block", "entry", "order", "succ", "term", "phi", "body"}
  /\ IsFiniteSet(g.block) /\ g.entry \in g.block
  /\ g.order \in Seq(g.block)
  /\ \A i, j \in DOMAIN g.order : g.order[i] = g.order[j] => i = j
  /\ g.succ \in [g.block -> Seq(g.block)]
  /\ WellFormedPhis(g)
  /\ WellFormedUses(g)

ASSUME FunctionsAssumption == \A g \in Functions : WellFormed(g)

VARIABLES
  original,    \* the function before the pass
  f,           \* the function
  next,        \* the position in f's order of the block to look at
  DeleteList,  \* the merged blocks, each with the block retained for it
  pc

vars == <<original, f, next, DeleteList, pc>>

Deleted(b) == b \in DOMAIN DeleteList

Init ==
  /\ original \in Functions
  /\ f = original
  /\ next = 1
  /\ DeleteList = [b \in {} |-> original.entry]
  /\ pc = "merge"

-----------------------------------------------------------------------------
(* mergeDuplicatedBlock's conditions.                                       *)

\* An instruction's uses: none, a single one by the successor's phi (phi) or
\* in its own block (block), or others.
canRemoveInst(inst) == inst.uses \in {"phi", "block"}

SameUses(x, y) ==
  IF x.uses = "none" THEN y.uses = "none" ELSE canRemoveInst(x) /\ canRemoveInst(y)

canMergeInstructions(x, y) == x.what = y.what /\ SameUses(x, y)

\* isSameOperationAs and the operands of two phis: their values are compared,
\* the blocks they come from are not.
canMergePhis(x, y) ==
  /\ DOMAIN x.entries = DOMAIN y.entries
  /\ \A k \in DOMAIN x.entries : x.entries[k].value = y.entries[k].value
  /\ SameUses(x, y)

\* The lockstep walk over two blocks with as many instructions each.
Identical(b1, b2) ==
  /\ DOMAIN f.phi[b1] = DOMAIN f.phi[b2] /\ DOMAIN f.body[b1] = DOMAIN f.body[b2]
  /\ \A k \in DOMAIN f.phi[b1] : canMergePhis(f.phi[b1][k], f.phi[b2][k])
  /\ \A k \in DOMAIN f.body[b1] : canMergeInstructions(f.body[b1][k], f.body[b2][k])

OnlyLeadsOn(b) == f.term[b] = "br" /\ Len(f.succ[b]) = 1

BranchOrSwitch(g, b) == \A p \in Preds(g, b) : g.term[p] \in {"br", "switch"}

getIncomingValueForBlock(phi, b) ==
  LET k == CHOOSE n \in DOMAIN phi.entries : phi.entries[n].from = b
  IN  phi.entries[k].value

\* Mutant: the entry block is merged too.
QualifiesEntryToo(BB1) ==
  /\ OnlyLeadsOn(BB1)
  /\ BranchOrSwitch(f, BB1)
  /\ Len(f.phi[f.succ[BB1][1]]) <= 1

\* Lines 149-180: what BB1 has to satisfy.
Qualifies(BB1) ==
  /\ BB1 # f.entry
  /\ OnlyLeadsOn(BB1)
  /\ BranchOrSwitch(f, BB1)
  /\ Len(f.phi[f.succ[BB1][1]]) <= 1

\* Mutant: two values from outside the blocks need not be the same.
ValuesMatchLax(phi, BB1, BB2) ==
  LET v1 == getIncomingValueForBlock(phi, BB1)
      v2 == getIncomingValueForBlock(phi, BB2)
  IN  (v1.at = BB1) = (v2.at = BB2)

\* Lines 214-226: the values the successor's phi has for the two blocks.
ValuesMatch(phi, BB1, BB2) ==
  LET v1 == getIncomingValueForBlock(phi, BB1)
      v2 == getIncomingValueForBlock(phi, BB2)
  IN  v1 = v2 \/ (v1.at = BB1 /\ v2.at = BB2)

\* Mutant: blocks already marked are not skipped.
DuplicatesMarkedToo(BB1) ==
  LET BBSucc == f.succ[BB1][1]
  IN  {BB2 \in Preds(f, BBSucc) :
         /\ BB2 # f.entry
         /\ OnlyLeadsOn(BB2)
         /\ BB2 # BB1
         /\ f.phi[BBSucc] # <<>> => ValuesMatch(f.phi[BBSucc][1], BB1, BB2)
         /\ Identical(BB1, BB2)}

\* Lines 183-236: the blocks BB1 may be merged into. The test of BB2's
\* predecessors (lines 193-198) goes on with its own loop: it rejects none.
Duplicates(BB1) ==
  LET BBSucc == f.succ[BB1][1]
  IN  {BB2 \in Preds(f, BBSucc) :
         /\ BB2 # f.entry
         /\ OnlyLeadsOn(BB2)
         /\ ~Deleted(BB2)
         /\ BB2 # BB1
         /\ f.phi[BBSucc] # <<>> => ValuesMatch(f.phi[BBSucc][1], BB1, BB2)
         /\ Identical(BB1, BB2)}

-----------------------------------------------------------------------------
(* run: every block in turn, then the merged ones are deleted.              *)

BB == f.order[next]

\* Mutant: only the first operand of a terminator is replaced.
updateBranchTargetsFirst(BBToErase, BBToRetain) ==
  f' = [f EXCEPT !.succ = [b \in f.block |->
          [k \in DOMAIN f.succ[b] |->
             IF k = 1 /\ f.succ[b][k] = BBToErase THEN BBToRetain ELSE f.succ[b][k]]]]

updateBranchTargets(BBToErase, BBToRetain) ==
  f' = [f EXCEPT !.succ = [b \in f.block |->
          [k \in DOMAIN f.succ[b] |->
             IF f.succ[b][k] = BBToErase THEN BBToRetain ELSE f.succ[b][k]]]]

\* The first of the duplicates, in the order of the successor's use list, is
\* retained; that order is not part of the model.
Merge ==
  /\ pc = "merge" /\ next <= Len(f.order)
  /\ Qualifies(BB)
  /\ \E BB2 \in Duplicates(BB) :
       /\ updateBranchTargets(BB, BB2)
       /\ DeleteList' = [b \in DOMAIN DeleteList \cup {BB} |->
                           IF b = BB THEN BB2 ELSE DeleteList[b]]
  /\ pc' = IF Preds(f, BB) = {} THEN "assert" ELSE pc
  /\ next' = next + 1
  /\ UNCHANGED original

\* Mutant: the iterator is not advanced.
SkipStays ==
  /\ pc = "merge" /\ next <= Len(f.order)
  /\ Qualifies(BB) => Duplicates(BB) = {}
  /\ UNCHANGED vars

Skip ==
  /\ pc = "merge" /\ next <= Len(f.order)
  /\ Qualifies(BB) => Duplicates(BB) = {}
  /\ next' = next + 1
  /\ UNCHANGED <<original, f, DeleteList, pc>>

\* DeleteDeadBlock: the phis of the block's successor lose their entries for
\* it. DeleteList is a set of pointers, in no fixed order.
Delete ==
  /\ pc \in {"merge", "delete"} /\ next > Len(f.order)
  /\ \E b \in DOMAIN DeleteList \cap f.block :
       f' = LET left == f.block \ {b}
                Drop(phi) ==
                  [uses    |-> phi.uses,
                   entries |-> Restrict(phi.entries,
                                 {k \in DOMAIN phi.entries : phi.entries[k].from # b})]
            IN  [f EXCEPT
                   !.block = left,
                   !.succ  = [x \in left |-> @[x]],
                   !.phi   = [x \in left |-> [k \in DOMAIN @[x] |-> Drop(@[x][k])]]]
  /\ pc' = "delete"
  /\ UNCHANGED <<original, next, DeleteList>>

Finish ==
  /\ pc \in {"merge", "delete"} /\ next > Len(f.order)
  /\ DOMAIN DeleteList \cap f.block = {}
  /\ pc' = "done"
  /\ UNCHANGED <<original, f, next, DeleteList>>

Halt == pc \in {"done", "assert"} /\ UNCHANGED vars

Next == Merge \/ Skip \/ Delete \/ Finish \/ Halt

Spec == Init /\ [][Next]_vars /\ WF_vars(Next)

-----------------------------------------------------------------------------
(* Properties.                                                              *)

TypeOK ==
  /\ pc \in {"merge", "delete", "done", "assert"}
  /\ next \in 1..(Len(original.order) + 1)
  /\ f.entry \in f.block /\ f.block \subseteq original.block
  /\ \A b \in f.block : f.succ[b] \in Seq(f.block)
  /\ DeleteList \in [DOMAIN DeleteList -> original.block]

\* Two values stand for the same: the same value, or what the same
\* instruction of two blocks computes.
Corresponds(v1, b1, v2, b2) ==
  v1 = v2 \/ (v1.at = b1 /\ v2.at = b2 /\ v1.n = v2.n)

\* Entering s1 from b1, and s2 from b2, gives their phis the same values.
SamePhis(s1, b1, s2, b2) ==
  /\ DOMAIN original.phi[s1] = DOMAIN f.phi[s2]
  /\ \A k \in DOMAIN original.phi[s1] :
       \E e1 \in ToSet(original.phi[s1][k].entries), e2 \in ToSet(f.phi[s2][k].entries) :
         e1.from = b1 /\ e2.from = b2 /\ Corresponds(e1.value, b1, e2.value, b2)

SameWork(b1, b2) ==
  /\ original.term[b1] = f.term[b2]
  /\ Len(original.succ[b1]) = Len(f.succ[b2])
  /\ [k \in DOMAIN original.body[b1] |-> original.body[b1][k].what]
       = [k \in DOMAIN f.body[b2] |-> f.body[b2][k].what]

\* From b1 and b2 the two functions go on, with the same values for the phis,
\* to blocks that S does not tell apart.
Agree(S, b1, b2) ==
  \A k \in DOMAIN original.succ[b1] :
    LET s1 == original.succ[b1][k]
        s2 == f.succ[b2][k]
    IN  <<s1, s2>> \in S /\ SamePhis(s1, b1, s2, b2)

\* The pairs of a block of the original function and one of the present one
\* that no execution of n + 1 blocks can tell apart, and those that none can.
Indistinct[n \in Nat] ==
  IF n = 0 THEN {p \in original.block \X f.block : SameWork(p[1], p[2])}
  ELSE LET before == Indistinct[n - 1]
       IN  {p \in before : Agree(before, p[1], p[2])}

Bisimilar ==
  LET all == Cardinality(original.block) * Cardinality(f.block)
  IN  Indistinct[CHOOSE n \in 0..all : n = all \/ Indistinct[n + 1] = Indistinct[n]]

\* The function does what it did, after every block that is merged and in
\* whatever order they are deleted: "It is safe to de-duplicate - do so."
BehaviourKept == pc # "assert" => <<original.entry, f.entry>> \in Bisimilar

\* Nothing branches to a merged block, not even another merged one: so every
\* DeleteDeadBlock, which asserts it, succeeds, in every order.
NothingLeadsToDeleted ==
  \A b \in DOMAIN DeleteList \cap f.block : Preds(f, b) = {}

\* Every merge moves a branch, as line 240 asserts, though merges take away
\* the predecessors of later blocks; unless the function came with a block
\* that nothing leads to: none of the conditions excludes such a duplicate.
BranchTargetUpdated ==
  pc = "assert" => \E b \in original.block \ {original.entry} : Preds(original, b) = {}

\* The pass ends, with all the merged blocks deleted.
Ends == <>(pc = "assert" \/ (pc = "done" /\ DOMAIN DeleteList \cap f.block = {}))
=============================================================================
