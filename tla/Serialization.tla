---------------------------- MODULE Serialization ----------------------------
(* The core of the Secret pass (lib/Secret.cpp): recursiveSerialization     *)
(* walks a function's control-flow graph and records in serializedCode, for *)
(* every block, the one branch that is to end it, so that both sides of     *)
(* every conditional branch are executed one after the other; then          *)
(* printInputsVectorResult replaces the terminators.                        *)
(*                                                                          *)
(* The recursive calls are tail calls: their stack holds nothing that is    *)
(* read again, so the state of the walk is its argument bb, the explicit    *)
(* stack condBranch and the map serializedCode. A conditional branch is     *)
(* named by its block (an LLVM block has one terminator), and so is its     *)
(* condition.                                                               *)
EXTENDS CFG

CONSTANTS
  Functions, \* the functions the pass may be run on, with their analyses
  Null       \* the null llvm::Value* / llvm::BasicBlock*

ASSUME FunctionsAssumption ==
  \A f \in Functions : WellFormed(f) /\ DominatorsFlow(f) /\ HeadersDominate(f)

\* Every block can be executed, and line 715 asserts the loops' form.
ASSUME FormAssumption ==
  \A f \in Functions : Analysed(f) /\ NoneDead(f) /\ LoopSimplifyForm(f)

ASSUME NullAssumption ==
  \A f \in Functions : /\ VirtualRoot \notin f.block
                       /\ Null \notin f.block

VARIABLES
  g,              \* the function being transformed, as the pass found it
  pc,             \* where the walk is
  bb,             \* the block recursiveSerialization was last called on
  serializedCode, \* std::map<BasicBlock*, newBranch>, a partial function
  condBranch,     \* std::vector<BranchInst*>, its back is the last element
  cur,            \* the entry the search of lines 489-500 is at
  code            \* per block, the branch that ends it in the function's body

vars == <<g, pc, bb, serializedCode, condBranch, cur, code>>

newBranch(c, t, e) == [cond |-> c, then |-> t, els |-> e]

Serialized(b) == b \in DOMAIN serializedCode

Returns(b) == b \in g.ret

Record(b, br) == [x \in DOMAIN serializedCode \cup {b} |->
                    IF x = b THEN br ELSE serializedCode[x]]

\* Mutants: the fields in the wrong order; the side taken first is the other.
ElseOnlyFieldsSwapped(b) == Record(b, newBranch(Null, Null, g.succ[b][2]))
ElseOnlyThenKept(b) == Record(b, newBranch(Null, g.succ[b][1], Null))
ElseOnlyBranchKept(b) == Record(b, newBranch(b, g.succ[b][1], g.succ[b][2]))

\* std::map::insert of line 556: the branch that keeps the else side only.
ElseOnly(b) == Record(b, newBranch(Null, g.succ[b][2], Null))

lastBranch == condBranch[Len(condBranch)]

\* Mutant: the other successor is inserted.
thenSideElse == g.succ[lastBranch][2]

\* The successor the walk leaves for last, lastBranch->getSuccessor(0).
thenSide == g.succ[lastBranch][1]

postDom == g.ipd[lastBranch]

Joined(b) == b \in g.block /\ (Serialized(b) \/ Returns(b))

\* Mutants: the stack is popped at the wrong end; it is not popped.
PopBranchFront == condBranch' = Tail(condBranch)
PopBranchForgotten == condBranch' = condBranch

PopBranch == condBranch' = SubSeq(condBranch, 1, Len(condBranch) - 1)

Call(b) == pc' = "visit" /\ bb' = b

\* The body of the function before the pass: its own terminators.
OriginalBranch(f, b) ==
  CASE f.succ[b] = <<>>   -> newBranch(Null, Null, Null)
    [] Len(f.succ[b]) = 1 -> newBranch(Null, f.succ[b][1], Null)
    [] OTHER              -> newBranch(b, f.succ[b][1], f.succ[b][2])

Init ==
  /\ g \in Functions
  /\ pc = "visit"
  /\ bb = g.entry
  /\ serializedCode = [b \in {} |-> newBranch(Null, Null, Null)]
  /\ condBranch = <<>>
  /\ cur = g.entry
  /\ code = [b \in g.block |-> OriginalBranch(g, b)]

-----------------------------------------------------------------------------
(* recursiveSerialization called on a block it has not recorded.            *)

VisitUnconditional ==
  /\ pc = "visit" /\ ~Serialized(bb)
  /\ Len(g.succ[bb]) = 1
  /\ serializedCode' = Record(bb, newBranch(Null, g.succ[bb][1], Null))
  /\ Call(g.succ[bb][1])
  /\ UNCHANGED <<g, condBranch, cur, code>>

\* The latch of a loop keeps its branch; the walk goes on outside the loop.
VisitLatch ==
  /\ pc = "visit" /\ ~Serialized(bb)
  /\ IsConditional(g, bb) /\ bb \in DOMAIN g.header
  /\ serializedCode' = Record(bb, newBranch(bb, g.succ[bb][1], g.succ[bb][2]))
  /\ Call(IF g.succ[bb][1] = g.header[bb] THEN g.succ[bb][2] ELSE g.succ[bb][1])
  /\ UNCHANGED <<g, condBranch, cur, code>>

\* Mutant: a latch's branch is removed like any other.
VisitConditionalLatchToo ==
  /\ pc = "visit" /\ ~Serialized(bb)
  /\ IsConditional(g, bb)
  /\ condBranch' = Append(condBranch, bb)
  /\ serializedCode' = ElseOnly(bb)
  /\ Call(g.succ[bb][2])
  /\ UNCHANGED <<g, cur, code>>

\* Any other conditional branch: the else side now, the then side later.
VisitConditional ==
  /\ pc = "visit" /\ ~Serialized(bb)
  /\ IsConditional(g, bb) /\ bb \notin DOMAIN g.header
  /\ condBranch' = Append(condBranch, bb)
  /\ serializedCode' = ElseOnly(bb)
  /\ Call(g.succ[bb][2])
  /\ UNCHANGED <<g, cur, code>>

\* A terminator that is neither ret nor a branch: every call returns at once.
VisitOther ==
  /\ pc = "visit" /\ ~Serialized(bb) /\ ~Returns(bb)
  /\ g.succ[bb] = <<>>
  /\ pc' = "done"
  /\ UNCHANGED <<g, bb, serializedCode, condBranch, cur, code>>

\* Mutant: the branches on the stack are dropped when the walk has met a ret.
VisitJoinedStops ==
  /\ pc = "visit" /\ Joined(bb)
  /\ pc' = IF condBranch = <<>> \/ Returns(bb) THEN "done" ELSE "unwind"
  /\ UNCHANGED <<g, bb, serializedCode, condBranch, cur, code>>

\* The walk has met a recorded block or a ret.
VisitJoined ==
  /\ pc = "visit" /\ Joined(bb)
  /\ pc' = IF condBranch = <<>> THEN "done" ELSE "unwind"
  /\ UNCHANGED <<g, bb, serializedCode, condBranch, cur, code>>

-----------------------------------------------------------------------------
(* The do-while loop over condBranch, lines 455-518.                        *)

\* The branch is post-dominated by no block: getBlock() is null, and the
\* null block's terminator is read.
UnwindNoPostDominator ==
  /\ pc = "unwind" /\ postDom = VirtualRoot
  /\ pc' = "crashed"
  /\ UNCHANGED <<g, bb, serializedCode, condBranch, cur, code>>

\* An if without a then side: nothing to insert, go on with the next branch.
UnwindEmptyThen ==
  /\ pc = "unwind" /\ Joined(postDom) /\ thenSide = postDom
  /\ PopBranch
  /\ pc' = IF condBranch' = <<>> THEN "done" ELSE "unwind"
  /\ UNCHANGED <<g, bb, serializedCode, cur, code>>

\* Mutant: the wrong field is compared.
EntriesIntoEls(b) == {p \in DOMAIN serializedCode : serializedCode[p].els = b}

\* The recorded blocks whose branch's then target is b.
EntriesInto(b) == {p \in DOMAIN serializedCode : serializedCode[p].then = b}

\* The then side is inserted before the join: the first entry (in the order
\* of the blocks' addresses, which nothing fixes) that goes to the join is
\* redirected to it. No entry may be there: then nothing is redirected.
UnwindRedirect ==
  /\ pc = "unwind" /\ Joined(postDom) /\ thenSide # postDom
  /\ IF EntriesInto(postDom) = {}
     THEN UNCHANGED serializedCode
     ELSE \E p \in EntriesInto(postDom) :
            serializedCode' = Record(p, newBranch(Null, thenSide, Null))
  /\ PopBranch
  /\ Call(thenSide)
  /\ UNCHANGED <<g, cur, code>>

\* The join is not recorded yet: the else side has run into a loop. Look for
\* the place where it did, from the branch's own entry on.
UnwindSearch ==
  /\ pc = "unwind" /\ postDom # VirtualRoot /\ ~Joined(postDom)
  /\ cur' = lastBranch
  /\ pc' = "search"
  /\ UNCHANGED <<g, bb, serializedCode, condBranch, code>>

\* Mutant: the entry itself is not left out of the comparison.
SharedWithItself == \E p \in DOMAIN serializedCode :
                      serializedCode[p].then = serializedCode[cur].then

\* Another entry goes where cur's goes.
Shared == \E p \in DOMAIN serializedCode \ {cur} :
            serializedCode[p].then = serializedCode[cur].then

\* find() may answer end(), which the next iteration dereferences.
SearchFollow ==
  /\ pc = "search" /\ ~Shared
  /\ IF Serialized(serializedCode[cur].then)
     THEN cur' = serializedCode[cur].then /\ pc' = pc
     ELSE cur' = cur /\ pc' = "crashed"
  /\ UNCHANGED <<g, bb, serializedCode, condBranch, code>>

\* The branch is moved to the block found.
SearchSplit ==
  /\ pc = "search" /\ Shared
  /\ serializedCode' =
       Record(cur, newBranch(lastBranch, thenSide, serializedCode[cur].then))
  /\ PopBranch
  /\ Call(thenSide)
  /\ UNCHANGED <<g, cur, code>>

-----------------------------------------------------------------------------
(* printInputsVectorResult, lines 756-766: every recorded block's           *)
(* terminator is erased and built anew from its entry.                      *)
ReplaceTerminators ==
  /\ pc = "done"
  /\ code' = [b \in g.block |-> IF Serialized(b) THEN serializedCode[b] ELSE code[b]]
  /\ pc' = "replaced"
  /\ UNCHANGED <<g, bb, serializedCode, condBranch, cur>>

Stopped == pc \in {"replaced", "crashed"}

\* The pass has ended (or the compiler has).
Halt == Stopped /\ UNCHANGED vars

Visit == \/ VisitUnconditional \/ VisitLatch \/ VisitConditional
         \/ VisitOther \/ VisitJoined

Unwind == \/ UnwindNoPostDominator \/ UnwindEmptyThen
          \/ UnwindRedirect \/ UnwindSearch

Search == SearchFollow \/ SearchSplit

Next == Visit \/ Unwind \/ Search \/ ReplaceTerminators \/ Halt

Spec == Init /\ [][Next]_vars

\* The pass is a sequential program that nothing interrupts.
FairSpec == Spec /\ WF_vars(Next)
-----------------------------------------------------------------------------
(* Properties.                                                              *)

Targets(br) == {br.then, br.els} \ {Null}

\* The function as the pass leaves it, as a control-flow graph.
output == [block |-> g.block, entry |-> g.entry, ret |-> g.ret,
           succ  |-> [b \in g.block |->
                        IF code[b].then = Null THEN <<>>
                        ELSE IF code[b].els = Null THEN <<code[b].then>>
                        ELSE <<code[b].then, code[b].els>>]]

\* The walk's data stay what the C++ types say.
TypeOK ==
  /\ pc \in {"visit", "unwind", "search", "done", "replaced", "crashed"}
  /\ bb \in g.block
  /\ cur \in g.block
  /\ DOMAIN serializedCode \subseteq g.block
  /\ serializedCode \in [DOMAIN serializedCode ->
                           [cond : g.block \cup {Null}, then : g.block,
                            els  : g.block \cup {Null}]]
  /\ condBranch \in Seq(g.block)
  /\ code \in [g.block -> [cond : g.block \cup {Null}, then : g.block \cup {Null},
                            els  : g.block \cup {Null}]]

\* Control that has come to b has not met a block the walk left out: b has
\* an entry, or is an exit, or is the block the walk is being called on.
Covered(b) == \/ Serialized(b)
              \/ g.succ[b] = <<>>
              \/ pc = "visit" /\ b = bb

\* Of the branches of the function, only the then sides the stack still
\* holds are not yet covered.
SidesPending ==
  pc # "crashed" =>
    /\ Covered(g.entry)
    /\ \A b \in DOMAIN serializedCode : \A s \in SuccSet(g, b) :
         \/ Covered(s)
         \/ \E i \in 1..Len(condBranch) : condBranch[i] = b /\ s = g.succ[b][1]

\* No branch the pass writes leads to a block that still has its own,
\* secret-dependent, terminator: the targets of the entries are covered.
\* (UnwindRedirect and SearchSplit write targets that no one has visited.)
TargetsCovered ==
  pc # "crashed" =>
    \A b \in DOMAIN serializedCode : \A s \in Targets(serializedCode[b]) : Covered(s)

\* When every exit of the function is a ret, no branch is left on the stack.
NothingLeftOver ==
  pc \in {"done", "replaced"} /\ Exits(g) \subseteq g.ret => condBranch = <<>>

\* A side of a secret branch is never forgotten, and every reachable block is
\* recorded in the end. (VisitConditional takes one side and relies on a later
\* pop, many calls deep, for the other.)
NothingForgotten == SidesPending /\ NothingLeftOver

\* The blocks on the stack are recorded conditional branches that are no
\* latches, each there once: a then side is inserted at most once.
StackSound ==
  \A i \in 1..Len(condBranch) :
    /\ Serialized(condBranch[i])
    /\ IsConditional(g, condBranch[i]) /\ condBranch[i] \notin DOMAIN g.header
    /\ \A j \in 1..Len(condBranch) : condBranch[i] = condBranch[j] => i = j

-----------------------------------------------------------------------------
(* What the pass is for. The function it leaves is one straight line of     *)
(* blocks, whose only branches are the loops' own: executing it does not    *)
(* depend on a secret condition. This cannot hold for every function.       *)

Straight(out) ==
  LET dom == DominatorsOf(out)
  IN  /\ Reachable(g) \subseteq Reachable(out)
      \* one way forward from every block, besides the jump back of a loop
      /\ \A b \in Reachable(out) \ Exits(g) :
           Cardinality(SuccSet(out, b) \ dom[b]) = 1
      \* a block still comes after all those that came before it: every
      \* value is computed before it is used
      /\ \A e \in ForwardEdges(g) : e[1] \in dom[e[2]]

Right == pc = "replaced" /\ Straight(output)

\* Every function with one ret, structured branches and rotated loops is
\* made a straight line, through all its blocks, in an order compatible with
\* the original one (recursiveSerialization as a whole).
Linearised == Stopped /\ Supported(g) => Right

\* What of the other functions with one ret? One without loops whose branches
\* are not structured is never made a straight line. Of the while loops,
\* which are left from their headers, the pass moves the exit to the latch
\* (UnwindSearch, SearchSplit), and the result is right, if and only if the
\* loop is left on the true side and the block it is left to does not return;
\* otherwise it loses its exit.
RightExactly ==
  Stopped /\ SingleReturn(g) =>
    /\ DOMAIN g.header = {} /\ Right => Structured(g)
    /\ Structured(g) /\ HeaderControlled(g) =>
         (Right <=>
            \A l \in DOMAIN g.header :
              g.succ[g.header[l]][1] \notin LoopBlocks(g, l) \cup g.ret)

\* A loop keeps its latch, its header and its blocks: what the pass inserts
\* for a branch inside or outside a loop does not cross the loop's boundary.
LoopsKept ==
  pc = "replaced" /\ Supported(g) =>
    LET after == Analyse(output)
    IN  /\ after.header = g.header
        /\ \A l \in DOMAIN g.header : LoopBlocks(after, l) = LoopBlocks(g, l)

\* The output is a function of the input: of the entries UnwindRedirect may
\* take there is exactly one, whatever the addresses of the blocks are.
RedirectDetermined ==
  pc = "unwind" /\ Supported(g) /\ Joined(postDom) /\ thenSide # postDom
    => Cardinality(EntriesInto(postDom)) = 1

\* The pass returns: neither the recursion nor the two loops run for ever.
Terminates == <>Stopped

\* The README's claim for compile.sh: after its transformations (lowerswitch
\* and loop-simplify) every function is one the pass can be run on, and the
\* program it gives can be executed: control reaches the end.
OutputReturns ==
  pc = "replaced" =>
    \A b \in Reachable(output) : ReachAvoiding(output, {b}, {}) \cap g.ret # {}
=============================================================================
