----------------------------- MODULE SecretPass -----------------------------
(* The Secret pass as a whole (printInputsVectorResult of lib/Secret.cpp):   *)
(* the loops are listed, recursiveSerialization decides on the branches      *)
(* (module Serialization), phis are replaced by selects and erased, the      *)
(* terminators are built anew, the values that depend on arguments are       *)
(* searched (module Taint), and the loops are padded one after the other.    *)
(* What one step frees or replaces, a later one still points to.             *)
(*                                                                           *)
(* The guards and constants one padded loop gets are in module LoopPadding;  *)
(* here a loop counts with an index from its first value to a bound.         *)
EXTENDS Serialization, Taint, FiniteSetsExt

CONSTANT
  Programs \* records:
           \*   f       the function, one of Functions
           \*   phi     the blocks that have a phi, which merges what comes from
           \*           all their predecessors
           \*   cond    per conditional block, where its condition is computed:
           \*           0 for an icmp, -1 for another instruction (and, or,
           \*           fcmp), b for the phi of block b
           \*   secret  the conditional blocks whose condition compares with a
           \*           value computed from the argument
           \*   first   the latches of loops whose index starts from a value
           \*           computed from the argument
           \*   starts  pairs of latches: the index of the second's loop starts
           \*           from the index of the first's, neither one of first
           \*   access  the loads and stores, in program order:
           \*             block   where it is
           \*             loop    the latch of the loop whose index its address
           \*                     is computed from
           \*             local   its address is an element of a local array
           \*                     that is indexed with the loop's phi or its
           \*                     next value (not a cast of them)
           \*             direct  with the phi
           \*             store   it is a store
           \*             data    it stores a value computed from the argument
           \*                     and the bounds
           \*             phis    the blocks with a phi that is computed from
           \*                     what it loads. Nothing loaded becomes part of
           \*                     an address, a condition or a stored value.

\* What a program's data are.
WellFormedProgram(p) ==
  LET conditional == {b \in p.f.block : IsConditional(p.f, b)}
      latch       == DOMAIN p.f.header
  IN  /\ p.f \in Functions
      /\ p.phi \subseteq p.f.block
      /\ DOMAIN p.cond = conditional /\ p.secret \subseteq conditional
      /\ p.first \subseteq latch
      /\ p.starts \subseteq (latch \ p.first) \X (latch \ p.first)
      /\ p.access \in Seq([block : p.f.block, loop : latch,
                           local : BOOLEAN, direct : BOOLEAN,
                           store : BOOLEAN, data : BOOLEAN, phis : SUBSET p.phi])

ASSUME ProgramsAssumption == \A p \in Programs : WellFormedProgram(p)

VARIABLES
  prog,      \* the program being compiled
  phase,     \* what printInputsVectorResult is doing
  replaced,  \* the blocks whose phi is replaced by selects and erased
  allLoopsVector, \* the loops, as latches
  at,        \* the position of the range-for over it
  bounds,    \* the conditional blocks that still compare with their own bound
  inits,     \* the loops that still start from a value computed from the argument
  version,   \* per access, how often its store was replaced by a new one
  InputBrs,  \* the branches found for the loop being padded, as blocks
  indexes,   \* the accesses of its arrays that are not looked at yet
  applyBranchLS, \* per branch block, the accesses to guard: pairs of an access
                 \* and its version when it was recorded
  applyBranchEnd,  \* the branch blocks whose bound was remembered,
  applyBranchInit, \* and those whose first index was
  guards     \* per access, the branches whose condition guards it now

loopVars == <<allLoopsVector, at, bounds, inits, version, InputBrs, indexes,
              applyBranchLS, applyBranchEnd, applyBranchInit, guards>>

passVars == <<vars, taintVars, prog, phase, replaced, loopVars>>

latches == DOMAIN g.header

accesses == DOMAIN prog.access

conditionals == {b \in g.block : IsConditional(g, b)}

Body(l) == LoopBlocks(g, l)

\* getAllInnerLoops, for every outermost loop: a loop comes before the loops
\* in it, and these before the next loop beside it.
AllLoops(f) ==
  {s \in [1..Cardinality(DOMAIN f.header) -> DOMAIN f.header] :
     \A i, j \in DOMAIN s : i < j =>
       /\ s[i] # s[j] /\ s[i] \notin LoopBlocks(f, s[j])
       /\ \A k \in DOMAIN s : j < k /\ s[k] \in LoopBlocks(f, s[i]) => s[j] \in LoopBlocks(f, s[i])}

PassInit ==
  /\ prog \in Programs
  /\ g = prog.f
  /\ Init
  /\ phase = "serialize"
  /\ replaced = {}
  /\ allLoopsVector \in AllLoops(g)
  /\ at = 1
  /\ bounds = conditionals
  /\ inits = prog.first
  /\ version = [k \in accesses |-> 0]
  /\ flow = [roots |-> <<>>, users |-> <<>>]
  /\ TaintInit
  /\ InputBrs = {} /\ indexes = {}
  /\ applyBranchLS = <<>> /\ applyBranchEnd = {} /\ applyBranchInit = {}
  /\ guards = [k \in accesses |-> {}]

Serialize ==
  /\ phase = "serialize"
  /\ Visit \/ Unwind \/ Search
  /\ phase' = CASE pc' = "done" -> "phis" [] pc' = "crashed" -> "crashed" [] OTHER -> phase
  /\ UNCHANGED <<taintVars, prog, replaced, loopVars>>

\* Mutant: the phis inside loops are left alone.
LoopPhisInside == {b \in prog.phi : \E l \in latches : b \in Body(l)}

\* Lines 727-749: phis with a latch among their blocks are left alone.
LoopPhis == {b \in prog.phi : Preds(g, b) \cap latches # {}}

\* A phi of a single block gets no select (back() of an empty vector).
ModifyPhis ==
  /\ phase = "phis"
  /\ replaced' = prog.phi \ LoopPhis
  /\ phase' = IF \E b \in replaced' : Cardinality(Preds(g, b)) = 1
              THEN "crashed" ELSE "terminators"
  /\ UNCHANGED <<vars, taintVars, prog, loopVars>>

-----------------------------------------------------------------------------
(* The values getAllUsers walks over, and who uses them.                    *)

Index(l) == <<"index", l>>
Bound(b) == <<"bound", b>>
Cmp(b) == <<"cmp", b>>
Br(b) == <<"br", b>>
Gep(k) == <<"gep", k>>
Access(k) == <<"access", k>>
Argument == <<"arg", 0>>

AllValues ==
  {Argument} \cup {Index(l) : l \in latches}
  \cup (UNION {{Bound(b), Cmp(b)} : b \in conditionals}) \cup {Br(b) : b \in g.block}
  \cup UNION {{Gep(k), Access(k)} : k \in accesses}

\* The instructions that use v when the branches are as br says, the blocks of
\* own compare with their own bounds, and the accesses are guarded as by says:
\* what a guarded store stores is selected by a comparison with the index (and
\* with the bound, which only the argument leads to: its users are searched
\* before there are guards). The phis that use what is loaded are no values of
\* this list: nothing of it uses them.
UsersOf(v, br, own, by) ==
  CASE v = Argument ->
         {Bound(b) : b \in prog.secret} \cup {Index(l) : l \in prog.first}
         \cup {Access(k) : k \in {k \in accesses : prog.access[k].data}}
    [] v[1] = "index" ->
         {Cmp(l) : l \in {v[2]} \cap DOMAIN prog.cond}
         \cup {Gep(k) : k \in {k \in accesses : prog.access[k].loop = v[2]}}
         \cup {Index(e[2]) : e \in {e \in prog.starts : e[1] = v[2]}}
         \cup {Access(k) : k \in {k \in accesses : prog.access[k].store /\ v[2] \in by[k]}}
    [] v[1] = "bound" ->
         {Cmp(b) : b \in {v[2]} \cap own}
         \cup {Access(k) : k \in {k \in accesses : prog.access[k].data}}
    [] v[1] = "cmp" -> {Br(b) : b \in {b \in g.block : br[b].cond = v[2]}}
    [] v[1] = "gep" -> {Access(v[2])}
    [] OTHER -> {}

\* The uses' order does not matter for what is found: one of them.
InSomeOrder(S) == SetToSeq(S)

FlowFrom(roots, br, own, by) ==
  [roots |-> roots, users |-> [v \in AllValues |-> InSomeOrder(UsersOf(v, br, own, by))]]

\* The condition of the recorded branch of b is a phi that was erased.
FreedCondition(b) ==
  /\ serializedCode[b].cond # Null
  /\ prog.cond[serializedCode[b].cond] \in replaced

RebuildTerminators ==
  /\ phase = "terminators"
  /\ ReplaceTerminators
  /\ IF \E b \in DOMAIN serializedCode : FreedCondition(b)
     THEN phase' = "undefined" /\ UNCHANGED flow
     ELSE phase' = "taint" /\ flow' = FlowFrom(<<Argument>>, code', bounds, guards)
  /\ UNCHANGED <<arg, UsersVector, stack, prog, replaced, loopVars>>

\* Lines 188-191 of modifyNumCyclesLoops.
CollectInputs ==
  /\ phase = "taint"
  /\ IF Searched THEN phase' = "loop" /\ UNCHANGED taintVars
                 ELSE Searching /\ UNCHANGED phase
  /\ UNCHANGED <<vars, prog, replaced, loopVars>>

-----------------------------------------------------------------------------
(* modifyNumCyclesLoops, one loop after the other.                          *)

loop == allLoopsVector[at]

NextLoop == phase' = "loop" /\ at' = at + 1

\* Line 200 looks at every value of inputsVector, which is as it was before
\* the first loop: a store that was replaced since is freed memory.
ReadsFreedInput == \E k \in accesses : InVector(Access(k)) /\ version[k] > 0

exitBlocks == (UNION {Targets(code[b]) : b \in Body(loop)}) \ Body(loop)

\* Lines 197-210: the loop's conditional branches that depend on an argument
\* and do not leave it on both sides.
InputBranches ==
  {b \in Body(loop) : InVector(Br(b)) /\ ~(Targets(code[b]) \subseteq exitBlocks)}

\* findArrays: getelementptrs of local arrays, in the inner loops too.
ArraysLoop ==
  {k \in accesses : prog.access[k].local /\ prog.access[k].block \in Body(loop)}

StartLoop ==
  /\ phase = "loop" /\ at <= Len(allLoopsVector)
  /\ IF ReadsFreedInput
     THEN phase' = "undefined" /\ UNCHANGED <<at, InputBrs, indexes>>
     ELSE /\ InputBrs' = InputBranches
          /\ indexes' = ArraysLoop
          /\ IF InputBrs' = {} \/ indexes' = {}
             THEN NextLoop ELSE phase' = "collect" /\ UNCHANGED at
  /\ applyBranchLS' = <<>> /\ applyBranchEnd' = {} /\ applyBranchInit' = {}
  /\ UNCHANGED <<vars, taintVars, prog, replaced, allLoopsVector, bounds, inits, version, guards>>

\* What getAllUsers(v) has pushed when it returns: v, its users, and theirs.
AllUsers(v, br, own, by) ==
  LET reach[S \in SUBSET AllValues] ==
        LET T == S \cup UNION {UsersOf(x, br, own, by) : x \in S}
        IN  IF T = S THEN S ELSE reach[T]
  IN  reach[{v}]

\* getAllUsers of an index, for the function as it is now.
UsersVectorOf(v) == AllUsers(v, code, bounds, guards)

\* getLoopPreheader: the only block that leads into the loop, and to it only.
HasPreheader(l) ==
  \E p \in g.block \ Body(l) :
    /\ Targets(code[p]) = {g.header[l]}
    /\ \A q \in g.block \ Body(l) : g.header[l] \in Targets(code[q]) => q = p

\* Mutant: the phi is found behind the index's next value too.
PhiIndexFoundNext(array) ==
  array.loop = loop /\ loop \in inits /\ HasPreheader(loop)

\* getPhiIndex, 109-134: it finds the phi of the loop being padded if that is
\* the index itself, and starts from a value of inputsVector.
PhiIndexFound(array) ==
  array.direct /\ array.loop = loop /\ loop \in inits /\ HasPreheader(loop)

\* Lines 228-336 for the index of one array access: every input branch that
\* depends on it. std::map::insert keeps what an earlier index has put there.
\* (Of brs, the first would remember the first index: an index that starts
\* from a secret leads to no other loop's condition, so there is one at most.)
CollectIndex ==
  /\ phase = "collect" /\ indexes # {}
  /\ LET array   == prog.access[Min(indexes)]
         usersOf == UsersVectorOf(Index(array.loop))
         brs     == {b \in InputBrs : Cmp(code[b].cond) \in usersOf}
         ends    == {b \in brs : code[b].cond \in bounds /\ InVector(Bound(code[b].cond))}
         firsts  == IF PhiIndexFound(array) THEN brs ELSE {}
         used    == {<<k, version[k]>> : k \in {k \in accesses : Access(k) \in usersOf}}
     IN  /\ applyBranchLS' = [b \in DOMAIN applyBranchLS \cup brs |->
                               IF b \in DOMAIN applyBranchLS THEN applyBranchLS[b] ELSE used]
         /\ applyBranchEnd' = applyBranchEnd \cup ends
         /\ bounds' = bounds \ {code[b].cond : b \in ends}
         /\ applyBranchInit' = applyBranchInit \cup firsts
         /\ inits' = IF firsts = {} THEN inits ELSE inits \ {loop}
         /\ phase' = IF \E b \in brs : prog.cond[code[b].cond] # 0 THEN "crashed" ELSE phase
  /\ indexes' = indexes \ {Min(indexes)}
  /\ UNCHANGED <<vars, taintVars, prog, replaced, allLoopsVector, at, version, InputBrs, guards>>

Collected ==
  /\ phase = "collect" /\ indexes = {}
  /\ IF DOMAIN applyBranchLS = {} THEN NextLoop ELSE phase' = "apply" /\ UNCHANGED at
  /\ UNCHANGED <<vars, taintVars, prog, replaced, allLoopsVector, bounds, inits, version,
                 InputBrs, indexes, applyBranchLS, applyBranchEnd, applyBranchInit, guards>>

\* Mutant: a load is guarded whatever uses it.
SelectsAny(k) == TRUE

\* Lines 391-418: a store is replaced by one of a select, a load gets a select
\* for every phi of the loop among its users (one of whose operands is among
\* them too). A load with no such phi stays as it is.
Selects(k) ==
  prog.access[k].store \/ (prog.access[k].phis \ replaced) \cap Body(loop) # {}

Freed(b) == \E e \in applyBranchLS[b] : version[e[1]] # e[2]

\* finalCmp is built from what was remembered; otherwise it stays null.
HasFinalCmp(b) == b \in applyBranchEnd \cup applyBranchInit

\* Lines 340-440 for one branch, in the order of the blocks' addresses, which
\* nothing fixes. A store of the list that was replaced since is freed
\* memory; a select on a null finalCmp is not made without a crash.
ApplyBranch(b) ==
  /\ phase = "apply" /\ b \in DOMAIN applyBranchLS
  /\ LET selected == {k \in {e[1] : e \in applyBranchLS[b]} : Selects(k)}
     IN  \/ Freed(b) /\ phase' = "undefined" /\ UNCHANGED <<at, version, guards>>
         \/ /\ selected # {} /\ ~HasFinalCmp(b)
            /\ phase' = "crashed" /\ UNCHANGED <<at, version, guards>>
         \/ /\ ~Freed(b) /\ (selected = {} \/ HasFinalCmp(b))
            /\ version' = [k \in accesses |-> IF k \in selected /\ prog.access[k].store
                                             THEN version[k] + 1 ELSE version[k]]
            /\ guards' = [k \in accesses |-> IF k \in selected THEN guards[k] \cup {b} ELSE guards[k]]
            /\ IF DOMAIN applyBranchLS = {b} THEN NextLoop ELSE UNCHANGED <<phase, at>>
  /\ applyBranchLS' = [x \in DOMAIN applyBranchLS \ {b} |-> applyBranchLS[x]]
  /\ UNCHANGED <<vars, taintVars, prog, replaced, allLoopsVector, bounds, inits, InputBrs,
                 indexes, applyBranchEnd, applyBranchInit>>

Return ==
  /\ phase = "loop" /\ at > Len(allLoopsVector)
  /\ phase' = "end"
  /\ UNCHANGED <<vars, taintVars, prog, replaced, loopVars>>

PassStopped == phase \in {"end", "crashed", "undefined"}

PassHalt == PassStopped /\ UNCHANGED passVars

PassNext ==
  \/ Serialize \/ ModifyPhis \/ RebuildTerminators \/ CollectInputs
  \/ StartLoop \/ CollectIndex \/ Collected
  \/ \E b \in g.block : ApplyBranch(b)
  \/ Return \/ PassHalt

PassSpec == PassInit /\ [][PassNext]_passVars /\ WF_passVars(PassNext)
-----------------------------------------------------------------------------
(* Properties.                                                              *)

Rebuilt == pc = "replaced"

\* A phi that the pass leaves alone still has an entry for every block that
\* branches to it, and no other: no redirection and no removed branch changes
\* the predecessors of a block with such a phi. (The phis are chosen by the
\* latches among their blocks, the branches by recursiveSerialization.)
PhisMatch ==
  Rebuilt /\ Supported(g) => \A b \in prog.phi \ replaced : Preds(output, b) = Preds(g, b)

\* What depends on v in the program as it is written, with these guards.
Depends(v, by) ==
  AllUsers(v, [b \in g.block |-> OriginalBranch(g, b)], conditionals, by)

Unguarded == [k \in accesses |-> {}]

\* The latches whose bound or first index is secret and whose condition
\* depends on the index of the access k to a local array: those that k pads,
\* in the turn of loop m.
PadsBy(m, k) ==
  {l \in (prog.secret \cup prog.first) \cap latches \cap Body(m) :
     /\ prog.access[k].local /\ prog.access[k].block \in Body(m)
     /\ Cmp(l) \in Depends(Index(prog.access[k].loop), Unguarded)}

Pads(m) == UNION {PadsBy(m, k) : k \in accesses}

\* A guard can be put on it in m's turn: it is a store, or a load for a phi
\* of m that stays.
Guardable(m, k) ==
  prog.access[k].store \/ prog.access[k].phis \cap LoopPhis \cap Body(m) # {}

\* Those whose address or guard depends on the index of the first access that
\* pads l in m's turn. (What the index of a later one leads to besides is not
\* guarded.)
GuardedFor(m, l, by) ==
  LET first == Min({k \in accesses : l \in PadsBy(m, k)})
  IN  {k \in accesses : /\ Guardable(m, k)
                        /\ Access(k) \in Depends(Index(prog.access[first].loop), by)}

\* The guards before the turn of the i-th loop, when all turns are made.
GuardsBefore[i \in 1..(Len(allLoopsVector) + 1)] ==
  IF i = 1 THEN Unguarded
  ELSE LET by == GuardsBefore[i - 1]
           m  == allLoopsVector[i - 1]
       IN  [k \in accesses |-> by[k] \cup {l \in Pads(m) : k \in GuardedFor(m, l, by)}]

\* What is guarded for the latch l in the i-th turn; the stores, which are
\* replaced.
GuardedAt(i, l) == GuardedFor(allLoopsVector[i], l, GuardsBefore[i])
StoresAt(i, l) == {k \in GuardedAt(i, l) : prog.access[k].store}

Turns == DOMAIN allLoopsVector

\* The first index of loop l is replaced, in its own turn: it is secret, and
\* the phi indexes a local array.
StartFound(l) ==
  l \in prog.first /\ \E k \in accesses :
    LET a == prog.access[k] IN a.local /\ a.direct /\ a.loop = l /\ a.block \in Body(l)

\* What the guard of l is built from in the i-th turn: the bound that no
\* earlier turn has replaced, or the first index.
GuardFound(i, l) ==
  \/ l \in prog.secret /\ \A j \in 1..(i - 1) : l \notin Pads(allLoopsVector[j])
  \/ l = allLoopsVector[i] /\ StartFound(l)

\* A latch is padded, with something to guard, and neither is there: its bound
\* is gone, or only its first index is secret, in the turn of a loop around it.
NullGuard ==
  \E i \in Turns : \E l \in Pads(allLoopsVector[i]) : ~GuardFound(i, l) /\ GuardedAt(i, l) # {}

\* Two latches are padded in one turn, and a store is replaced for both.
StoreShared ==
  \E i \in Turns : \E k, l \in Pads(allLoopsVector[i]) :
    k # l /\ StoresAt(i, k) \cap StoresAt(i, l) # {}

\* A store of a secret value, or with an index that starts from one, is
\* replaced, and another loop's turn follows.
StoreStale ==
  \E i \in Turns : i < Len(allLoopsVector) /\
    \E l \in Pads(allLoopsVector[i]) : \E k \in StoresAt(i, l) :
      prog.access[k].data \/ prog.access[k].loop \in prog.first

\* A latch to be padded has a condition that is no single comparison.
NotCompared == \E m \in latches : \E l \in Pads(m) : prog.cond[l] # 0

\* A latch's condition is a phi of a join: do ... while (a && b).
PhiErased ==
  \E l \in latches : prog.cond[l] \in prog.phi /\ Preds(g, prog.cond[l]) \cap latches = {}

\* A phi that is to be replaced by selects has a single operand.
PhiAlone == \E b \in prog.phi \ LoopPhis : Cardinality(Preds(g, b)) = 1

\* What stops the pass, or makes it read what it has freed.
Hazard == NullGuard \/ StoreShared \/ StoreStale \/ NotCompared \/ PhiErased \/ PhiAlone

\* The pass comes to its end, without reading freed memory, a null guard or a
\* comparison that is none, in every function of the supported form but
\* these, and in none of these. (So every function with one loop, over a
\* comparison; and no loop whose inner loop is padded with a local array it
\* stores to.)
CompilesExactly == PassStopped /\ Supported(g) => (phase = "end" <=> ~Hazard)

\* When it does, no latch whose condition depends on an argument and on the
\* index of a local array keeps its secret bound, and no loop its secret first
\* index if its phi indexes one; no other is changed. A store, or a load for a
\* phi of the loop, is guarded by the padded latches of the indexes that its
\* address or an earlier guard depends on, of those that were the first to pad
\* the latch; no other load is.
PaddingExact ==
  phase = "end" /\ Supported(g) =>
    /\ latches \ bounds = prog.secret \cap UNION {Pads(m) : m \in latches}
    /\ prog.first \ inits = {l \in latches : StartFound(l)}
    /\ \A k \in accesses :
         guards[k] = {l \in latches : \E i \in Turns :
                        l \in Pads(allLoopsVector[i]) /\ k \in GuardedAt(i, l)}
=============================================================================
