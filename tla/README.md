# Verification of the COT passes

This directory holds TLA+ models of the LLVM passes in this repository and of the
program that it compiles with them, the TLC configurations that check the models,
and proofs that TLAPS checks. The repository's own work is the *Secret* pass
(`lib/Secret.cpp`), which rewrites a function so that what it executes does not
depend on secret conditions; the other passes come from llvm-tutor.

* [The system](#the-system): inventory of the components
* [The models](#the-models): which module models what
* [The runs](#the-runs): what TLC checks, what it shows, with which bounds
* [The proofs](#the-proofs)
* [Not modelled](#not-modelled)
* [Plan](#plan)

## The system

The passes run inside `opt` (or the `static` tool), one function or module at a
time, in one thread. Nothing is persisted and nothing is concurrent inside a
pass. What is hard is elsewhere: long sequences of rewriting steps over a graph
that is being changed; containers ordered by the addresses of blocks, which
nothing determines; pointers and analyses kept across changes; constants at the
limits of arrays and words. Only the code that DynamicCallCounter injects may run
concurrently, in the program it instruments.

| Component | Source | State it keeps | Operations | What makes it correct |
|---|---|---|---|---|
| Secret: serialisation | `lib/Secret.cpp` 448-572, 691-717, 754-766 | `serializedCode` (block → new branch), `condBranch` (stack), the function | `recursiveSerialization`: record a block, push or pop a branch, redirect an entry to insert a then side, move a loop's exit; then replace the terminators | every block is kept, each branch's two sides are executed one after the other, loops stay loops, the walk ends, the addresses do not matter |
| Secret: phis | 574-689, 727-752 | `commonDomMap`, `selectBasicBlock`, `selects` | `modifyPhis`, `generateSelect` | the select that takes a phi's place has its value; the phis that stay fit the branches that stay |
| Secret: loops | 109-446 | `inputsVector`, the `applyBranch…` maps | `modifyNumCyclesLoops`: replace secret bounds and first indices by constants, guard loads and stores | the elements accessed do not depend on a secret and are in the array; effects are as before; nothing freed is read |
| Secret: values that depend on arguments | 93-107 | `inputsVector`, `UsersVector` | `getAllUsers`, `generateInputVector` | every dependent value is found, once; the recursion over cyclic uses ends |
| Secret: entry | 32-53, 718-769 | the function, the analyses | `InputsVectorPrinter::run`, `printInputsVectorResult` | the rewritings fit each other; analyses are invalidated |
| MergeBB | `lib/MergeBB.cpp` | the function, `DeleteList` | `mergeDuplicatedBlock` on every block, then `DeleteDeadBlock` on the merged ones | behaviour is kept, no deleted block is led to |
| RIV | `lib/RIV.cpp` | the map of reachable values, a worklist | `buildRIV` over the dominator tree | exactly the integer values of the dominating blocks |
| DuplicateBB | `lib/DuplicateBB.cpp` | `Targets`, `ReMapper`, three `ValueMap`s | choose blocks with a reachable integer value, `cloneBB` | behaviour is kept, values are there when they are used |
| StaticCallCounter, `static` | `lib/StaticCallCounter.cpp`, `tools/StaticMain.cpp` | a map function → calls, a cached result | count direct calls | each call site once, of the module as it is |
| DynamicCallCounter | `lib/DynamicCallCounter.cpp` | injected globals, a printing destructor | inject counters, print at exit | every call is counted once, the counts are printed once |
| InjectFuncCall | `lib/InjectFuncCall.cpp` | | insert a call of `printf` | a line for every call |
| MBAAdd, MBASub | `lib/MBA*.cpp` | the block being iterated | substitute expressions | equal in modular arithmetic; the iteration sees every instruction |
| Ratio | `lib/Ratio.cpp` | a command line option | parse a number in [0, 1] | no pass reads it |
| FindFCmpEq, ConvertFCmpEq | `lib/*FCmpEq.cpp` | cached analysis result | convert the comparisons found | the cached list is still valid; results change for near values only |
| OpcodeCounter | `lib/OpcodeCounter.cpp` | counts, cached | count opcodes | the cached counts are those of the function |
| AES | `inputs/aes.c` | a context: round keys, `Iv` | encrypt and decrypt in three modes | the text arrives, whatever calls it is cut into |
| compile.sh | | intermediate `.ll` files | clang -O1, loop-simplify, lowerswitch, the pass, llc, gcc | the pass is run on functions it is right for |

Interaction: `InputsVectorPrinter::run` asks the analysis manager for the Secret
analysis and calls `printInputsVectorResult`, which does the rewritings in this
order: `recursiveSerialization` computes `serializedCode` from the function as
it was; `modifyPhis` replaces the phis; the terminators are replaced from
`serializedCode`; `modifyNumCyclesLoops` searches the values that depend on
arguments and pads the loops that are left. They share the function and the
analyses (dominators, post-dominators, loops) computed at the start. DuplicateBB
uses RIV's result for the function as it was before the first block was
duplicated; ConvertFCmpEq uses FindFCmpEq's, which may be a cached one; MergeBB is
meant to undo DuplicateBB; the passes on modules see each other's insertions.

The hazards of this code, with the line where each bites and the properties that
would catch it, are listed in `PROJECT.json`.

## The models

How they use each other:

    CFG <- SmallFunctions                      Dependence (abstract)
     ^                                             ^  implemented by
     |-- Serialization <--- SecretPass --------> Taint
     |     (Proofs)            \ phis, loops in detail: PhiToSelect, LoopPadding
     |-- PhiToSelect (Proofs)
     |-- RIV <--- DuplicateBB (Proofs, of both)
    Pipeline <- CallCounter, FunctionPasses (TutorProofs, of both)
    LoopPadding (Proofs)    MergeBB (Proofs)    AES

    Facts <- all the Proofs

Each `MC…` module has the inputs of a run, each `…Proofs` module the theorems
about the module it is named for. `Facts` has lemmas about numbers and about control-flow
graphs.

### CFG, SmallFunctions

Control-flow graphs, and what LLVM's analyses answer about them, computed from
their definitions: dominators, immediate post-dominators, back edges and loop
latches, loop-simplify form. A function is a record of blocks, entry, successors
in operand order and the blocks that end in `ret`. `Analyse` adds `dom`, `ipd`
and `header`. Also in this module are the shapes the properties speak of:
*structured* (the two sides of a branch are disjoint and entered through the
branch only), *rotated* (loops are left from their latch), *header-controlled*
(while loops, left from their header), *single return*. `SmallFunctions` has the
families of functions that several runs share.

### Serialization

`recursiveSerialization` and the replacement of the terminators. The recursive
calls are all in tail position, so the state is the argument `bb`, the stack
`condBranch` and the map `serializedCode`, with `pc` for the place in the code:

| Action | Code |
|---|---|
| `VisitUnconditional`, `VisitLatch`, `VisitConditional`, `VisitOther` | the else part of line 521: a block that is not recorded, by its terminator |
| `VisitJoined` | line 451: a recorded block or a `ret` |
| `UnwindNoPostDominator`, `UnwindEmptyThen`, `UnwindRedirect`, `UnwindSearch` | one iteration of the do-while loop of lines 455-518, by the post-dominator of the branch on top of the stack |
| `SearchFollow`, `SearchSplit` | the inner loop of lines 489-500 and what follows it |
| `ReplaceTerminators` | lines 756-766 |

`UnwindRedirect` takes *any* entry that leads to the join: the code takes the
first in the order of the map's keys, which are addresses. A dereferenced null
or `end()` ends in `crashed`.

### PhiToSelect

`modifyPhis` and `generateSelect` on one phi. `commonDomMap` maps pairs of operands to
the nearest common dominator of their blocks; the map is walked in the order of its
keys, pairs of pointers, so `addr` gives the blocks addresses in any order and `Key`
says where a pair is. `begin` and `Move` are the pass over the map that looks for a
lowest dominator, `temp` the pair it ends with; `GenerateSelect` is one iteration of the
while loop (`SelectFor`), `ReplacePhi` the
replacement of the phi by the last select. What a phi and a tree of selects
compute is defined by `PhiValue` and `SelectValue` for an environment that says
how each branch goes.

### LoopPadding

`modifyNumCyclesLoops` with its helpers on one loop, and then the execution of
the loop it leaves, in words half of whose patterns have the highest bit set
(`SignBit` of them). `RewriteIndex` is the body of the
loops of lines 228-336 for one getelementptr (in the order: remember, then
replace), `EmitGuard` the second part, `Iterate` an iteration of the loop that
results. The code makes a select on the guard for a store and for a phi of the loop
that a load is computed into; another load (of a call's argument, say) stays as it
is. `access` says which of the three the loop does, `Selects` whether there is a
select. `touched` are the elements the padded loop accesses, `stored` those whose
access has an effect: the guard `finalCmp` held, or there is no select. The original
loop is the definition `OriginalElements`. `LoopsAssumption` says which loops are meant: the original
program stays within its arrays, the branch around a `for` loop makes the
latch's comparison, and a limit that is not secret is one for the array. Loops with
unsigned comparisons are among them.

### Dependence, Taint

`getAllUsers` and the loop of `generateInputVector` over the arguments. The
recursion is a stack of frames, each an instruction and its next user:
`CallRoot` is the call for the next argument, `CallUser` the recursive call for
a user that is not in the vector, `SkipUser` the test that finds it there,
`ReturnUser` the return. `Dependence` is what is promised: values that depend on
an argument are found one at a time, any that is one use ahead of those found,
until none is left. `Taint` implements it (`FindsDependent`) with
`found <- ToSet(UsersVector)`.

### SecretPass

The pass as a whole: it EXTENDS `Serialization` and `Taint` and runs their actions
as its phases.

| Action | Code |
|---|---|
| `Serialize` | `recursiveSerialization`, step by step |
| `ModifyPhis` | which phis are replaced and erased (727-752); how is in `PhiToSelect` |
| `RebuildTerminators` | 754-766, with the recorded conditions, of which some are freed by now |
| `CollectInputs` | the search of 188-191, step by step |
| `StartLoop` | 197-226 for the next loop: the branches of the loop that depend on an argument, and its arrays |
| `CollectIndex`, `Collected` | 228-336 for the index of one array: which branches it pads, which loads and stores are to be guarded, which bounds and first indexes are replaced |
| `ApplyBranch` | 340-440 for one branch, in any order: stores and the loads that a phi of the loop uses (`Selects`) get a select, which needs a remembered bound or first index (`HasFinalCmp`) |
| `Return` | the end of the range-for |

Values are the index and the bound of a loop, comparisons, branches,
getelementptrs and accesses; `UsersOf` has their users in the function as it is at
that point. A loop's index may start from a value computed from the argument
(`first`), or from another loop's index (`starts`); an array may be indexed with the
loop's phi (`direct`, the only index that `getPhiIndex` finds the phi behind) or with
its next value; a load says which phis use it. What the constants and guards are is in `LoopPadding`; here a store that
is replaced gets a new `version`, so that a later use of the old one is seen. A use
of freed memory ends in `undefined`, a null guard or a failed cast in `crashed`.

### MergeBB

`mergeDuplicatedBlock` on every block in the function's order (`Merge`, `Skip`),
then the deletion of the merged blocks in any order (`Delete`). An instruction
is abstracted to what it does (operation and operands, `what`) and how it is
used. `DeleteList` maps each merged block to the one retained for it, which the
code does not remember. `Bisimilar` is the reference: the largest relation
between blocks of the original and of the present function that no execution can
tell apart.

### RIV, DuplicateBB

`RIV` is the loop of `buildRIV`: `ProcessParent` is one round of the worklist, its
children in any order. `DuplicateBB` runs on its result. `ChooseTarget` is one
block of `findBBsToDuplicate`, with any of the reachable values; `Split` is lines
158-189 of `cloneBB` (the test, the two branches, the tail), `CloneVoid` and
`CloneValue` one iteration of the loop over the tail (clone twice, and a phi in
the instruction's place if it has a value), `Purge` the removal of the
instructions without a value. `ReMapper` and the three value maps are the
code's; a `ValueMap`'s keys follow a replacement of their value, which the code
depends on and the model has. Values are kept apart by where they come from, so
that a use of a value that is gone can be seen.

### Pipeline, CallCounter

`Pipeline` has what the two models of pipelines of passes share. `CallCounter` has two
phases. `RunPass` runs one of the passes on modules over the module:
`StaticCallCounterPrinter`, `countStaticCalls` (the `static` tool on the module
as written out), `InjectFuncCall` and `DynamicCallCounter`, with the analysis
manager's cached result. Then `Execute` starts the program: threads that `Load`
and `Store` the injected counters in two steps, `Call`, `Write` and `Return`; other
threads start at any time (`StartThread`); when `main` has returned, `Exit` runs
the destructors that `llvm.global_dtors` lists and then ends the process wherever
the other threads are.

### FunctionPasses

A pipeline of function passes, in any order, over one function and one analysis
manager, whose cached results are `fcmps` and `opcodes` (`FunctionSpec`): `FindFCmpEqPrinter`,
`OpcodeCounterPrinter`, `ConvertFCmpEq`, `MBASub`, `MBAAdd` and of the Secret pass
(`InputsVectorPrinter`) what its report that it preserves every analysis does.
`Evaluate` executes the function, with integers modulo 2^width and with doubles as
integers in units of the smallest difference told apart, with infinities and
not-a-number; rounding is left out. `WellFormedFunction` says what functions the passes
start with.

### AES

AES-128 byte by byte (tables, key schedule, rounds, inverse rounds, the three
modes), and two contexts: `Send` and `Receive` are calls of any of the given
lengths on the next part of the text, `AES_ctx_set_iv` may come in between. It
is the program compile.sh pads, and what its calls leave in `Iv` is all the state
it has.

### Mutants

Next to some definitions stands a variant with a plausible bug (a swapped field,
a forgotten pop, a constant off by one), marked *Mutant*. None is used by a
specification; replacing the definition by the variant makes TLC find the
property it is paired with in `PROJECT.json` violated.

## The runs

| Run | Configuration | Checks | Expected |
|---|---|---|---|
| serialization | `MCSerialization.cfg` | the walk, its output, its end | pass |
| serialization_shortcircuit | `MCSerialization_shortcircuit.cfg` | `OutputReturns` | violation |
| phi_to_select | `MCPhiToSelect.cfg` | the selects against the phi | pass |
| loop_padding | `MCLoopPadding.cfg` | the padded loops against the originals | pass |
| secret_pass | `MCSecretPass.cfg` | what the rewritings leave for each other; `Taint` against `Dependence` | pass |
| merge_bb | `MCMergeBB.cfg` | the function against the original | pass |
| merge_bb_phis | `MCMergeBB_phis.cfg` | `BehaviourKept` | violation |
| duplicate_bb | `MCDuplicateBB.cfg` | RIV's result; the duplicated function against the original | pass |
| call_counter | `MCCallCounter.cfg` | reports, counters and what is printed | pass |
| function_passes | `MCFunctionPasses.cfg` | what the function computes; cached results | pass |
| mba_add | `MCFunctionPasses_mbaadd.cfg` | `AddsSubstituted` | violation |
| aes | `MCAES.cfg` | the text that arrives, the text that is sent | pass |

### What they show

Many properties say *exactly when* the code is right: the condition is part of the
property, and an input on either side of it is among the inputs of the run.

**The walk forgets nothing and ends, on any function** (`NothingForgotten`,
`TargetsCovered`, `StackSound`, `Terminates`), unless a conditional branch has no
post-dominator, where the code dereferences null.

**Its output is right exactly for certain shapes.** With rotated loops, structured
functions with one return become a straight line through all their blocks
(`Linearised`), their loops stay loops of the same blocks (`LoopsKept`), and the order
of addresses is irrelevant (`RedirectDetermined`); these three are proved too.
Without loops, no other function becomes one (`RightExactly`). While loops that were not
rotated are right if and only if they are left on the true side, to a block that does
not return (also `RightExactly`):
the search of lines 486-515 was written for those. Short-circuit conditions and
`goto`s into a side are not structured; the simplest, `if (a || b) x`, gives a block
that branches to itself (`OutputReturns`, violated).

**The selects have the phi's value if the phi's operands come in the order of
the branches' sides** (`SelectsAgree`), for every order of addresses, although
`selectBasicBlock` keeps stale selects (`NothingLost`) and the lowest dominator
is looked for in one pass (`BottomUp`). A phi of two operands in the other order
gets the wrong value (also `SelectsAgree`). No operand and no select is lost if the
sides come in turn; the order of the sides does not matter for that. All of this is
proved, for every phi. A phi of one operand reads `back()` of an
empty vector.

**Padding is right for loops that count down with a signed comparison**
(`Oblivious`, `EffectsKept`), first index and bound secret or not, that stores or whose phis use what it loads; a load
that only a call uses has its effect in every padded iteration. Loops that
count up with `<` never access the last element, those with `<=` access the one
after it, and a loop whose latch compares for equality and leaves when true, as
indvars writes them, loses its effects (`UpwardLimits`). When the array is indexed
with the next value and only the first index is secret, the guard is null
(`CrashesOnNextIndex`), which stops the pass unless no select needs it. A padded loop
ends for every secret, except under an unsigned `>=`: its secret bound becomes 0, and
it never ends (`Ends`).

**The search finds exactly the values that depend on an argument**
(`VectorExact`), and every step of the recursion finds one more or none, until
there is no more (`FindsDependent`).

**The whole pass comes to its end without using what it freed, except in six
cases, and in these it never does** (`CompilesExactly`): a latch is padded in a turn
with a store to guard, or a load that a phi of that turn's loop uses, and nothing is
left to build the guard from (`NullGuard`): its bound went in the turn of a loop around
it, or only its first index is secret and it is not its own loop's turn, or no array is
indexed with its phi; a store that two branches of one loop guard (`StoreShared`); a
store of a secret value, or with an index that starts from one, that is replaced in a
loop that is followed by another (`StoreStale`); a latch to be padded whose condition is no
single comparison (`NotCompared`); a latch whose condition is a phi that is replaced,
as in `do ... while (a && b)` (`PhiErased`); a phi with a single operand at which no
loop begins or ends (`PhiAlone`). A loop in a loop that only loads, and whose loads no phi
uses, is padded twice without harm. When the pass ends, exactly the secret bounds and
first indexes that should be are replaced, and each store, and each load that a phi of
the loop uses, is guarded by the latches whose padding its index leads to first; other
loads by none (`PaddingExact`). The phis that stay have an entry for exactly the blocks that
still lead to them (`PhisMatch`).

**MergeBB keeps the behaviour** (`BehaviourKept`) of functions whose merged
blocks have no phis, through chains and loops of duplicates, and its deletions
succeed in every order (`NothingLeadsToDeleted`). With phis in the duplicates it
does not. The assertion of line 240 fails only if the function came with a block
that nothing leads to (`BranchTargetUpdated`).

**RIV is exact** (`RIVExact`) in the sense of the dominator tree: strict dominators'
integers, parameters and globals. The result of an invoke is then listed for the
blocks it unwinds to as well, where it does not exist.

**DuplicateBB keeps the behaviour** for every choice of blocks and values
(`BehaviourKept`), and every value is there where it is used, also when the block
of a context value was duplicated before or is duplicated after, unless an
invoke's result was chosen for a block it unwinds to (`ContextsThere`).

**Counters never exceed what was executed** and are exact while one thread alone
increments them (`NeverOver`), in the counter's width. **The results are printed
once per instrumentation**, and are the number of calls, without those whose increment no
thread has come to yet, when only the main thread counted, and no more than the calls
otherwise (`ResultsPrinted`): a second run of dynamic-cc sets the counters to zero and adds its
increments and its printing, so that each call counts twice and is printed twice.
**static-cc's reports are of the module as it is** (`ReportsFresh`).

**Function passes keep what the function computes** but for comparisons of doubles
less than epsilon apart and of equal infinities (`ValuesKept`). **Cached results are
fresh**, but for those computed before the Secret pass, which reports that it
preserves them (`AnalysesFresh`). mba-add changes nothing (`AddsSubstituted`, violated).

**Two contexts understand each other** exactly when every byte has the same place on
both sides (`Recovered`): in CBC calls may be cut anywhere between blocks, in CTR only
after a whole block, as what is left of a block is dropped at the end of a call.
**What is sent is what the tests expect** under the same condition (`AsInTests`),
which also says that the cipher is AES and the counter's carries are right.

### Noticed in the code

Besides the findings in `PROJECT.json`:

* `MergeBB.cpp:193` speaks of predecessors that are rejected; the `continue` of line
  198 belongs to the inner loop and rejects nothing.
* `DynamicCallCounter.cpp` prints "#N DIRECT CALLS" and counts indirect ones too,
  and its format `%-10lu` reads an `i32` (the model prints the counter's value).
* `convert-fcmp-eq` stops at a comparison of floats, which it casts to `i64`,
  though `ConvertFCmpEq.cpp:6-8` says *all* comparisons.
* When the operands of a phi do not come side by side, a value may be lost altogether
  (`Secret.cpp:592-644`): of the four operands of an if in a side of another, in
  an order like 1, 4, 2, 3 of the sides' blocks, the pair that is merged next may ask for a
  block whose `selectBasicBlock` entry is stale. This is why `NothingLost` supposes
  `InTurn`.
* `Ratio.cpp:28`: not-a-number passes both comparisons.
* `Secret.cpp:257`: `std::map::insert` keeps the first entry of a branch. If two
  indexes of one loop pad the same latch, the accesses that depend on the second
  index only are not guarded.
* `Secret.cpp:685`: a phi with one operand that is to become selects stops the whole pass
  at `back()` of an empty vector. (Those in the blocks after loops are left alone.)

The last two were found by the attempt to prove `PaddingExact` and `CompilesExactly`,
whose first versions they contradicted; the run's inputs did not have the cases then.

### Bounds

* *Serialization*: every function of five blocks without loops; functions of
  five blocks whose entry leads to a second block and whose other three blocks
  have any one or two successors among the four (every kind of loop, and blocks
  that end neither in a branch nor in a `ret`); functions with two returns or
  exits; a dozen larger loops (nested, in a side of a branch, in a row). Five
  blocks are what two branches, one inside the other or one after the other,
  with a shared join need. Functions with an endless loop are left out: LLVM
  gives them an artificial exit that CFG does not model (`NoneDead`). Functions not in
  loop-simplify form are left out: the pass asserts it (line 715).
* *PhiToSelect*: phis of two and three operands in every operand order and
  address order, in all structured functions of five blocks; four and five
  operands in a chain (two orders of its operands, of which one is not in turn), in two
  nested branches and in an unbalanced tree, in
  every address order. Five operands with two on one side and three on the other
  are the least for which a stale select is in the map when a pair is merged.
* *LoopPadding*: four bits (`SignBit = 8`), so that -1, the sizes and the words around them
  differ; arrays of 2 to 4 elements, two of different sizes in one loop; every
  secret first index and bound for which the original loop stays in its arrays, with
  signed and unsigned comparisons; the loops over one array with a store, a load for a phi
  and a load for something else.
* *SecretPass*: the loops of `SmallFunctions` with every condition a comparison or
  one of them a phi, with phis where blocks meet and after loops or in every block but
  the entry; and one loop with a branch in it, two loops in a row, a loop in
  a loop, each with every choice of secret conditions and at most two accesses (load,
  load that a phi of one of the loops uses, store, store of a secret, in a local array or
  elsewhere); the same three with every choice of secret first indexes, arrays indexed
  with the phi or its next value, all bounds secret or none; a loop in a loop whose
  index goes on from the inner one's, and three loops in a row whose indexes go on from
  each other. Two accesses are what an erased store and a later use of it need; two
  loops, what a second turn needs; three, a guard of the first turn that leads to the
  third's.
* *MergeBB*: six blocks, three of them candidates that lead to each other and
  to the other two in every way, so that a block retained by one merge is merged
  by the next and the entry itself may look like a duplicate; three
  candidates with a value used by the phi of their successor; an invoke; a block
  that nothing leads to.
* *DuplicateBB*: functions of three and four blocks (an if, a loop, invokes, an
  unreachable block, blocks listed before those that dominate them), each block with
  one of five kinds of work, for every choice of blocks and context values. Three
  blocks are enough for a context value whose block was duplicated before.
* *CallCounter*: `MaxPasses = 3` passes over four programs, then `main` and one more
  thread: three passes are two instrumentations with a report before, between or
  after. `Modulus = 4`, so that counters wrap.
* *FunctionPasses*: `MaxPasses = 4` of six passes in any order, so that an analysis
  is cached, a pass changes the function twice and the analysis is asked again;
  every argument in words modulo 4 and in doubles from -3 to 3 with infinities and
  not-a-number, epsilon 2.
* *AES*: the tests' key, vectors and three blocks of their text; calls of 16 bytes
  (ECB), 16 and 32 (CBC), 8, 16 and 24 (CTR); one `AES_ctx_set_iv` on either side
  (`MaxSetIv = 1`). 24 bytes are the least that leave a rest after a whole block.

CallCounter, FunctionPasses and AES do not check for deadlock: the program ends, the
pipeline has an end, the text is all sent.

### Fairness

A pass is a sequential program that nothing interrupts: its next step is taken
if it has one. `WF_vars(Next)` (of the model's own next-state relation) says just
this; it is all that `Terminates`, `Ends` and `FindsDependent` need. In CallCounter
the operating system runs the main thread, `WF_vars(Step(Main) \/ Exit)`; of the
other threads nothing is assumed, and nothing makes a user run a pass or start the
program.

## The proofs

TLAPS proves, for every value of the constants:

| Module | Theorem | States |
|---|---|---|
| `SerializationProofs` | `TypeCorrect` | `Spec => []TypeOK` |
| | `NoSideForgotten` | `Spec => []NothingForgotten` |
| | `NoOldBranchAhead` | `Spec => []TargetsCovered` |
| | `StackIsSound` | `Spec => []StackSound` |
| | `StraightLine` | `Spec => []Linearised` |
| | `LoopsStay` | `Spec => []LoopsKept` |
| | `OnePlace` | `Spec => []RedirectDetermined` |
| `MergeBBProofs` | `TypeCorrect` | `Spec => []TypeOK`: the entry stays, branches lead to blocks that are there |
| | `DeletedBlocksAreDead` | `Spec => []NothingLeadsToDeleted` |
| | `MergesMoveBranches` | `Spec => []BranchTargetUpdated` |
| | `BehaviourIsKept` | `Spec => [](NoLikePhis(original) => BehaviourKept)` |
| `LoopPaddingProofs` | `TypeCorrect` | `Spec => []TypeOK` |
| | `CrashesOnlyThere` | `Spec => []CrashesOnNextIndex` |
| | `DownwardIsOblivious` | `Spec => []Oblivious` |
| | `DownwardKeepsEffects` | `Spec => []EffectsKept` |
| | `UpwardLimitsAreOff` | `Spec => []UpwardLimits` |
| `SecretPassProofs` | `SearchExact` | `TaintSpec => []VectorExact` |
| | `SearchImplements` | every step of the search is a step of `Dependence` or none |
| | `WalkInPass` | `PassSpec => Spec`: the pass implements `Serialization` |
| | `PhisKept` | `PassSpec => []PhisMatch` |
| | `SearchInPass` | `PassSpec => []VectorExact` |
| | `PaddingIsExact` | `PassSpec => []PaddingExact` |
| | `CompilesIfAndOnlyIf` | `PassSpec => []CompilesExactly` |
| `DuplicateBBProofs` | `Exact` | `RIVSpec => []RIVExact` |
| | `ExactInDuplicate` | `DuplicateSpec => []RIVExact` |
| | `DuplicationKeepsBehaviour` | `DuplicateSpec => []BehaviourKept` |
| | `ContextsAreThere` | `DuplicateSpec => []ContextsThere` |
| `PhiToSelectProofs` | `TypeCorrect` | `Spec => []TypeOK` |
| | `LowestFirst` | `Spec => []BottomUp` |
| | `NothingIsLost` | `Spec => []NothingLost` |
| | `SelectsCompute` | `Spec => []SelectsAgree` |
| `TutorProofs` | `CountsBounded` | `Spec => []NeverOver` |
| | `ReportsAreFresh` | `Spec => ReportsFresh` |
| | `PassesKeepValues` | `FunctionSpec => []ValuesKept` |
| | `CachedResultsFresh` | `FunctionSpec => []AnalysesFresh` |
| | `SubstitutionExact` | (a + ~b) + 1 is a - b, in every width |
| | `ConversionExact` | a converted comparison differs exactly when it is blurred |

*Serialization, any function.* `FunctionsAssumption` and `NullAssumption`, which TLC
evaluates in the runs: functions are well formed; a dominator of a successor
of a block is the successor or dominates the block; a latch leads to its loop's
header, which dominates it; the null values are not blocks. The first four theorems use
nothing else, so they hold for any function, structured or not, whatever the
post-dominators are.
The properties are not inductive as they stand. When `VisitLatch` records a
latch, the walk goes on outside the loop, and the header, also a successor, has
to be covered already. The invariant `IInv` therefore adds `Dominated`: the
dominators of every recorded block, and of the block the walk is called on
(itself excepted), are recorded. A header dominates its latch, so it is recorded
when the latch is. `Positions` says where the walk is: what `pc`
implies of `bb`, `cur` and the stack. `IInv` also contains the properties,
which depend on each other: that a redirection writes a covered target follows
from the call that is made next, that the call's block is a branch's side from
`StackSound`, and that popping a branch loses no side from `SidesPending`. The
proof has one lemma per action.

*Serialization, supported functions.* What the output comes to needs more of the
input, `FormAssumption` (evaluated by TLC too): the analyses answer what they are
defined to (`Analysed`); every block is on a way from the entry to an exit
(`NoneDead`); loops are in the form the pass asserts (`LoopSimplifyForm`). That the
function is structured, rotated and has one return is the hypothesis of the
properties, `Supported`.
Reachability is a fixpoint over rounds; `ReachIs` and `ReachLeast` prove once that it
is the least set closed under successors, and nothing later looks at the rounds.
`Later(f, b)` is what can be reached from b without a back edge. The central fact about
graphs is `NoCycle`: going forward makes no circle. The block at which a circle is left
for good is no latch, as a loop is left at its latch only; it is a secret branch, which
dominates its side, so that the side comes back to it by a back edge only. So blocks are partially ordered
(`LaterOrder`), the sides of a branch are convex, disjoint and end at the join
(`SideEnds`, `SidesApart`), and a loop and a side are disjoint or one lies in the other
(`JoinInLoop`, `SideInLoop`).
The invariant of the walk, `LInv`, says that the blocks placed so far are on one line:
a position for each, counted from the entry, such that the recorded branches lead from
one position to the next (`OnLine`), together with which sides are placed (`ElseTaken`),
which are not (`ThenFree`), and that between a loop's header and its latch there are only
blocks of the loop (`Uncrossed`, `Inside`). `Doors` says that a block that leads to a
loop's header only still does, so that nothing changes at the blocks where a loop
begins or ends (`MeetingsKept`). A step is one of two
changes of a line: it goes on at its open end (`LineGrows`), or a side is inserted
between a block and its successor (`Turn`). As each position has one block, one entry leads to a
join: that is `OnePlace`. `Smooth` says that the search for an exit
(lines 486-515) is never entered. On the finished line, dominators are what comes
before (`LineDominates`), so it is `Straight`, and the loops are the stretches from
header to latch (`StretchIsLoop`).

*MergeBB.* The only assumption is that functions are well formed: the properties of
the graph do not depend on what the blocks do. They lean on each other. A deletion keeps
branches inside the function because nothing leads to the deleted block; nothing
leads to it because a merge moves every branch that does, and never to a merged
block (`DuplicatesAreKept`). `IInv` adds `EntryKept`, that the entry is not merged,
and `Shape`, that merging deletes no block.
`MergesMoveBranches` needs `StillLedTo`: in a function whose blocks all have
predecessors, the blocks that are not merged keep one, since what leads to a merged
block is made to lead to the retained one; with `MergedBefore` (the block that is
looked at is not merged yet) a merge has a branch to move.

That the function behaves as before is a second invariant, `SameSoFar`. While blocks
are merged, a branch leads to the block it led to or to one `Alike` (`Moved`). When
the last one is, the pairs of like blocks are a simulation of the original function,
and deleting a block leaves it one (`Simulated`). A simulation lies in every
`Indistinct[n]`, by induction over n, thus in `Bisimilar`. `NoLikePhis` is the
hypothesis that makes this true: no two blocks that only lead on have phis which
`canMergePhis` takes for each other. The finding of `merge_bb_phis` shows that it
cannot be dropped.

*LoopPadding.* `SignBitAssumption`: the width is positive. `LoopsAssumption`, which
TLC evaluates for the loops of the run: the original program stays in its arrays, the
branch around a `for` loop makes the latch's comparison, public limits are limits of
the arrays, a loop that counts up has arrays of two elements. The pass's part of the
invariant, `Rewritten`, gives every variable as a function of the loop and of the
number of getelementptrs looked at, so that a second array finds nothing left to
replace. `Downward` and `Upward` say that the padded loop has accessed an interval
whose one end is the padded first index and whose other end the comparison gives, and
that each access had its effect if the guard held for it or there is no select
(`HasEffect`). The original loop's
elements are an interval too (`OriginalDown`, `OriginalUp`), by induction over its
iterations; what remains is to compare limits. Words enter through two facts only:
addition wraps (`Wraps`), and the sizes lie well below the sign bit.

*Facts* has what these proofs share. Induction over the naturals is
stated with a set in the place of the predicate (`NatInd`), and functions that are
defined by recursion exist (`RecursiveFunction`); both are proved here from the library's
facts about finite sets. Reachability is a fixpoint (`ReachIs`, `ReachLeast`), and the
facts about supported functions up to `LatchLeaves` and `CycleIs` are here too.

*PhiToSelect.* `PhisAssumption`, which TLC evaluates for the phis of the run: every block
of the function is reached, `dom` are its dominators, the phi has one operand for every
block that leads to its own and is not that of a loop, and the operands of a pair come on
different sides of the branch of their nearest common dominator (`Separated`). From the
definition of dominators follows that they are ordered and that those of a block are a
chain (`DomChain`), so the nearest common one exists (`NearestIs`) and of the branches of three
operands the upper two are the same (`Triangle`). The map is closed upwards (`Upward`), by
which the operands whose pairs are gone form groups (`With`, an equivalence). The pass over
the map ends with a pair with no other branch below its own (`TempIs`, by induction over the
keys), which gives `LowestFirst`; the pairs with that branch are then those of one group with
another (`Parted`, `OneOfTwo`), so an iteration unites two groups (`GroupsUnite`).
`SelectFor` takes the last pair in the map's order. If the sides come in turn, this is the
pair of the highest blocks of the two groups (`HandlesTops`), and it is these whose
`selectBasicBlock` entry is not stale: `Merged` says that a select that is not used yet
stands for the highest block of a group, and `NothingIsLost` follows. `Computes` says that
what stands for the highest block of the group of the operand the phi takes has that
operand's value, in every solution of the selects' equations; a select chooses the right
side because control that enters the phi's block from an operand's has come by
each of its dominators and taken the side the operand is on (`ComesBy`, `SideTaken`). For the
converse, an execution that enters the phi's block must exist: branches can be set one
after the other so that control gets there (`WalkBack`), and it does so within as many
steps as there are blocks (`FirstTime`).

*Taint.* `TaintSpec` starts from a well-formed flow: roots and users are values. A
value whose call has returned has all its users in the vector, but one whose call is
active does not: `Pending` says that every value in the vector is in a frame or done,
`Frames` that a frame has pushed the users before its `next`, `Origins` that what is in
the vector came from before it, `NoDuplicate` that it is there once. The vector is
complete when the stack is empty. `SearchImplements` cites the same invariant.

*SecretPass.* `ProgramsAssumption` (evaluated by TLC): programs are well formed, so a
condition belongs to a conditional branch, an access is in a block and in a loop.
Every step of the pass is a step of the walk or leaves its state alone (`PassStepWalks`), so `WalkInPass`
carries the theorems about `Serialization` over to the composition. `PhisKept` combines
them with `Phases`, which says when phis are chosen: a phi that is left alone has a
latch among its blocks, so a loop begins or ends at its block: `MeetingsKept`. The
join of a branch with a then side is no such block, by `LoopSimplifyForm`
(`JoinIsNoLoops`), so no redirection goes there. In the other direction
the pass gives the search its flow: `FlowIs` shows that the uses of the rewritten
function, in any order, are a flow as `TaintSpec` assumes it.

The padding starts from a function that is known: `CodeIs` (from `Plain`, which the walk
keeps: no block but a latch keeps a condition) says that the latches and nothing else are
still conditional, and `InputsAre`, with `SearchInPass`, that the branches found for a
loop are those with a secret bound or first index. What a value leads to is a recursion over sets, of which
`AllUsersIs` proves once that it is the least set closed under users. The invariant is
`TurnInv`. Between two turns (`BetweenTurns`) everything is a function of the program and
of the number of loops that are done: the bounds and first indexes that are left, the
accesses that are guarded (`GuardedBefore`), the stores that are new (`ReplacedBefore`).
The guards are part of what the next turn starts from, since a guarded store is a user of
the index it is compared with: the property says so by a recursion over the turns
(`GuardsBefore`), of which `GuardsAre` proves that it exists and `GuardsAt` that the pass
computes it. Inside a turn,
`Collecting` says that the map holds what the indexes looked at so far pad, and that an
entry is of the first of them; `Applying`, that what is left of the map still has the
stores' versions from before the turn, so that a version has grown exactly if a
branch that was applied replaced the store. A first index is replaced in its own loop's
turn only, because `getPhiIndex` needs the preheader, which the walk leaves where it is
(`PreheaderStays`). Each step then reads freed memory
or needs a null guard exactly if the program has the hazard of that step. The absence of the
hazards of the turns done is part of the invariant (`Clean`, `Harmless`, `NoneFound`):
this gives both directions of `CompilesExactly`. `FirstIs` connects the map's first
entry with the minimum in `GuardedFor`.

*RIV.* `TreeAssumption` (evaluated by TLC): the dominator tree is one, that is, a set
that holds the entry and with a block its children holds every reachable block. The
invariant says that a block with an entry waits in the deque or has handed its values
on to its children, and that every entry is exact already when it is made. A step of
`DuplicateBB` is one of RIV's or leaves its state alone, so this holds there too.

*DuplicateBB.* `CodeAssumption` (evaluated by TLC): code is well formed, which is that
blocks are listed once, operands are values of the function, and an instruction that
is not a phi or a terminator is in one place. That is what the proof needs from
SSA form; for `BehaviourKept` nothing is assumed of dominance, so behaviour is kept even
where a context value is not there. The invariant `DupInv` says of every block that it
is as it was (`Whole`) or in its parts (`Halves`): the sides have clones of the
instructions up to `IIT`, the tail's instructions before `IIT` are to be removed or phis
of the clones (`Working`, `ClonePhi`). `Computing` says that what an instruction
or a clone is applied to means what it meant, for which the value maps must map every
value to one that means the same (`KeepsMeaning`), also when their keys follow
a replacement. `FromEnds` says that phis name the ends of split blocks. That a block is
split once follows from the order in which targets are listed (`Choice`). One lemma per
action; `FrameKeeps` has what the two kinds of clones have in common.

For `ContextsThere`, `ValuesAssumption` (evaluated by TLC) has the rest of SSA form: in the
function that RIV was given, every value is there where it is used (`UsesThere`, the
same operator that the property applies to what is left), its dominators are its
dominators, and no void value is an operand. `DupInv` is about what is computed and not about
names, so `PlacesInv` is added: what each use of a head, clone, tail and phi is, now
that some values have been replaced (`Current`, `Tests`, `CloneUses`, `PhisThere`, `OldUses`);
what replaces a value is the phi of its own clones (`Replaced`, `Maps`); and that RIV's
results for a target are still its strict dominators' (with `RIVInv`). It is preserved
by every action, and what is left is an argument about the last state. `GraphNow`: the
dominators of the function as it is are those of the original's blocks, each in its
parts, and a clone's side dominates nothing but itself. `PlaceOf`: every value is in its old block,
or is a phi of its tail. From these, one lemma for each kind of part (`WholeThere`,
`HeadThere`, `SidesThere`, `TailThere`) shows that what was there still is, and
`AllThere` that the context values are, unless one is an invoke's (`TerminatorPlace`).
Conversely, the test on the result of an invoke that unwinds to the block uses a value
that is not there (`UnwindingNotThere`): this makes the property an equivalence.

*CallCounter.* `WidthAssumption`: the modulus is positive; `CounterAssumption`: the main
thread is no worker. The invariant `Inv` adds what a thread has loaded: no more than was executed,
and exactly that if no other thread has touched the counter. `ModulesAssumption`: a
module has finitely many definitions, each with an entry block. For the reports the
invariant is `Reported`. What the proof is about is the counting: the analysis folds over
one sequence of instructions, the module's functions in an order it does not know,
and the property counts places in functions and blocks; `CallsAre` gives a bijection
between the places and the positions in that sequence, whatever the order.

*FunctionPasses.* `WidthAssumption`, `DoubleAssumption`: a positive modulus, an
epsilon in the range. `PassedFunctions`: functions are well formed, which is that
names are unique, and operands are there, computed before and of the operation's
type. That no operand is the result of a comparison is a restriction: it keeps a
blurred comparison from changing what is computed after it.
`NoneAssumption`: None is no pass. The invariant is `Known`: the function is the
original with each instruction replaced by what it `Became`, which depends only on
which passes were run, not on how often or in what order; a pass adds its
name to that set, because it leaves what the others have made as it is
(`SubtractedIs`). For `AnalysesFresh` it adds that results were counted before a
phi was rewritten if they are stale, and `Converts`. For `ValuesKept`, original and
replaced instructions are executed side by side: after each (`Agreed`), what is no
comparison has the same value, of its type, and a comparison is of the same operands; the
names that passes make up are nobody's operands (`Keeps`). `SubstitutionExact` and
`ConversionExact` then compare the single expressions.

Model-checked only: what the walk makes of functions that are not supported
(`RightExactly`); liveness, which needs `ENABLED`, so also the fairness of
`FindsDependent`; AES, whose operators are folds over bytes.

## Not modelled

* `lib/Ratio.cpp`: the parser of an option that no pass reads any more. This is why
  its component is partly modelled.
* `lib/SecretTest.cpp`, `lib/Secret (copy).cpp`: earlier versions of the pass that no
  build target names. `lib/SecretNew.cpp`: built, under the same pass name, and only
  gives blocks names; compile.sh loads `libSecret.so`.
* `inputs/blowfish.c` and the small inputs: programs to compile. Blowfish's state is
  its key schedule, most of which is tables; the shapes of the small ones are among
  the inputs of the models.
* compile.sh, CMake files, LLVM's own passes: a straight sequence of tools. They
  determine the shapes of the inputs.
* Printing, layout, command lines, registration with the pass managers. The legacy
  and the new pass manager's entries of a pass call the same function.
* Widths and layouts of LLVM's types but where a property speaks of them (padded
  indices, counters, subtraction, doubles).

## Plan

All the modules of the plan exist. What is worth adding, in this order:

1. `Serialization`: `RightExactly` for while loops, with the search of lines 486-515 in
   the invariant.
2. Larger instances of `SecretPass`: loops three deep, arrays shared between them.
