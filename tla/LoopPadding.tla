----------------------------- MODULE LoopPadding -----------------------------
(* modifyNumCyclesLoops of lib/Secret.cpp, the last step of the Secret pass. *)
(* A loop over an array whose first index or whose bound depends on an       *)
(* argument of the function is made to run over the whole array. What it     *)
(* stores, and the loads that its phis use, are guarded by a comparison      *)
(* (finalCmp) that holds in the iterations of the original loop only.        *)
(*                                                                           *)
(* One loop is followed through the pass and then executed. Its only         *)
(* branch is the latch's (recursiveSerialization has removed the others, the *)
(* one around the loop too, so that the padded loop is always entered).      *)
(* Values are bit patterns of an integer, 0..Modulus-1.                      *)
EXTENDS Integers, Sequences, FiniteSets

CONSTANTS
  SignBit, \* the value of an integer's highest bit: half of the patterns
  Loops    \* a set of loops, see Loop

Modulus == 2 * SignBit

Word == 0..(Modulus - 1)

Predicates == {"sgt", "ugt", "sge", "uge", "slt", "ult", "sle", "ule", "eq", "ne"}

\* The sizes of arrays: less than half of the addresses.
Size == 1..(SignBit - 2)

Limit == [secret : BOOLEAN, value : Word]

Loop ==
  [init    : Limit,               \* the first value of the index
   bound   : Limit,               \* what the latch compares with
   step    : {1, -1},
   pred    : Predicates,          \* of the latch's icmp
   on      : {"phi", "next"},     \* the left operand of the icmp: the index's
                                  \* phi, or its value for the next iteration
   leave   : BOOLEAN,             \* the latch leaves the loop if the icmp holds
   index   : {"phi", "next", "cast"}, \* what the array is indexed with: phi,
                                  \* next, or a cast of the phi
   sizes   : Seq(Size),           \* of the array, per getelementptr of the loop
   access  : {"store", "phi", "other"}, \* what it does with the elements: it
                                  \* stores into them, or loads them and a phi
                                  \* of the loop uses them, or only other
                                  \* instructions do (a call)
   entered : BOOLEAN]             \* whether the original program runs the loop

-----------------------------------------------------------------------------
(* What a loop does.                                                        *)

Signed(v) == IF v >= SignBit THEN v - Modulus ELSE v

Plus(x, y) == (x + y) % Modulus

isGT(p) == p \in {"sgt", "ugt"}
isGE(p) == p \in {"sge", "uge"}
isLT(p) == p \in {"slt", "ult"}
isLE(p) == p \in {"sle", "ule"}
isUnsigned(p) == p \in {"ugt", "uge", "ult", "ule"}

\* icmp.
Holds(p, x, y) ==
  LET a == IF isUnsigned(p) THEN x ELSE Signed(x)
      b == IF isUnsigned(p) THEN y ELSE Signed(y)
  IN  \/ isGT(p) /\ a > b
      \/ isGE(p) /\ a >= b
      \/ isLT(p) /\ a < b
      \/ isLE(p) /\ a <= b
      \/ p = "eq" /\ a = b
      \/ p = "ne" /\ a # b

Next_(l, n) == Plus(n, l.step)

Element(l, n) == Signed(IF l.index = "next" THEN Next_(l, n) ELSE n)

Again(l, n) ==
  Holds(l.pred, IF l.on = "phi" THEN n ELSE Next_(l, n), l.bound.value) # l.leave

\* The elements the original loop accesses: those of the iterations before
\* which the latch has always gone on.
OriginalElements(l) ==
  LET index(k) == Plus(l.init.value, k * l.step)
      runs(k) == \A j \in 0..(k - 1) : Again(l, index(j))
  IN  IF l.entered THEN {Element(l, index(k)) : k \in {m \in Word : runs(m)}} ELSE {}

SetMin(S) == CHOOSE m \in S : \A n \in S : m <= n

Smallest(l) == SetMin({l.sizes[k] : k \in DOMAIN l.sizes})

\* The original program stays within the arrays.
InBounds(l) == OriginalElements(l) \subseteq 0..(Smallest(l) - 1)

\* for (k = init; k pred bound; k--) with a signed comparison, as clang leaves
\* it: the latch compares the next value.
CountsDown(l) == /\ l.step = -1 /\ l.pred \in {"sgt", "sge"}
                 /\ l.on = "next" /\ ~l.leave /\ l.index = "phi"

CountsUp(l) == /\ l.step = 1 /\ l.pred \in {"slt", "sle"}
               /\ l.on = "next" /\ ~l.leave /\ l.index = "phi"

\* The same after indvars has replaced the comparison by one for equality
\* with the number of iterations.
CountsToExit(l) == /\ l.step = 1 /\ l.pred = "eq"
                   /\ l.on = "next" /\ l.leave /\ l.index = "phi"

\* The branch around a for loop makes the latch's comparison (the one before
\* indvars) with the first index.
EnteredAsFor(l) ==
  /\ CountsDown(l) \/ CountsUp(l) => l.entered = Holds(l.pred, l.init.value, l.bound.value)
  /\ CountsToExit(l) => l.entered = Holds("slt", l.init.value, l.bound.value)

\* A limit that is not secret is one for the arrays: a first index is one of
\* an element of each, and a bound that the index counts down to admits the
\* last element, but nothing below the first. A loop that counts up has arrays
\* of two elements, and does not start at the last.
LimitsFit(l) ==
  LET last == Smallest(l) - 1
  IN  /\ CountsDown(l) \/ CountsToExit(l) => l.init.secret \/ l.init.value \in 0..last
      /\ CountsUp(l) => last >= 1 /\ (l.init.secret \/ l.init.value \in 0..(last - 1))
      /\ CountsDown(l) => \/ l.bound.secret
                          \/ /\ Holds(l.pred, last, l.bound.value)
                             /\ ~Holds(l.pred, Modulus - 1, l.bound.value)

ASSUME SignBitAssumption == SignBit \in Nat \ {0}

ASSUME LoopsAssumption ==
  \A l \in Loops : /\ l \in Loop /\ l.sizes # <<>>
                   /\ l.init.secret \/ l.bound.secret
                   /\ InBounds(l) /\ EnteredAsFor(l) /\ LimitsFit(l)

-----------------------------------------------------------------------------

Absent == [secret |-> FALSE, value |-> -1]  \* no entry in an applyBranch map

VARIABLES
  loop,            \* the loop as the pass found it
  padded,          \* the loop as the pass leaves it
  gep,             \* the getelementptr being looked at
  applyBranchLS,   \* whether the loads and stores are to be guarded
  applyBranchEnd,  \* the original bound, or Absent
  applyBranchInit, \* the original first index, or Absent
  pc,
  i,               \* the value of the index's phi, when the loop runs
  touched,         \* the elements the padded loop has accessed
  stored           \* those whose access had an effect

vars == <<loop, padded, gep, applyBranchLS, applyBranchEnd, applyBranchInit,
          pc, i, touched, stored>>

passVars == <<loop, gep, applyBranchLS, applyBranchEnd, applyBranchInit>>

runVars == <<i, touched, stored>>

minSizeArrays == Smallest(loop)

Init ==
  /\ loop \in Loops
  /\ padded = loop
  /\ gep = 1
  /\ applyBranchLS = FALSE
  /\ applyBranchEnd = Absent
  /\ applyBranchInit = Absent
  /\ pc = "rewrite"
  /\ i = 0 /\ touched = {} /\ stored = {}

-----------------------------------------------------------------------------
(* The pass.                                                                *)

\* Lines 192-210: InputBrs holds the latch's branch.
inputBranch == loop.init.secret \/ loop.bound.secret

\* Line 242: the condition is computed from the array's index. A cast of the
\* phi is used by the getelementptr only.
ConditionUsesIndex == loop.index # "cast"

\* Mutants: bounds without the off-by-one errors; one that no value passes.
PaddedBoundExact(p) == CASE isGT(p) -> Modulus - 1
                         [] isGE(p) -> 0
                         [] isLE(p) -> minSizeArrays - 1
                         [] OTHER   -> minSizeArrays
PaddedBoundLeast(p) == IF isGT(p) THEN Modulus - 1 ELSE SignBit

\* Lines 274-293.
PaddedBound(p) == CASE isGT(p) -> Modulus - 1
                    [] isGE(p) -> 0
                    [] isLT(p) -> minSizeArrays - 1
                    [] OTHER   -> minSizeArrays

\* Mutant: the first index is one too high.
PaddedInitSize(p) == IF isGT(p) \/ isGE(p) THEN minSizeArrays ELSE 0

\* Lines 319-328.
PaddedInit(p) == IF isGT(p) \/ isGE(p) THEN minSizeArrays - 1 ELSE 0

\* Mutant: the phi is found behind other indices too.
PhiIndexAlwaysFound == padded.init.secret

\* getPhiIndex, 109-134: it looks for a phi among the uses' values, which are
\* the index itself.
PhiIndexFound == loop.index = "phi" /\ padded.init.secret

\* Mutant: the bound is remembered after it is replaced.
RewriteIndexLate ==
  /\ pc = "rewrite" /\ inputBranch /\ gep <= Len(loop.sizes)
  /\ ConditionUsesIndex
  /\ applyBranchLS' = TRUE
  /\ padded' = [padded EXCEPT
       !.bound = IF @.secret THEN [secret |-> FALSE, value |-> PaddedBound(loop.pred)] ELSE @,
       !.init  = IF PhiIndexFound THEN [secret |-> FALSE, value |-> PaddedInit(loop.pred)] ELSE @]
  /\ applyBranchEnd'  = IF padded.bound.secret THEN padded'.bound ELSE applyBranchEnd
  /\ applyBranchInit' = IF PhiIndexFound THEN padded.init ELSE applyBranchInit
  /\ gep' = gep + 1
  /\ UNCHANGED <<loop, pc>> /\ UNCHANGED runVars

\* Lines 228-336 for one getelementptr: the bound and the first index are
\* replaced by constants and remembered, if they are not constants yet.
RewriteIndex ==
  /\ pc = "rewrite" /\ inputBranch /\ gep <= Len(loop.sizes)
  /\ ConditionUsesIndex
  /\ applyBranchLS' = TRUE
  /\ applyBranchEnd'  = IF padded.bound.secret THEN padded.bound ELSE applyBranchEnd
  /\ applyBranchInit' = IF PhiIndexFound THEN padded.init ELSE applyBranchInit
  /\ padded' = [padded EXCEPT
       !.bound = IF @.secret THEN [secret |-> FALSE, value |-> PaddedBound(loop.pred)] ELSE @,
       !.init  = IF PhiIndexFound THEN [secret |-> FALSE, value |-> PaddedInit(loop.pred)] ELSE @]
  /\ gep' = gep + 1
  /\ UNCHANGED <<loop, pc>> /\ UNCHANGED runVars

SkipIndex ==
  /\ pc = "rewrite" /\ inputBranch /\ gep <= Len(loop.sizes)
  /\ ~ConditionUsesIndex
  /\ gep' = gep + 1
  /\ UNCHANGED <<loop, padded, applyBranchLS, applyBranchEnd, applyBranchInit, pc>>
  /\ UNCHANGED runVars

\* Lines 398-418: selects on finalCmp are made, for stores and for the phis
\* that use what is loaded. Another load is left as it is.
Selects == applyBranchLS /\ loop.access # "other"

rewritten == pc = "rewrite" /\ (gep > Len(loop.sizes) \/ ~inputBranch)

\* Lines 340-442: the guard is built and the selects are made. Without a
\* remembered bound or first index finalCmp stays null, and a select on it
\* crashes.
EmitGuard ==
  /\ rewritten
  /\ pc' = IF Selects /\ applyBranchEnd = Absent /\ applyBranchInit = Absent
           THEN "crashed" ELSE "run"
  /\ i' = padded.init.value
  /\ UNCHANGED passVars /\ UNCHANGED <<padded, touched, stored>>

\* Mutants: the first index's own iteration is left out; the comparison is
\* negated where it is true when the loop is left.
finalCmpStrict(n) ==
  /\ applyBranchInit # Absent =>
       IF isGT(loop.pred) \/ isGE(loop.pred) THEN Holds("slt", n, applyBranchInit.value)
                                             ELSE Holds("sgt", n, applyBranchInit.value)
  /\ applyBranchEnd # Absent => Holds(loop.pred, n, applyBranchEnd.value)
finalCmpStay(n) ==
  /\ applyBranchInit # Absent => Holds("sge", n, applyBranchInit.value)
  /\ applyBranchEnd # Absent => (Holds(loop.pred, n, applyBranchEnd.value) # loop.leave)

\* finalCmp in the iteration n: cmp1 and cmp2, of those that there are. cmp2
\* is the latch's comparison with the original bound, made in the header:
\* fixLoopCmp puts the phi in the place of its next value.
finalCmp(n) ==
  /\ applyBranchInit # Absent =>
       IF isGT(loop.pred) \/ isGE(loop.pred) THEN Holds("sle", n, applyBranchInit.value)
                                             ELSE Holds("sge", n, applyBranchInit.value)
  /\ applyBranchEnd # Absent => Holds(loop.pred, n, applyBranchEnd.value)

-----------------------------------------------------------------------------
(* The padded loop's execution.                                             *)

Iterate ==
  /\ pc = "run"
  /\ touched' = touched \cup {Element(padded, i)}
  /\ stored' = IF Selects => finalCmp(i) THEN stored \cup {Element(padded, i)} ELSE stored
  /\ i' = Next_(padded, i)
  /\ pc' = IF Again(padded, i) THEN "run" ELSE "ended"
  /\ UNCHANGED passVars /\ UNCHANGED padded

Halt == pc \in {"ended", "crashed"} /\ UNCHANGED vars

Next == RewriteIndex \/ SkipIndex \/ EmitGuard \/ Iterate \/ Halt

Spec == Init /\ [][Next]_vars /\ WF_vars(Next)

-----------------------------------------------------------------------------
(* Properties.                                                              *)

TypeOK ==
  /\ pc \in {"rewrite", "run", "ended", "crashed"}
  /\ padded.init.value \in Word /\ padded.bound.value \in Word
  /\ gep \in 1..(Len(loop.sizes) + 1)
  /\ applyBranchLS \in BOOLEAN
  /\ applyBranchEnd \in {Absent, loop.bound} /\ applyBranchInit \in {Absent, loop.init}
  /\ i \in Word
  /\ stored \subseteq touched

\* The elements between the public limits of the loop: those that are not
\* secret. Nothing secret occurs in it.
PublicElements(l) ==
  {e \in 0..(minSizeArrays - 1) :
     /\ l.init.secret \/ (IF l.step = 1 THEN e >= l.init.value ELSE e <= l.init.value)
     /\ l.bound.secret \/ Holds(l.pred, e, l.bound.value)}

\* Which elements are accessed does not depend on a secret, and all are in
\* the smallest of the arrays: so it is for the loops that count down.
Oblivious == pc = "ended" /\ CountsDown(loop) => touched = PublicElements(loop)

\* Padding a loop that counts down changes nothing else in a loop that stores,
\* or whose phis use what it loads: an access has an effect in exactly the
\* iterations of the original loop, those of a loop that the original program
\* does not enter (its branch is gone) included. A load that only a call uses
\* has its effect, the call, in all of the padded loop's iterations.
EffectsKept ==
  pc = "ended" /\ CountsDown(loop) =>
    stored = IF loop.access = "other" THEN PublicElements(loop) ELSE OriginalElements(loop)

\* For a loop with < and a secret bound the constants are off by one: the
\* last element is never accessed, and the original's access to it is lost.
LastElementLost ==
  pc = "ended" /\ CountsUp(loop) /\ loop.pred = "slt" /\ loop.bound.secret =>
    /\ touched = PublicElements(loop) \ {minSizeArrays - 1}
    /\ loop.access # "other" => stored = OriginalElements(loop) \ {minSizeArrays - 1}

\* With <= it is off by one the other way: every run accesses the element
\* after the last. The effects are the original's.
OneTooMany ==
  pc = "ended" /\ CountsUp(loop) /\ loop.pred = "sle" /\ loop.bound.secret =>
    /\ touched = PublicElements(loop) \cup {minSizeArrays}
    /\ loop.access # "other" => stored = OriginalElements(loop)

\* A comparison that is true when the loop is left is put into the guard as
\* it is: the accesses of the original's iterations lose their effect.
ExitTestLosesEffects ==
  pc = "ended" /\ CountsToExit(loop) /\ loop.bound.secret =>
    /\ touched = PublicElements(loop)
    /\ loop.access # "other" => stored \cap OriginalElements(loop) = {}

\* The limits of the loops that count up, by the comparison of their latch:
\* with none of the three is the padded loop what it is for those that count
\* down, and each fails in its own way (lines 274-293, 348-388).
UpwardLimits == LastElementLost /\ OneTooMany /\ ExitTestLosesEffects

\* The pass dereferences no null guard unless the array is indexed with the
\* next value and the bound is not secret: then getPhiIndex finds nothing, and
\* any access that gets a select, a store or a load that a phi uses, crashes.
CrashesOnNextIndex ==
  pc \in {"run", "crashed"} =>
    (pc = "crashed" <=> /\ loop.index = "next" /\ loop.access # "other"
                        /\ loop.init.secret /\ ~loop.bound.secret)

\* A secret bound is replaced by 0 under >=, which no unsigned number is below.
NeverLeft(l) == l.pred = "uge" /\ ~l.leave /\ l.bound.secret /\ l.index # "cast"

\* A padded loop ends, whatever the secrets are and however the original one
\* is compared, with exactly one exception: under an unsigned >= a secret
\* bound becomes one that the loop never passes.
Ends == /\ NeverLeft(loop) => [](pc # "ended")
        /\ ~NeverLeft(loop) => <>(pc \in {"ended", "crashed"})
=============================================================================
