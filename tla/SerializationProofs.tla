------------------------- MODULE SerializationProofs -------------------------
(* In the first part, what holds of the walk on every function, whatever its *)
(* branches and its loops look like: no side of a branch is forgotten, and   *)
(* no rebuilt branch leads to a block that was left as it was. In the second *)
(* part, what it comes to on a supported function: one straight line through *)
(* all the blocks.                                                           *)
EXTENDS Serialization, SequenceTheorems, Facts

\* The walk is on one of the functions, and its data are well typed.
Shape == g \in Functions /\ TypeOK

\* The loops over condBranch run with a branch on it, the search at an entry.
Positions ==
  /\ pc \in {"unwind", "search"} => condBranch # <<>>
  /\ pc = "search" => cur \in DOMAIN serializedCode

\* Blocks are recorded after their dominators. It is why the latch of a loop
\* finds the header of the loop recorded (lines 539-548).
Dominated ==
  /\ \A b \in DOMAIN serializedCode : g.dom[b] \subseteq DOMAIN serializedCode
  /\ pc = "visit" => g.dom[bb] \subseteq DOMAIN serializedCode \cup {bb}

\* The inductive invariant.
IInv == /\ Shape /\ Positions /\ Dominated
        /\ StackSound /\ SidesPending /\ TargetsCovered /\ NothingLeftOver

-----------------------------------------------------------------------------
(* Lemmas about the definitions of the model.                               *)

\* Record adds or overwrites one entry of the map.
LEMMA RecordIs ==
  ASSUME NEW b, NEW br
  PROVE  /\ DOMAIN Record(b, br) = DOMAIN serializedCode \cup {b}
         /\ Record(b, br)[b] = br
         /\ \A x \in DOMAIN serializedCode \ {b} : Record(b, br)[x] = serializedCode[x]
BY DEF Record

\* The targets of a branch are its successors that are not null.
LEMMA TargetsAre ==
  ASSUME NEW c, NEW t, NEW e
  PROVE  /\ Targets(newBranch(c, t, e)) = {t, e} \ {Null}
         /\ newBranch(c, t, e).then = t
BY DEF newBranch, Targets

\* The map stays well typed when a well typed branch is recorded.
MapType(m) ==
  /\ DOMAIN m \subseteq g.block
  /\ m \in [DOMAIN m -> [cond : g.block \cup {Null}, then : g.block,
                         els  : g.block \cup {Null}]]

\* A map with one more branch, well typed, is well typed.
LEMMA RecordType ==
  ASSUME Shape, NEW b \in g.block, NEW c \in g.block \cup {Null},
         NEW t \in g.block, NEW e \in g.block \cup {Null}
  PROVE  MapType(Record(b, newBranch(c, t, e)))
BY DEF Shape, TypeOK, Record, newBranch, MapType

\* What the assumptions say of the function under the pass.
LEMMA FunctionIs ==
  ASSUME Shape
  PROVE  WellFormed(g) /\ DominatorsFlow(g) /\ HeadersDominate(g)
         /\ Null \notin g.block /\ VirtualRoot \notin g.block
BY FunctionsAssumption, NullAssumption DEF Shape

\* The branch on top of the stack, its then side and the rest of the stack.
LEMMA TopIs ==
  ASSUME Shape, StackSound, condBranch # <<>>, PopBranch
  PROVE  /\ lastBranch \in DOMAIN serializedCode /\ lastBranch \in g.block
         /\ thenSide \in g.block /\ thenSide \in SuccSet(g, lastBranch)
         /\ IsConditional(g, lastBranch)
         /\ condBranch' \in Seq(g.block)
         /\ Len(condBranch') = Len(condBranch) - 1
         /\ \A i \in 1..Len(condBranch') : condBranch'[i] = condBranch[i]
         /\ \A i \in 1..Len(condBranch) :
               i \in 1..Len(condBranch') \/ condBranch[i] = lastBranch
<1>1. condBranch \in Seq(g.block) /\ Len(condBranch) \in 1..Len(condBranch)
  BY DEF Shape, TypeOK
<1>2. /\ Len(condBranch') = Len(condBranch) - 1
      /\ \A i \in 1..Len(condBranch') : condBranch'[i] = condBranch[i]
      /\ condBranch' \in Seq(g.block)
  <2>. DEFINE n == Len(condBranch) - 1
  <2>1. n \in Int /\ 1 \in Int /\ \A i \in 1..n : condBranch[i] \in g.block
    BY <1>1
  <2>2. SubSeq(condBranch, 1, n) \in Seq(g.block)
    BY <2>1, SubSeqProperties
  <2>3. Len(SubSeq(condBranch, 1, n)) = IF 1 <= n THEN n - 1 + 1 ELSE 0
    BY <2>1, SubSeqProperties
  <2>4. \A i \in 1..(n - 1 + 1) : SubSeq(condBranch, 1, n)[i] = condBranch[1 + i - 1]
    BY <2>1, SubSeqProperties
  <2>5. n \in Nat /\ n - 1 + 1 = n /\ \A i \in 1..n : 1 + i - 1 = i
    BY <1>1
  <2>6. Len(SubSeq(condBranch, 1, n)) = n
    BY <2>3, <2>5
  <2>7. \A i \in 1..n : SubSeq(condBranch, 1, n)[i] = condBranch[i]
    BY <2>4, <2>5
  <2>8. condBranch' = SubSeq(condBranch, 1, n)
    BY DEF PopBranch
  <2>. HIDE DEF n
  <2>9. /\ Len(condBranch') = n
        /\ \A i \in 1..n : condBranch'[i] = condBranch[i]
        /\ condBranch' \in Seq(g.block)
    BY <2>2, <2>6, <2>7, <2>8
  <2>. QED
    BY <2>9 DEF n
<1>3. lastBranch \in DOMAIN serializedCode /\ IsConditional(g, lastBranch)
  BY <1>1 DEF StackSound, lastBranch, Serialized
<1>4. lastBranch \in g.block
  BY <1>3 DEF Shape, TypeOK
<1>5. thenSide \in g.block /\ thenSide \in SuccSet(g, lastBranch)
  BY <1>3, <1>4, FunctionIs, Successors DEF thenSide, IsConditional
<1>6. \A i \in 1..Len(condBranch) :
        i \in 1..Len(condBranch') \/ condBranch[i] = lastBranch
  BY <1>1, <1>2 DEF lastBranch
<1>. QED
  BY <1>2, <1>3, <1>4, <1>5, <1>6

\* Successors and targets are blocks.
LEMMA BlocksOnly ==
  ASSUME Shape
  PROVE  /\ \A b \in g.block : SuccSet(g, b) \subseteq g.block
         /\ \A b \in DOMAIN serializedCode : /\ b \in g.block
                                           /\ Targets(serializedCode[b]) \subseteq g.block
<1>1. \A b \in g.block : SuccSet(g, b) \subseteq g.block
  BY FunctionIs, Successors
<1>2. ASSUME NEW b \in DOMAIN serializedCode
      PROVE  b \in g.block /\ Targets(serializedCode[b]) \subseteq g.block
  <2>1. serializedCode[b].then \in g.block /\ serializedCode[b].els \in g.block \cup {Null}
    BY DEF Shape, TypeOK
  <2>. QED
    BY <2>1 DEF Targets, Shape, TypeOK
<1>. QED
  BY <1>1, <1>2

-----------------------------------------------------------------------------
(* A call on a new block: its entry is recorded and one side is visited.    *)

\* What the three actions that record a new block have in common.
LEMMA NewBlock ==
  ASSUME IInv, pc = "visit", ~Serialized(bb), pc' = "visit", UNCHANGED g,
         bb' \in SuccSet(g, bb), bb' \in g.block,
         DOMAIN serializedCode' = DOMAIN serializedCode \cup {bb},
         \A x \in DOMAIN serializedCode \ {bb} : serializedCode'[x] = serializedCode[x],
         \A s \in Targets(serializedCode'[bb]) : Covered(s)',
         \A i \in 1..Len(condBranch) :
            i \in 1..Len(condBranch') /\ condBranch'[i] = condBranch[i],
         \A s \in SuccSet(g, bb) :
            \/ Covered(s)'
            \/ \E i \in 1..Len(condBranch') : condBranch'[i] = bb /\ s = g.succ[bb][1]
  PROVE  Positions' /\ Dominated' /\ SidesPending' /\ TargetsCovered' /\ NothingLeftOver'
<1>. USE DEF IInv
<1>1. g.dom[bb] \subseteq DOMAIN serializedCode \cup {bb}
  BY DEF Dominated
<1>2. g.dom[bb'] \subseteq g.dom[bb] \cup {bb'}
  BY FunctionIs DEF DominatorsFlow, Shape, TypeOK
<1>3. Dominated'
  BY <1>1, <1>2 DEF Dominated
<1>4. \A b \in g.block : Covered(b) => Covered(b)'
  BY DEF Covered, Serialized
<1>5. SidesPending'
  <2>1. g.entry \in g.block /\ pc # "crashed" /\ pc' # "crashed"
    BY FunctionIs DEF WellFormed
  <2>2. Covered(g.entry)'
    BY <1>4, <2>1 DEF SidesPending
  <2>3. ASSUME NEW b \in DOMAIN serializedCode', NEW s \in SuccSet(g, b)
        PROVE  \/ Covered(s)'
               \/ \E i \in 1..Len(condBranch') : condBranch'[i] = b /\ s = g.succ[b][1]
    <3>1. CASE b = bb
      BY <3>1
    <3>2. CASE b \in DOMAIN serializedCode
      <4>1. s \in g.block
        BY <3>2, BlocksOnly
      <4>. QED
        BY <1>4, <2>1, <3>2, <4>1 DEF SidesPending
    <3>. QED
      BY <3>1, <3>2
  <2>4. (g.entry)' = g.entry /\ \A b : SuccSet(g, b)' = SuccSet(g', b) /\ g' = g
    BY DEF SuccSet
  <2>. QED
    BY <2>2, <2>3, <2>4 DEF SidesPending
<1>6. TargetsCovered'
  <2>1. ASSUME NEW b \in DOMAIN serializedCode, b # bb, NEW s \in Targets(serializedCode[b])
        PROVE  Covered(s)'
    <3>1. s \in g.block
      BY BlocksOnly
    <3>. QED
      BY <1>4, <3>1 DEF TargetsCovered
  <2>2. ASSUME NEW b \in DOMAIN serializedCode' PROVE \A s \in Targets(serializedCode'[b]) : Covered(s)'
    BY <2>1
  <2>. QED
    BY <2>2 DEF TargetsCovered, Targets
<1>. QED
  BY <1>3, <1>5, <1>6 DEF Positions, NothingLeftOver

\* The steps of a call, one by one.
LEMMA VisitUnconditionalStep == ASSUME IInv, VisitUnconditional PROVE IInv'
<1>1. /\ pc = "visit" /\ ~Serialized(bb) /\ pc' = "visit" /\ bb' = g.succ[bb][1]
      /\ Len(g.succ[bb]) = 1
      /\ UNCHANGED <<g, condBranch, cur, code>>
      /\ serializedCode' = Record(bb, newBranch(Null, g.succ[bb][1], Null))
  BY DEF VisitUnconditional, Call
<1>2. bb \in g.block /\ WellFormed(g) /\ Null \notin g.block
  BY FunctionIs DEF IInv, Shape, TypeOK
<1>3. g.succ[bb][1] \in g.block /\ SuccSet(g, bb) = {g.succ[bb][1]} /\ g.succ[bb] # <<>>
  BY <1>1, <1>2, Successors
<1>4. /\ DOMAIN serializedCode' = DOMAIN serializedCode \cup {bb}
      /\ Targets(serializedCode'[bb]) = {g.succ[bb][1], Null} \ {Null}
      /\ \A x \in DOMAIN serializedCode \ {bb} : serializedCode'[x] = serializedCode[x]
  <2>1. DOMAIN serializedCode' = DOMAIN serializedCode \cup {bb}
    BY <1>1, RecordIs
  <2>2. \A x \in DOMAIN serializedCode \ {bb} : serializedCode'[x] = serializedCode[x]
    BY <1>1 DEF Record
  <2>3. serializedCode'[bb] = newBranch(Null, g.succ[bb][1], Null)
    BY <1>1, RecordIs
  <2>. QED
    BY <2>1, <2>2, <2>3, TargetsAre
<1>5. \A s : s = g.succ[bb][1] => Covered(s)'
  BY <1>1 DEF Covered
<1>6. Positions' /\ Dominated' /\ SidesPending' /\ TargetsCovered' /\ NothingLeftOver'
  BY <1>1, <1>2, <1>3, <1>4, <1>5, NewBlock
<1>7. Shape'
  <2>1. MapType(serializedCode')
    BY <1>1, <1>2, <1>3, RecordType DEF IInv
  <2>2. TypeOK'
    BY <1>1, <1>2, <1>3, <2>1 DEF IInv, Shape, TypeOK, MapType
  <2>. QED
    BY <1>1, <2>2 DEF IInv, Shape
<1>8. StackSound'
  BY <1>1, <1>4 DEF IInv, StackSound, Serialized, IsConditional
<1>. QED
  BY <1>6, <1>7, <1>8 DEF IInv

LEMMA VisitLatchStep == ASSUME IInv, VisitLatch PROVE IInv'
<1>1. /\ pc = "visit" /\ ~Serialized(bb) /\ pc' = "visit"
      /\ bb' \in {g.succ[bb][1], g.succ[bb][2]}
      /\ g.succ[bb][1] # g.header[bb] => bb' = g.succ[bb][1]
      /\ g.succ[bb][1] = g.header[bb] => bb' = g.succ[bb][2]
      /\ IsConditional(g, bb) /\ bb \in DOMAIN g.header
      /\ UNCHANGED <<g, condBranch, cur, code>>
      /\ serializedCode' = Record(bb, newBranch(bb, g.succ[bb][1], g.succ[bb][2]))
  BY DEF VisitLatch, Call
<1>2. /\ bb \in g.block /\ WellFormed(g) /\ Null \notin g.block
      /\ DominatorsFlow(g) /\ HeadersDominate(g)
  BY FunctionIs DEF IInv, Shape, TypeOK
<1>3. /\ g.succ[bb][1] \in g.block /\ g.succ[bb][2] \in g.block
      /\ SuccSet(g, bb) = {g.succ[bb][1], g.succ[bb][2]}
  BY <1>1, <1>2, Successors DEF IsConditional
<1>4. /\ DOMAIN serializedCode' = DOMAIN serializedCode \cup {bb}
      /\ Targets(serializedCode'[bb]) = {g.succ[bb][1], g.succ[bb][2]} \ {Null}
      /\ \A x \in DOMAIN serializedCode \ {bb} : serializedCode'[x] = serializedCode[x]
  <2>1. DOMAIN serializedCode' = DOMAIN serializedCode \cup {bb}
    BY <1>1, RecordIs
  <2>2. \A x \in DOMAIN serializedCode \ {bb} : serializedCode'[x] = serializedCode[x]
    BY <1>1 DEF Record
  <2>3. serializedCode'[bb] = newBranch(bb, g.succ[bb][1], g.succ[bb][2])
    BY <1>1, RecordIs
  <2>. QED
    BY <2>1, <2>2, <2>3, TargetsAre
\* the header has been recorded before the latch, or is the latch
<1>5. g.header[bb] \in DOMAIN serializedCode'
  <2>1. g.header[bb] \in g.dom[bb]
    BY <1>1, <1>2 DEF HeadersDominate
  <2>2. g.dom[bb] \subseteq DOMAIN serializedCode \cup {bb}
    BY <1>1 DEF IInv, Dominated
  <2>. QED
    BY <1>4, <2>1, <2>2
<1>6. \A s \in SuccSet(g, bb) : Covered(s)'
  <2>1. \A s : s = g.header[bb] \/ s = bb' => Covered(s)'
    BY <1>1, <1>5 DEF Covered, Serialized
  <2>2. g.header[bb] \in SuccSet(g, bb)
    BY <1>1, <1>2 DEF HeadersDominate
  <2>. QED
    BY <1>1, <1>3, <2>1, <2>2
<1>7. Positions' /\ Dominated' /\ SidesPending' /\ TargetsCovered' /\ NothingLeftOver'
  BY <1>1, <1>2, <1>3, <1>4, <1>6, NewBlock
<1>8. Shape'
  <2>1. bb' \in g.block
    BY <1>1, <1>3
  <2>2. bb \in g.block \cup {Null} /\ g.succ[bb][2] \in g.block \cup {Null}
    BY <1>2, <1>3
  <2>3. MapType(serializedCode')
    BY <1>1, <1>2, <1>3, <2>2, RecordType DEF IInv
  <2>4. TypeOK'
    BY <1>1, <2>1, <2>3 DEF IInv, Shape, TypeOK, MapType
  <2>. QED
    BY <1>1, <2>4 DEF IInv, Shape
<1>9. StackSound'
  BY <1>1, <1>4 DEF IInv, StackSound, Serialized, IsConditional
<1>. QED
  BY <1>7, <1>8, <1>9 DEF IInv
LEMMA VisitConditionalStep == ASSUME IInv, VisitConditional PROVE IInv'
<1>1. /\ pc = "visit" /\ ~Serialized(bb) /\ pc' = "visit" /\ bb' = g.succ[bb][2]
      /\ IsConditional(g, bb) /\ bb \notin DOMAIN g.header
      /\ condBranch' = Append(condBranch, bb)
      /\ UNCHANGED <<g, cur, code>>
      /\ serializedCode' = Record(bb, newBranch(Null, g.succ[bb][2], Null))
  BY DEF VisitConditional, ElseOnly, Call
<1>2. bb \in g.block /\ WellFormed(g) /\ Null \notin g.block /\ condBranch \in Seq(g.block)
  BY FunctionIs DEF IInv, Shape, TypeOK
<1>3. /\ g.succ[bb][1] \in g.block /\ g.succ[bb][2] \in g.block
      /\ SuccSet(g, bb) = {g.succ[bb][1], g.succ[bb][2]}
  BY <1>1, <1>2, Successors DEF IsConditional
<1>4. /\ DOMAIN serializedCode' = DOMAIN serializedCode \cup {bb}
      /\ Targets(serializedCode'[bb]) = {g.succ[bb][2], Null} \ {Null}
      /\ \A x \in DOMAIN serializedCode \ {bb} : serializedCode'[x] = serializedCode[x]
  <2>1. DOMAIN serializedCode' = DOMAIN serializedCode \cup {bb}
    BY <1>1, RecordIs
  <2>2. \A x \in DOMAIN serializedCode \ {bb} : serializedCode'[x] = serializedCode[x]
    BY <1>1 DEF Record
  <2>3. serializedCode'[bb] = newBranch(Null, g.succ[bb][2], Null)
    BY <1>1, RecordIs
  <2>. QED
    BY <2>1, <2>2, <2>3, TargetsAre
<1>5. /\ Len(condBranch') = Len(condBranch) + 1
      /\ condBranch'[Len(condBranch')] = bb
      /\ Len(condBranch') \in 1..Len(condBranch')
      /\ \A i \in 1..Len(condBranch) :
            i \in 1..Len(condBranch') /\ condBranch'[i] = condBranch[i]
      /\ condBranch' \in Seq(g.block)
  BY <1>1, <1>2
\* the else side is being visited, the then side is on the stack
<1>6. \A s \in SuccSet(g, bb) :
        \/ Covered(s)'
        \/ \E i \in 1..Len(condBranch') : condBranch'[i] = bb /\ s = g.succ[bb][1]
  <2>1. \A s : s = g.succ[bb][2] => Covered(s)'
    BY <1>1 DEF Covered
  <2>. QED
    BY <1>3, <1>5, <2>1
<1>7. Positions' /\ Dominated' /\ SidesPending' /\ TargetsCovered' /\ NothingLeftOver'
  <2>1. \A s \in Targets(serializedCode'[bb]) : Covered(s)'
    BY <1>1, <1>4 DEF Covered
  <2>. QED
    BY <1>1, <1>2, <1>3, <1>4, <1>5, <1>6, <2>1, NewBlock
<1>8. Shape'
  <2>1. MapType(serializedCode')
    BY <1>1, <1>2, <1>3, RecordType DEF IInv
  <2>2. TypeOK'
    BY <1>1, <1>2, <1>3, <1>5, <2>1 DEF IInv, Shape, TypeOK, MapType
  <2>. QED
    BY <1>1, <2>2 DEF IInv, Shape
\* the block pushed had no entry, those on the stack have one
<1>9. StackSound'
  <2>1. \A i \in 1..Len(condBranch) : condBranch[i] # bb
    BY <1>1 DEF IInv, StackSound
  <2>2. \A i \in 1..Len(condBranch') : i \in 1..Len(condBranch) \/ i = Len(condBranch')
    BY <1>2, <1>5
  <2>3. ASSUME NEW i \in 1..Len(condBranch')
        PROVE  /\ condBranch'[i] \in DOMAIN serializedCode'
               /\ IsConditional(g, condBranch'[i]) /\ condBranch'[i] \notin DOMAIN g.header
               /\ \A j \in 1..Len(condBranch') : condBranch'[i] = condBranch'[j] => i = j
    <3>1. CASE i \in 1..Len(condBranch)
      BY <1>4, <1>5, <2>1, <2>2, <3>1 DEF IInv, StackSound, Serialized
    <3>2. CASE i = Len(condBranch')
      BY <1>1, <1>4, <1>5, <2>1, <2>2, <3>2
    <3>. QED
      BY <2>2, <3>1, <3>2
  <2>. QED
    BY <1>1, <2>3 DEF StackSound, Serialized, IsConditional
<1>. QED
  BY <1>7, <1>8, <1>9 DEF IInv
-----------------------------------------------------------------------------
(* Steps that leave the map and the stack alone.                            *)

\* A block the walk is called on may be left when it is covered by itself.
LEMMA SameEntries ==
  ASSUME IInv, UNCHANGED <<g, serializedCode, condBranch>>,
         pc # "crashed", pc' # "visit",
         pc = "visit" => Serialized(bb) \/ g.succ[bb] = <<>>
  PROVE  Dominated' /\ StackSound' /\ SidesPending' /\ TargetsCovered'
<1>1. \A b : Covered(b) => Covered(b)'
  BY DEF Covered, Serialized
<1>2. Dominated' /\ StackSound'
  BY DEF IInv, Dominated, StackSound, Serialized, IsConditional
<1>3. SidesPending'
  <2>1. g.entry' = g.entry /\ \A b : SuccSet(g, b)' = SuccSet(g, b)
    BY DEF SuccSet
  <2>2. Covered(g.entry)'
    BY <1>1, <2>1 DEF IInv, SidesPending
  <2>. QED
    BY <1>1, <2>1, <2>2 DEF IInv, SidesPending
<1>4. TargetsCovered'
  BY <1>1 DEF IInv, TargetsCovered, Targets
<1>. QED
  BY <1>2, <1>3, <1>4

LEMMA VisitOtherStep == ASSUME IInv, VisitOther PROVE IInv'
<1>1. /\ pc = "visit" /\ g.succ[bb] = <<>> /\ ~Returns(bb) /\ pc' = "done"
      /\ UNCHANGED <<g, bb, serializedCode, condBranch, cur, code>>
  BY DEF VisitOther
<1>2. Dominated' /\ StackSound' /\ SidesPending' /\ TargetsCovered'
  BY <1>1, SameEntries
<1>3. Shape' /\ Positions'
  BY <1>1 DEF IInv, Shape, TypeOK, Positions
<1>4. bb \in Exits(g) /\ bb \notin g.ret
  BY <1>1 DEF IInv, Shape, TypeOK, Exits, Returns
<1>5. NothingLeftOver'
  BY <1>1, <1>4 DEF NothingLeftOver, Exits
<1>. QED
  BY <1>2, <1>3, <1>5 DEF IInv

LEMMA VisitJoinedStep == ASSUME IInv, VisitJoined PROVE IInv'
<1>1. /\ pc = "visit" /\ (Serialized(bb) \/ Returns(bb))
      /\ \/ condBranch = <<>> /\ pc' = "done"
         \/ condBranch # <<>> /\ pc' = "unwind"
      /\ UNCHANGED <<g, bb, serializedCode, condBranch, cur, code>>
  BY DEF VisitJoined, Joined
<1>2. Serialized(bb) \/ g.succ[bb] = <<>>
  BY <1>1, FunctionIs DEF IInv, WellFormed, Returns
<1>3. Dominated' /\ StackSound' /\ SidesPending' /\ TargetsCovered'
  BY <1>1, <1>2, SameEntries
<1>4. Shape' /\ Positions' /\ NothingLeftOver'
  BY <1>1 DEF IInv, Shape, TypeOK, Positions, NothingLeftOver
<1>. QED
  BY <1>3, <1>4 DEF IInv

LEMMA UnwindNoPostDominatorStep == ASSUME IInv, UnwindNoPostDominator PROVE IInv'
<1>1. /\ pc = "unwind" /\ pc' = "crashed"
      /\ UNCHANGED <<g, bb, serializedCode, condBranch, cur, code>>
  BY DEF UnwindNoPostDominator
<1>2. Dominated' /\ StackSound' /\ SidesPending' /\ TargetsCovered'
  BY <1>1, SameEntries
<1>3. Shape' /\ Positions' /\ NothingLeftOver'
  BY <1>1 DEF IInv, Shape, TypeOK, Positions, NothingLeftOver
<1>. QED
  BY <1>2, <1>3 DEF IInv

LEMMA UnwindSearchStep == ASSUME IInv, UnwindSearch PROVE IInv'
<1>1. /\ pc = "unwind" /\ pc' = "search" /\ cur' = lastBranch
      /\ UNCHANGED <<g, bb, serializedCode, condBranch, code>>
  BY DEF UnwindSearch
<1>2. Dominated' /\ StackSound' /\ SidesPending' /\ TargetsCovered'
  BY <1>1, SameEntries
<1>3. condBranch # <<>> /\ Len(condBranch) \in 1..Len(condBranch)
  BY <1>1 DEF IInv, Positions, Shape, TypeOK
<1>4. lastBranch \in DOMAIN serializedCode
  BY <1>3 DEF IInv, StackSound, Serialized, lastBranch
<1>5. Shape' /\ Positions' /\ NothingLeftOver'
  BY <1>1, <1>3, <1>4 DEF IInv, Shape, TypeOK, Positions, NothingLeftOver
<1>. QED
  BY <1>2, <1>5 DEF IInv

LEMMA SearchFollowStep == ASSUME IInv, SearchFollow PROVE IInv'
<1>1. /\ pc = "search"
      /\ \/ /\ serializedCode[cur].then \in DOMAIN serializedCode
            /\ cur' = serializedCode[cur].then /\ pc' = "search"
         \/ cur' = cur /\ pc' = "crashed"
      /\ UNCHANGED <<g, bb, serializedCode, condBranch, code>>
  BY DEF SearchFollow, Serialized
<1>2. Dominated' /\ StackSound' /\ SidesPending' /\ TargetsCovered'
  BY <1>1, SameEntries
<1>3. Positions' /\ NothingLeftOver'
  BY <1>1 DEF IInv, Positions, NothingLeftOver
<1>4. Shape'
  BY <1>1 DEF IInv, Shape, TypeOK
<1>. QED
  BY <1>2, <1>3, <1>4 DEF IInv

LEMMA ReplaceTerminatorsStep == ASSUME IInv, ReplaceTerminators PROVE IInv'
<1>1. /\ pc = "done" /\ pc' = "replaced"
      /\ code' = [b \in g.block |-> IF Serialized(b) THEN serializedCode[b] ELSE code[b]]
      /\ UNCHANGED <<g, bb, serializedCode, condBranch, cur>>
  BY DEF ReplaceTerminators
<1>2. Dominated' /\ StackSound' /\ SidesPending' /\ TargetsCovered'
  BY <1>1, SameEntries
<1>3. Positions' /\ NothingLeftOver'
  BY <1>1 DEF IInv, Positions, NothingLeftOver, Exits
<1>4. Shape'
  <2>1. code' \in [g.block -> [cond : g.block \cup {Null}, then : g.block \cup {Null},
                               els  : g.block \cup {Null}]]
    BY <1>1 DEF IInv, Shape, TypeOK, Serialized
  <2>. QED
    BY <1>1, <2>1 DEF IInv, Shape, TypeOK
<1>. QED
  BY <1>2, <1>3, <1>4 DEF IInv

LEMMA StutteringStep == ASSUME IInv, UNCHANGED vars PROVE IInv'
BY DEF IInv, vars, Shape, TypeOK, Positions, Dominated, StackSound, SidesPending,
       TargetsCovered, NothingLeftOver, Covered, Serialized, Targets, SuccSet,
       IsConditional, Exits

-----------------------------------------------------------------------------
(* Steps that take a branch off the stack.                                  *)

\* Its then side is covered by then, or is what the walk is called on next;
\* the entries of other blocks are not touched but for targets that are.
LEMMA Pop ==
  ASSUME IInv, pc \in {"unwind", "search"}, PopBranch, UNCHANGED g,
         DOMAIN serializedCode' = DOMAIN serializedCode,
         \A s : s = thenSide => Covered(s)',
         \A b \in DOMAIN serializedCode : \A s \in Targets(serializedCode'[b]) :
            s = thenSide \/ s \in UNION {Targets(serializedCode[x]) : x \in DOMAIN serializedCode},
         pc' = "visit" => bb' = thenSide
  PROVE  Dominated' /\ StackSound' /\ SidesPending' /\ TargetsCovered'
<1>1. condBranch # <<>> /\ pc # "crashed" /\ pc # "visit"
  BY DEF IInv, Positions
<1>2. \A b : Covered(b) => Covered(b)'
  BY <1>1 DEF Covered, Serialized
<1>3. /\ lastBranch \in DOMAIN serializedCode /\ lastBranch \in g.block
      /\ thenSide \in SuccSet(g, lastBranch)
      /\ Len(condBranch') = Len(condBranch) - 1
      /\ \A i \in 1..Len(condBranch') : condBranch'[i] = condBranch[i]
      /\ \A i \in 1..Len(condBranch) :
            i \in 1..Len(condBranch') \/ condBranch[i] = lastBranch
      /\ \A i \in 1..Len(condBranch') : i \in 1..Len(condBranch)
  <2>1. Len(condBranch) \in Nat
    BY DEF IInv, Shape, TypeOK
  <2>. QED
    BY <1>1, <2>1, TopIs DEF IInv
<1>4. Dominated'
  <2>1. g.dom[thenSide] \subseteq g.dom[lastBranch] \cup {thenSide}
    BY <1>3, FunctionIs DEF IInv, DominatorsFlow
  <2>2. g.dom[lastBranch] \subseteq DOMAIN serializedCode
    BY <1>3 DEF IInv, Dominated
  <2>. QED
    BY <2>1, <2>2 DEF IInv, Dominated
<1>5. StackSound'
  BY <1>3 DEF IInv, StackSound, Serialized, IsConditional
<1>6. SidesPending'
  <2>1. g.entry' = g.entry /\ \A b : SuccSet(g, b)' = SuccSet(g, b)
    BY DEF SuccSet
  <2>2. Covered(g.entry)'
    BY <1>1, <1>2, <2>1 DEF IInv, SidesPending
  <2>3. ASSUME NEW b \in DOMAIN serializedCode, NEW s \in SuccSet(g, b)
        PROVE  \/ Covered(s)'
               \/ \E i \in 1..Len(condBranch') : condBranch'[i] = b /\ s = g.succ[b][1]
    <3>1. CASE Covered(s)
      BY <1>2, <3>1
    <3>2. CASE \E i \in 1..Len(condBranch) : condBranch[i] = b /\ s = g.succ[b][1]
      <4>1. PICK i \in 1..Len(condBranch) : condBranch[i] = b /\ s = g.succ[b][1]
        BY <3>2
      <4>2. CASE i \in 1..Len(condBranch')
        BY <1>3, <4>1, <4>2
      <4>3. CASE condBranch[i] = lastBranch
        BY <4>1, <4>3 DEF thenSide
      <4>. QED
        BY <1>3, <4>2, <4>3
    <3>. QED
      BY <1>1, <3>1, <3>2 DEF IInv, SidesPending
  <2>. QED
    BY <2>1, <2>2, <2>3 DEF SidesPending
<1>7. TargetsCovered'
  <2>1. ASSUME NEW b \in DOMAIN serializedCode, NEW s \in Targets(serializedCode'[b])
        PROVE  Covered(s)'
    BY <1>1, <1>2 DEF IInv, TargetsCovered
  <2>. QED
    BY <2>1 DEF TargetsCovered, Targets
<1>. QED
  BY <1>4, <1>5, <1>6, <1>7
LEMMA UnwindEmptyThenStep == ASSUME IInv, UnwindEmptyThen PROVE IInv'
<1>1. /\ pc = "unwind" /\ Joined(postDom) /\ thenSide = postDom
      /\ PopBranch
      /\ \/ condBranch' = <<>> /\ pc' = "done"
         \/ condBranch' # <<>> /\ pc' = "unwind"
      /\ UNCHANGED <<g, bb, serializedCode, cur, code>>
  BY DEF UnwindEmptyThen
<1>2. \A s : s = thenSide => Covered(s)'
  BY <1>1, FunctionIs DEF IInv, Joined, Returns, WellFormed, Covered, Serialized
<1>3. \A b \in DOMAIN serializedCode : \A s \in Targets(serializedCode'[b]) :
        s \in UNION {Targets(serializedCode[x]) : x \in DOMAIN serializedCode}
  BY <1>1
<1>4. Dominated' /\ StackSound' /\ SidesPending' /\ TargetsCovered'
  BY <1>1, <1>2, <1>3, Pop
<1>5. condBranch # <<>>
  BY <1>1 DEF IInv, Positions
<1>6. condBranch' \in Seq(g.block)
  BY <1>1, <1>5, TopIs DEF IInv
<1>7. Shape' /\ Positions' /\ NothingLeftOver'
  BY <1>1, <1>6 DEF IInv, Shape, TypeOK, Positions, NothingLeftOver
<1>. QED
  BY <1>4, <1>7 DEF IInv

LEMMA UnwindRedirectStep == ASSUME IInv, UnwindRedirect PROVE IInv'
<1>1. /\ pc = "unwind" /\ PopBranch /\ pc' = "visit" /\ bb' = thenSide
      /\ UNCHANGED <<g, cur, code>>
      /\ \/ UNCHANGED serializedCode
         \/ \E p \in DOMAIN serializedCode :
              serializedCode' = Record(p, newBranch(Null, thenSide, Null))
  BY DEF UnwindRedirect, Call, EntriesInto
<1>2. condBranch # <<>>
  BY <1>1 DEF IInv, Positions
<1>3. condBranch' \in Seq(g.block) /\ thenSide \in g.block /\ thenSide \in SuccSet(g, lastBranch)
      /\ lastBranch \in DOMAIN serializedCode
  BY <1>1, <1>2, TopIs DEF IInv
<1>4. \A s : s = thenSide => Covered(s)'
  BY <1>1 DEF Covered
<1>5. /\ DOMAIN serializedCode' = DOMAIN serializedCode
      /\ MapType(serializedCode')
      /\ \A b \in DOMAIN serializedCode : \A s \in Targets(serializedCode'[b]) :
           s = thenSide \/ s \in UNION {Targets(serializedCode[x]) : x \in DOMAIN serializedCode}
  <2>1. CASE UNCHANGED serializedCode
    BY <2>1 DEF IInv, Shape, TypeOK, MapType
  <2>2. CASE \E p \in DOMAIN serializedCode :
               serializedCode' = Record(p, newBranch(Null, thenSide, Null))
    <3>1. PICK p \in DOMAIN serializedCode :
            serializedCode' = Record(p, newBranch(Null, thenSide, Null))
      BY <2>2
    <3>2. DOMAIN serializedCode' = DOMAIN serializedCode
      BY <3>1, RecordIs
    <3>3. MapType(serializedCode')
      BY <1>3, <3>1, RecordType, BlocksOnly DEF IInv
    <3>4. \A b \in DOMAIN serializedCode \ {p} : serializedCode'[b] = serializedCode[b]
      BY <3>1 DEF Record
    <3>5. serializedCode'[p] = newBranch(Null, thenSide, Null)
      BY <3>1, RecordIs
    <3>6. Targets(serializedCode'[p]) \subseteq {thenSide}
      BY <3>5, TargetsAre
    <3>. QED
      BY <3>2, <3>3, <3>4, <3>6
  <2>. QED
    BY <1>1, <2>1, <2>2
<1>6. Dominated' /\ StackSound' /\ SidesPending' /\ TargetsCovered'
  BY <1>1, <1>4, <1>5, Pop
<1>7. Shape' /\ Positions' /\ NothingLeftOver'
  BY <1>1, <1>3, <1>5 DEF IInv, Shape, TypeOK, MapType, Positions, NothingLeftOver
<1>. QED
  BY <1>6, <1>7 DEF IInv

LEMMA SearchSplitStep == ASSUME IInv, SearchSplit PROVE IInv'
<1>1. /\ pc = "search" /\ PopBranch /\ pc' = "visit" /\ bb' = thenSide
      /\ UNCHANGED <<g, cur, code>>
      /\ serializedCode' = Record(cur, newBranch(lastBranch, thenSide, serializedCode[cur].then))
  BY DEF SearchSplit, Call
<1>2. condBranch # <<>> /\ cur \in DOMAIN serializedCode
  BY <1>1 DEF IInv, Positions
<1>3. condBranch' \in Seq(g.block) /\ thenSide \in g.block /\ lastBranch \in g.block
  BY <1>1, <1>2, TopIs DEF IInv
<1>4. serializedCode[cur].then \in g.block
  BY <1>2 DEF IInv, Shape, TypeOK
<1>5. serializedCode[cur].then \in Targets(serializedCode[cur])
  BY <1>4, FunctionIs DEF IInv, Targets
<1>6. \A s : s = thenSide => Covered(s)'
  BY <1>1 DEF Covered
<1>7. DOMAIN serializedCode' = DOMAIN serializedCode
  BY <1>1, <1>2, RecordIs
<1>8. MapType(serializedCode')
  BY <1>1, <1>2, <1>3, <1>4, RecordType, BlocksOnly DEF IInv
<1>9. \A b \in DOMAIN serializedCode : \A s \in Targets(serializedCode'[b]) :
        s = thenSide \/ s \in UNION {Targets(serializedCode[x]) : x \in DOMAIN serializedCode}
  <2>1. \A b \in DOMAIN serializedCode \ {cur} : serializedCode'[b] = serializedCode[b]
    BY <1>1 DEF Record
  <2>2. serializedCode'[cur] = newBranch(lastBranch, thenSide, serializedCode[cur].then)
    BY <1>1, RecordIs
  <2>3. Targets(serializedCode'[cur]) \subseteq {thenSide, serializedCode[cur].then}
    BY <2>2, TargetsAre
  <2>. QED
    BY <1>2, <1>5, <2>1, <2>3
<1>10. Dominated' /\ StackSound' /\ SidesPending' /\ TargetsCovered'
  BY <1>1, <1>6, <1>7, <1>9, Pop
<1>11. Shape' /\ Positions' /\ NothingLeftOver'
  BY <1>1, <1>3, <1>8 DEF IInv, Shape, TypeOK, MapType, Positions, NothingLeftOver
<1>. QED
  BY <1>10, <1>11 DEF IInv

-----------------------------------------------------------------------------
(* The invariant holds of the first state and is kept by every step.        *)

\* The first state.
LEMMA InitIInv == Init => IInv
<1>. SUFFICES ASSUME Init PROVE IInv
  OBVIOUS
<1>1. /\ g \in Functions /\ pc = "visit" /\ bb = g.entry /\ cur = g.entry
      /\ DOMAIN serializedCode = {} /\ condBranch = <<>> /\ Len(condBranch) = 0
      /\ serializedCode = [b \in {} |-> newBranch(Null, Null, Null)]
      /\ code = [b \in g.block |-> OriginalBranch(g, b)]
  BY DEF Init
<1>2. WellFormed(g) /\ DominatorsFlow(g) /\ Null \notin g.block
  BY <1>1, FunctionsAssumption, NullAssumption
<1>3. g.entry \in g.block
  BY <1>2 DEF WellFormed
<1>4. code \in [g.block -> [cond : g.block \cup {Null}, then : g.block \cup {Null},
                            els  : g.block \cup {Null}]]
  <2>1. ASSUME NEW b \in g.block
        PROVE  OriginalBranch(g, b) \in [cond : g.block \cup {Null},
                                         then : g.block \cup {Null},
                                         els  : g.block \cup {Null}]
    BY <1>2, Successors DEF OriginalBranch, newBranch
  <2>. QED
    BY <1>1, <2>1
<1>5. Shape
  BY <1>1, <1>3, <1>4 DEF Shape, TypeOK
<1>6. Dominated
  BY <1>1, <1>2 DEF Dominated, DominatorsFlow
<1>7. Covered(g.entry)
  BY <1>1 DEF Covered
<1>8. Positions /\ StackSound /\ SidesPending /\ TargetsCovered /\ NothingLeftOver
  BY <1>1, <1>7 DEF Positions, StackSound, SidesPending, TargetsCovered, NothingLeftOver
<1>. QED
  BY <1>5, <1>6, <1>8 DEF IInv

\* Every step.
LEMMA NextIInv == IInv /\ [Next]_vars => IInv'
<1>. SUFFICES ASSUME IInv, [Next]_vars PROVE IInv'
  OBVIOUS
<1>1. CASE Visit
  BY <1>1, VisitUnconditionalStep, VisitLatchStep, VisitConditionalStep,
     VisitOtherStep, VisitJoinedStep DEF Visit
<1>2. CASE Unwind
  BY <1>2, UnwindNoPostDominatorStep, UnwindEmptyThenStep, UnwindRedirectStep,
     UnwindSearchStep DEF Unwind
<1>3. CASE Search
  BY <1>3, SearchFollowStep, SearchSplitStep DEF Search
<1>4. CASE ReplaceTerminators
  BY <1>4, ReplaceTerminatorsStep
<1>5. CASE Halt \/ UNCHANGED vars
  BY <1>5, StutteringStep DEF Halt
<1>. QED
  BY <1>1, <1>2, <1>3, <1>4, <1>5 DEF Next

\* Hence every state.
LEMMA SpecIInv == Spec => []IInv
BY InitIInv, NextIInv, PTL DEF Spec

-----------------------------------------------------------------------------
(* The theorems. They hold of every function that satisfies the assumptions *)
(* on the analyses: reducible or not, with any number of exits.             *)

\* The walk's map, stack and position stay well typed: in particular the walk
\* is never called on a null block (recursiveSerialization, lines 448-572).
THEOREM TypeCorrect == Spec => []TypeOK
<1>1. IInv => TypeOK
  BY DEF IInv, Shape
<1>. QED
  BY <1>1, SpecIInv, PTL

\* No side of a conditional branch is forgotten: at every moment each
\* successor of a recorded block is recorded, an exit, being visited, or the
\* then side of a branch still on the stack.
THEOREM NoSideForgotten == Spec => []NothingForgotten
<1>1. IInv => NothingForgotten
  BY DEF IInv, NothingForgotten
<1>. QED
  BY <1>1, SpecIInv, PTL

\* The branches the pass writes lead to blocks whose terminators it replaces
\* too, or to exits: no path of the new function meets an old branch.
THEOREM NoOldBranchAhead == Spec => []TargetsCovered
<1>1. IInv => TargetsCovered
  BY DEF IInv
<1>. QED
  BY <1>1, SpecIInv, PTL

\* A branch is on the stack at most once, recorded, and is no loop's own.
THEOREM StackIsSound == Spec => []StackSound
<1>1. IInv => StackSound
  BY DEF IInv
<1>. QED
  BY <1>1, SpecIInv, PTL

-----------------------------------------------------------------------------
(* Lines of blocks.                                                         *)

\* The blocks of X, each followed by its link, are one line from the entry to
\* the end r, on which a block comes after those it came after in f; pos
\* numbers them.
Line(f, r, X, link, pos) ==
  /\ \A x \in X : x \in f.block
  /\ f.entry \in X /\ r \in X
  /\ pos \in [X -> Nat] /\ pos[f.entry] = 0
  /\ \A x \in X : x # r => link[x] \in X /\ pos[link[x]] = pos[x] + 1
  /\ \A x \in X : x # f.entry => \E p \in X : p # r /\ link[p] = x
  /\ \A x, y \in X : pos[x] = pos[y] => x = y
  /\ \A x, y \in X : y \in Later(f, x) /\ y # x => pos[x] < pos[y]

\* Y is X and s; on it s comes between p and what followed p.
Inserted(r, X, link, p, s, Y, link2) ==
  /\ p \in X /\ p # r /\ s \notin X
  /\ \A x : x \in Y <=> x \in X \/ x = s
  /\ link2[p] = s /\ link2[s] = link[p]
  /\ \A x \in X : x # p /\ x # r => link2[x] = link[x]

\* A line with a block inserted is a line, if the block belongs there.
LEMMA Insert ==
  ASSUME NEW f, NEW r, NEW X, NEW link, NEW pos, Line(f, r, X, link, pos),
         NEW p, NEW s \in f.block, NEW Y, NEW link2, Inserted(r, X, link, p, s, Y, link2),
         \A x \in X : s \in Later(f, x) => pos[x] < pos[link[p]],
         \A y \in X : y \in Later(f, s) => pos[link[p]] <= pos[y]
  PROVE  \E pos2 : Line(f, r, Y, link2, pos2)
<1> DEFINE J == link[p]
           pos2 == [x \in Y |-> IF x = s THEN pos[J]
                                ELSE IF pos[J] <= pos[x] THEN pos[x] + 1 ELSE pos[x]]
<1>1. /\ p \in X /\ p # r /\ s \notin X /\ f.entry \in X /\ r \in X
      /\ \A x : x \in Y <=> x \in X \/ x = s
      /\ J \in X /\ pos[J] = pos[p] + 1 /\ pos[p] \in Nat /\ pos[J] \in Nat
      /\ \A x \in X : x \in f.block /\ pos[x] \in Nat
  BY DEF Line, Inserted
<1>2. /\ \A x \in X : x # r => link[x] \in X /\ pos[link[x]] = pos[x] + 1
      /\ \A x, y \in X : pos[x] = pos[y] => x = y
      /\ pos[f.entry] = 0
  BY DEF Line
<1>3. /\ link2[p] = s /\ link2[s] = J
      /\ \A x \in X : x # p /\ x # r => link2[x] = link[x]
  BY DEF Inserted
<1>4. /\ pos2[s] = pos[J]
      /\ \A x \in X : pos[J] <= pos[x] => pos2[x] = pos[x] + 1
      /\ \A x \in X : pos[x] < pos[J] => pos2[x] = pos[x]
      /\ pos2 \in [Y -> Nat]
  BY <1>1
<1> HIDE DEF pos2, J
<1>5. pos2[f.entry] = 0
  BY <1>1, <1>2, <1>4
<1>6. ASSUME NEW x \in Y, x # r PROVE link2[x] \in Y /\ pos2[link2[x]] = pos2[x] + 1
  <2>1. CASE x = s
    BY <1>1, <1>3, <1>4, <2>1
  <2>2. CASE x = p
    BY <1>1, <1>3, <1>4, <2>2
  <2>3. CASE x # s /\ x # p
    <3>1. x \in X /\ link2[x] = link[x] /\ link[x] \in X /\ pos[link[x]] = pos[x] + 1
          /\ pos[x] # pos[p] /\ pos[x] \in Nat
      BY <1>1, <1>2, <1>3, <1>6, <2>3
    <3> QED
      BY <1>1, <1>4, <3>1
  <2> QED
    BY <2>1, <2>2, <2>3
<1>7. ASSUME NEW y \in Y, y # f.entry PROVE \E q \in Y : q # r /\ link2[q] = y
  <2>1. CASE y = s
    BY <1>1, <1>3, <2>1
  <2>2. CASE y = J
    BY <1>1, <1>3, <2>2
  <2>3. CASE y # s /\ y # J
    <3>1. PICK q \in X : q # r /\ link[q] = y
      BY <1>1, <1>7, <2>3 DEF Line
    <3>2. q # p
      BY <2>3, <3>1 DEF J
    <3> QED
      BY <1>1, <1>3, <3>1, <3>2
  <2> QED
    BY <2>1, <2>2, <2>3
<1>8. ASSUME NEW x \in Y, NEW y \in Y, pos2[x] = pos2[y] PROVE x = y
  <2>1. CASE x = s /\ y # s
    BY <1>1, <1>4, <1>8, <2>1
  <2>2. CASE x # s /\ y = s
    BY <1>1, <1>4, <1>8, <2>2
  <2>3. CASE x # s /\ y # s
    <3>1. x \in X /\ y \in X /\ pos[x] \in Nat /\ pos[y] \in Nat
      BY <1>1, <2>3
    <3>2. pos[x] = pos[y]
      BY <1>1, <1>4, <1>8, <3>1
    <3> QED
      BY <1>2, <3>1, <3>2
  <2> QED
    BY <2>1, <2>2, <2>3
<1>9. ASSUME NEW x \in Y, NEW y \in Y, y \in Later(f, x), y # x PROVE pos2[x] < pos2[y]
  <2>1. CASE x = s
    <3>1. y \in X /\ pos[J] <= pos[y] /\ pos[y] \in Nat
      BY <1>1, <1>9, <2>1 DEF J
    <3> QED
      BY <1>1, <1>4, <2>1, <3>1
  <2>2. CASE y = s
    <3>1. x \in X /\ pos[x] < pos[J] /\ pos[x] \in Nat
      BY <1>1, <1>9, <2>2 DEF J
    <3> QED
      BY <1>1, <1>4, <2>2, <3>1
  <2>3. CASE x # s /\ y # s
    <3>1. x \in X /\ y \in X /\ pos[x] \in Nat /\ pos[y] \in Nat
      BY <1>1, <2>3
    <3>2. pos[x] < pos[y]
      BY <1>9, <3>1 DEF Line
    <3> QED
      BY <1>1, <1>4, <3>1, <3>2
  <2> QED
    BY <2>1, <2>2, <2>3
<1>10. f.entry \in Y /\ r \in Y /\ \A x \in Y : x \in f.block
  BY <1>1
<1>11. Line(f, r, Y, link2, pos2)
  BY <1>4, <1>5, <1>6, <1>7, <1>8, <1>9, <1>10 DEF Line
<1> QED
  BY <1>11

\* Only the links of the blocks on the line matter.
LEMMA SameLine ==
  ASSUME NEW f, NEW r, NEW X, NEW link, NEW pos, Line(f, r, X, link, pos),
         NEW Y, \A x : x \in Y <=> x \in X,
         NEW link2, \A x \in X : x # r => link2[x] = link[x]
  PROVE  Line(f, r, Y, link2, pos)
<1>1. Y = X
  OBVIOUS
<1> QED
  BY <1>1 DEF Line

\* The walk is at b, in a part T of the function from which it will come to
\* the block J. D are the blocks recorded.
Walking(f, r, D, b, T, J) ==
  /\ T \in SUBSET f.block /\ J \in f.block
  /\ b \in T \/ b = J
  /\ b \in D \/ b = r => b = J
  /\ J \notin T /\ r \notin T
  /\ J \in D \/ J = r
  /\ \A x \in T : \A s \in Ahead(f, x) : s \in T \/ s = J
  /\ \A x \in T : x \in D => b \in Later(f, x)
  /\ \A x \in f.block : \A y \in T :
       x \notin T /\ y \in Later(f, x) => /\ J \in Later(f, x)
                                          /\ \A z \in T : z \in Later(f, x)

\* Recording b, the walk goes forward to s, which joins the line after b.
Advanced(r, D, b, J, X, link, E, s, Y, link2) ==
  /\ b \notin D /\ b # r /\ r \notin D
  /\ \A x : x \in X <=> x \in D \/ x = r \/ x = b
  /\ \A x : x \in E <=> x \in D \/ x = b
  /\ \A x : x \in Y <=> x \in X \/ x = s
  /\ link[b] = J /\ link2[b] = s
  /\ s \notin X => link2[s] = J
  /\ \A x \in X : x # b /\ x # r => link2[x] = link[x]

\* Recording a block keeps the line and the walk's place.
LEMMA LineGrows ==
  ASSUME NEW f, NEW r, Fit(f, r), NEW D, NEW b \in f.block, NEW T, NEW J,
         Walking(f, r, D, b, T, J), NEW s \in Ahead(f, b),
         NEW X, NEW link, NEW pos, Line(f, r, X, link, pos),
         NEW E, NEW Y, NEW link2, Advanced(r, D, b, J, X, link, E, s, Y, link2)
  PROVE  /\ Walking(f, r, E, s, T, J)
         /\ \E pos2 : Line(f, r, Y, link2, pos2)
<1>0. /\ b \notin D /\ b # r /\ r \notin D
      /\ \A x : x \in X <=> x \in D \/ x = r \/ x = b
      /\ \A x : x \in E <=> x \in D \/ x = b
      /\ \A x : x \in Y <=> x \in X \/ x = s
      /\ link[b] = J /\ link2[b] = s
      /\ s \notin X => link2[s] = J
      /\ \A x \in X : x # b /\ x # r => link2[x] = link[x]
  BY DEF Advanced
<1>1. /\ T \in SUBSET f.block /\ J \in f.block /\ J \notin T /\ r \notin T
      /\ J \in D \/ J = r
      /\ \A x \in T : \A z \in Ahead(f, x) : z \in T \/ z = J
      /\ \A x \in T : x \in D => b \in Later(f, x)
  BY <1>0 DEF Walking
<1>2. b \in T
  BY <1>0, <1>1 DEF Walking
<1>3. /\ Graph(f) /\ s \in f.block /\ s # b /\ b \notin Later(f, s)
      /\ \A x \in f.block : /\ x \in Later(f, x) /\ Later(f, x) \subseteq f.block
                            /\ \A y \in Later(f, x) : \A z \in Ahead(f, y) : z \in Later(f, x)
  <2>1. Graph(f)
    BY <1>0, FitIs
  <2>2. \A x \in f.block : /\ x \in Later(f, x) /\ Later(f, x) \subseteq f.block
                           /\ Onwards(f, Later(f, x))
    BY <1>0, <2>1, LaterIs
  <2>3. s \in f.block
    BY <1>0, <2>1 DEF Ahead, Graph
  <2>4. b \notin Later(f, s)
    BY <1>0, NoCycle
  <2> QED
    BY <1>0, <2>1, <2>2, <2>3, <2>4 DEF Onwards
<1>4. s \in T \/ s = J
  BY <1>0, <1>1, <1>2
<1>5. s \in D \/ s = r => s = J
  BY <1>0, <1>1, <1>3, <1>4
<1>6. \A x \in T : x \in E => s \in Later(f, x)
  BY <1>0, <1>1, <1>2, <1>3
<1>7. Walking(f, r, E, s, T, J)
  BY <1>0, <1>1, <1>3, <1>4, <1>5, <1>6 DEF Walking
<1>8. CASE s \in X
  <2>1. s = J /\ \A x : x \in Y <=> x \in X
    BY <1>0, <1>3, <1>5, <1>8
  <2>2. \A x \in X : x # r => link2[x] = link[x]
    BY <1>0, <2>1
  <2>3. Line(f, r, Y, link2, pos)
    BY <1>0, <2>1, <2>2, SameLine
  <2> QED
    BY <1>0, <1>7, <2>3
<1>9. CASE s \notin X
  <2>1. s \in T
    BY <1>0, <1>1, <1>4, <1>9
  <2>2. Inserted(r, X, link, b, s, Y, link2)
    BY <1>0, <1>9 DEF Inserted
  <2>3. /\ pos[J] = pos[b] + 1 /\ \A x \in X : pos[x] \in Nat
        /\ \A x, y \in X : y \in Later(f, x) /\ y # x => pos[x] < pos[y]
        /\ \A x \in X : x \in f.block
        /\ b \in X /\ J \in X
    BY <1>0, <1>1 DEF Line
  <2>4. b \notin Later(f, J)
    <3> SUFFICES ASSUME b \in Later(f, J) PROVE FALSE
      OBVIOUS
    <3>1. pos[J] < pos[b]
      BY <1>0, <1>1, <1>2, <2>3
    <3> QED
      BY <1>0, <2>3, <3>1
  <2>5. ASSUME NEW x \in X, s \in Later(f, x) PROVE pos[x] < pos[J]
    <3>1. CASE x \in T
      <4>1. x = b \/ b \in Later(f, x)
        BY <1>0, <1>1, <3>1
      <4>2. x = b \/ pos[x] < pos[b]
        BY <1>0, <2>3, <4>1
      <4> QED
        BY <1>0, <2>3, <4>2
    <3>2. CASE x \notin T
      <4>1. J \in Later(f, x) /\ b \in Later(f, x)
        BY <1>0, <1>2, <2>1, <2>3, <2>5, <3>2 DEF Walking
      <4>2. x # J
        BY <1>0, <2>4, <4>1
      <4> QED
        BY <1>0, <2>3, <4>1, <4>2
    <3> QED
      BY <1>0, <3>1, <3>2
  <2>6. ASSUME NEW y \in X, y \in Later(f, s) PROVE pos[J] <= pos[y]
    <3> DEFINE U == {z \in f.block : z \in T \/ z \in Later(f, J)}
    <3>1. s \in U
      BY <1>0, <1>3, <2>1
    <3>2. ASSUME NEW z \in U, NEW w \in Ahead(f, z) PROVE w \in U
      <4>1. w \in f.block
        BY <1>0, <1>3 DEF Ahead, Graph
      <4> QED
        BY <1>0, <1>1, <1>3, <4>1
    <3>3. Later(f, s) \subseteq U
      <4> HIDE DEF U
      <4> QED
        BY <1>0, <1>3, <3>1, <3>2, LaterLeast
    <3>4. y \notin T
      <4> SUFFICES ASSUME y \in T PROVE FALSE
        OBVIOUS
      <4>1. y = b \/ b \in Later(f, y)
        BY <1>0, <1>1
      <4>2. b \in Later(f, s)
        <5>1. Later(f, y) \subseteq Later(f, s)
          BY <1>0, <1>3, <2>6, LaterTransitive
        <5> QED
          BY <1>0, <2>6, <4>1, <5>1
      <4> QED
        BY <1>0, <1>3, <4>2
    <3>5. y \in Later(f, J)
      BY <1>0, <2>6, <3>3, <3>4
    <3>6. y = J \/ pos[J] < pos[y]
      BY <1>0, <2>3, <3>5
    <3> QED
      BY <1>0, <2>3, <3>6
  <2>7. \E pos2 : Line(f, r, Y, link2, pos2)
    BY <1>0, <1>3, <2>2, <2>5, <2>6, Insert
  <2> QED
    BY <1>0, <1>7, <2>7
<1> QED
  BY <1>0, <1>8, <1>9

\* The walk turns to the first block of the then side of b, which joins the
\* line before the join.
Turned(f, r, D, b, X, link, p, Y, link2) ==
  /\ \A x : x \in X <=> x \in D \/ x = r
  /\ f.ipd[b] \in X /\ b \in X
  /\ \A x \in SideAhead(f, b, 1) : x \notin X
  /\ p \in X /\ p # r /\ link[p] = f.ipd[b]
  /\ \A x : x \in Y <=> x \in X \/ x = f.succ[b][1]
  /\ link2[p] = f.succ[b][1] /\ link2[f.succ[b][1]] = f.ipd[b]
  /\ \A x \in X : x # p /\ x # r => link2[x] = link[x]

\* Taking up a then side keeps the line and gives the walk its new part.
LEMMA Turn ==
  ASSUME NEW f, NEW r, Fit(f, r), NEW b, Secret(f, b), f.succ[b][1] # f.ipd[b],
         NEW D, NEW X, NEW link, NEW pos, Line(f, r, X, link, pos),
         NEW p, NEW Y, NEW link2, Turned(f, r, D, b, X, link, p, Y, link2)
  PROVE  /\ Walking(f, r, D, f.succ[b][1], SideAhead(f, b, 1), f.ipd[b])
         /\ \E pos2 : Line(f, r, Y, link2, pos2)
<1> USE DEF Turned
<1>0. PICK t : t = f.succ[b][1]
  OBVIOUS
<1>1. PICK J : J = f.ipd[b]
  OBVIOUS
<1>2. PICK F : F = SideAhead(f, b, 1)
  OBVIOUS
<1>3. Graph(f) /\ t \in f.block /\ J \in f.block /\ b \in f.block /\ t # J /\ J # b
  BY <1>0, <1>1, SecretIs, FitIs
<1>4. /\ F \in SUBSET f.block /\ J \notin F /\ t \in F
      /\ \A x \in F : \A s \in Ahead(f, x) : s \in F \/ s = J
  BY <1>0, <1>1, <1>2, <1>3, SideIs DEF WithinSide
<1>5. /\ r \notin F
      /\ \A x \in F : \A y \in Later(f, x) : y \in F \/ y \in Later(f, J)
      /\ J \in Later(f, b) /\ \A x \in F : x \in Later(f, b)
  BY <1>1, <1>2, SideEnds
<1>6. \A x \in F : x \notin X
  BY <1>2
<1>7. ASSUME NEW x \in f.block, NEW y \in F, x \notin F, y \in Later(f, x)
      PROVE  /\ J \in Later(f, x) /\ b \in Later(f, x)
             /\ \A z \in F : z \in Later(f, x)
  <2>1. b \in Later(f, x)
    BY <1>2, <1>7, SideEntered
  <2>2. Later(f, b) \subseteq Later(f, x)
    BY <1>3, <2>1, LaterTransitive
  <2> QED
    BY <1>5, <2>1, <2>2
<1>8. \A x \in F : x \notin D
  BY <1>6
<1>9. J \in D \/ J = r
  BY <1>1
<1>10. t \notin D /\ t # r
  BY <1>4, <1>5, <1>8
<1>11. Walking(f, r, D, t, F, J)
  BY <1>3, <1>4, <1>5, <1>7, <1>8, <1>9, <1>10 DEF Walking
<1>12. Inserted(r, X, link, p, t, Y, link2)
  BY <1>0, <1>4, <1>6 DEF Inserted
<1>13. /\ \A x \in X : pos[x] \in Nat /\ x \in f.block
       /\ \A x, y \in X : y \in Later(f, x) /\ y # x => pos[x] < pos[y]
       /\ J \in X /\ link[p] = J
  BY <1>1 DEF Line
<1>14. ASSUME NEW x \in X, t \in Later(f, x) PROVE pos[x] < pos[J]
  <2>1. J \in Later(f, x) /\ b \in Later(f, x)
    BY <1>4, <1>6, <1>7, <1>13, <1>14
  <2>2. x # J
    BY <1>3, <1>5, <2>1, LaterOrder
  <2> QED
    BY <1>13, <2>1, <2>2
<1>15. ASSUME NEW y \in X, y \in Later(f, t) PROVE pos[J] <= pos[y]
  <2>1. y = J \/ pos[J] < pos[y]
    BY <1>4, <1>5, <1>6, <1>13, <1>15
  <2> QED
    BY <1>13, <2>1
<1>16. \E pos2 : Line(f, r, Y, link2, pos2)
  BY <1>3, <1>12, <1>13, <1>14, <1>15, Insert
<1> QED
  BY <1>0, <1>1, <1>2, <1>11, <1>16

-----------------------------------------------------------------------------
(* The line and the loops.                                                  *)

\* The line goes into a loop at its header only, and out of it at its latch
\* only; the latter is not asked of the block that is not recorded.
Uncrossed(f, r, D, X, link) ==
  \A l \in DOMAIN f.header : \A x \in X : x # r =>
    /\ link[x] \in LoopBlocks(f, l) /\ link[x] # f.header[l] => x \in LoopBlocks(f, l)
    /\ x \in LoopBlocks(f, l) /\ x # l /\ x \in D => link[x] \in LoopBlocks(f, l)

\* The part T of the function that ends at J is in the loops that J is in.
Inside(f, T, J) ==
  \A l \in DOMAIN f.header :
    J \in LoopBlocks(f, l) /\ J # f.header[l] => \A x \in T : x \in LoopBlocks(f, l)

\* Recording a block crosses into no loop.
LEMMA AdvanceUncrossed ==
  ASSUME NEW f, NEW r, Fit(f, r), NEW D, NEW b \in f.block, NEW T, NEW J,
         Walking(f, r, D, b, T, J), NEW s \in Ahead(f, b),
         NEW X, NEW link, Uncrossed(f, r, D, X, link), Inside(f, T, J),
         NEW E, NEW Y, NEW link2, Advanced(r, D, b, J, X, link, E, s, Y, link2)
  PROVE  Uncrossed(f, r, E, Y, link2)
<1> SUFFICES ASSUME NEW l \in DOMAIN f.header, NEW x \in Y, x # r
    PROVE  /\ link2[x] \in LoopBlocks(f, l) /\ link2[x] # f.header[l] => x \in LoopBlocks(f, l)
           /\ x \in LoopBlocks(f, l) /\ x # l /\ x \in E => link2[x] \in LoopBlocks(f, l)
  BY DEF Uncrossed
<1>1. /\ b \notin D /\ b # r
      /\ \A y : y \in X <=> y \in D \/ y = r \/ y = b
      /\ \A y : y \in E <=> y \in D \/ y = b
      /\ \A y : y \in Y <=> y \in X \/ y = s
      /\ link[b] = J /\ link2[b] = s
      /\ s \notin X => link2[s] = J
      /\ \A y \in X : y # b /\ y # r => link2[y] = link[y]
  BY DEF Advanced
<1>2. CASE x = b
  <2>1. s \in SuccSet(f, b) /\ l \in f.block
    BY LoopIs, LoopOrder, FitIs DEF Ahead, Fit, WellFormed
  <2>2. s \in LoopBlocks(f, l) /\ s # f.header[l] => b \in LoopBlocks(f, l)
    BY <2>1, LoopIs
  <2>3. b \in LoopBlocks(f, l) /\ b # l => s \in LoopBlocks(f, l)
    BY <2>1, LoopOrder
  <2> QED
    BY <1>1, <1>2, <2>2, <2>3
<1>3. CASE x = s /\ s \notin X
  <2>1. s \in T
    <3>1. s \in T \/ s = J
      BY <1>1 DEF Walking
    <3>2. J \in X
      BY <1>1 DEF Walking
    <3> QED
      BY <1>3, <3>1, <3>2
  <2>2. x \notin E /\ link2[x] = J
    BY <1>1, <1>3
  <2> QED
    BY <1>3, <2>1, <2>2 DEF Inside
<1>4. CASE x \in X /\ x # b
  <2>1. link2[x] = link[x] /\ (x \in E => x \in D)
    BY <1>1, <1>4
  <2> QED
    BY <1>4, <2>1 DEF Uncrossed
<1> QED
  BY <1>1, <1>2, <1>3, <1>4

\* Nor does taking up a then side, and the side is in its join's loops.
LEMMA TurnUncrossed ==
  ASSUME NEW f, NEW r, Fit(f, r), NEW b, Secret(f, b), f.succ[b][1] # f.ipd[b],
         NEW D, NEW X, NEW link, NEW pos, Line(f, r, X, link, pos), Uncrossed(f, r, D, X, link),
         NEW p \in D, NEW Y, NEW link2, Turned(f, r, D, b, X, link, p, Y, link2)
  PROVE  /\ Uncrossed(f, r, D, Y, link2)
         /\ Inside(f, SideAhead(f, b, 1), f.ipd[b])
<1>0. PICK t : t = f.succ[b][1]
  OBVIOUS
<1>1. PICK J : J = f.ipd[b]
  OBVIOUS
<1>2. PICK F : F = SideAhead(f, b, 1)
  OBVIOUS
<1>3. /\ Graph(f) /\ b \in f.block /\ J \in f.block /\ J # b /\ J \in Later(f, b)
      /\ t \in F /\ t \in SuccSet(f, b) /\ \A x \in F : x \notin X
  <2>1. /\ Graph(f) /\ b \in f.block /\ J \in f.block /\ J # b /\ t \in SuccSet(f, b)
    BY <1>0, <1>1, SecretIs, FitIs DEF Ahead
  <2>2. J \in Later(f, b)
    BY <1>1, SideEnds
  <2>3. t \in F
    BY <1>0, <1>2, SideIs DEF WithinSide
  <2> QED
    BY <1>2, <2>1, <2>2, <2>3 DEF Turned
<1>4. Inside(f, F, J)
  BY <1>1, <1>2, SideInLoop DEF Inside
<1>5. /\ J \in X /\ b \in X /\ p \in X /\ p # r /\ link[p] = J
      /\ \A x : x \in X <=> x \in D \/ x = r
      /\ \A x : x \in Y <=> x \in X \/ x = t
      /\ link2[p] = t /\ link2[t] = J
      /\ \A x \in X : x # p /\ x # r => link2[x] = link[x]
  BY <1>0, <1>1 DEF Turned
<1>6. ASSUME NEW l \in DOMAIN f.header, NEW x \in Y, x # r
      PROVE  /\ link2[x] \in LoopBlocks(f, l) /\ link2[x] # f.header[l] => x \in LoopBlocks(f, l)
             /\ x \in LoopBlocks(f, l) /\ x # l /\ x \in D => link2[x] \in LoopBlocks(f, l)
  <2> DEFINE L == LoopBlocks(f, l)
             h == f.header[l]
  <2>0. l \in f.block
    BY FitIs DEF Fit, WellFormed
  <2>1. CASE x = p
    <3>1. ASSUME t \in L, t # h PROVE p \in L
      <4>1. b \in L
        BY <1>3, <2>0, <3>1, LoopIs
      <4>2. J \in L
        BY <1>1, <4>1, JoinInLoop
      <4>3. J # h
        BY <1>3, <4>1, LoopOrder, LaterOrder
      <4> QED
        BY <1>5, <4>2, <4>3 DEF Uncrossed
    <3>2. ASSUME p \in L, p # l PROVE t \in L
      <4>1. J \in L
        BY <1>5, <3>2 DEF Uncrossed
      <4>2. J # h
        <5> SUFFICES ASSUME J = h PROVE FALSE
          OBVIOUS
        <5>1. p \in Later(f, J)
          BY <3>2, LoopOrder
        <5>2. /\ pos[J] = pos[p] + 1 /\ pos[p] \in Nat /\ pos[J] \in Nat
              /\ p = J \/ pos[J] < pos[p]
          BY <1>5, <5>1 DEF Line
        <5> QED
          BY <5>2
      <4> QED
        BY <1>3, <1>4, <4>1, <4>2 DEF Inside
    <3> QED
      BY <1>5, <2>1, <3>1, <3>2
  <2>2. CASE x = t
    <3>1. t \notin D
      BY <1>3, <1>5
    <3> QED
      BY <1>3, <1>4, <1>5, <2>2, <3>1 DEF Inside
  <2>3. CASE x \in X /\ x # p
    <3>1. link2[x] = link[x]
      BY <1>5, <1>6, <2>3
    <3> QED
      BY <1>6, <2>3, <3>1 DEF Uncrossed
  <2> QED
    BY <1>5, <2>1, <2>2, <2>3
<1> QED
  BY <1>1, <1>2, <1>4, <1>6 DEF Uncrossed

-----------------------------------------------------------------------------
(* A function that is a line.                                               *)

\* The blocks of o go to the next one on the line, or back to a block that
\* dominates them in f.
AlongLine(f, r, o, link) ==
  /\ o.block = f.block /\ o.entry = f.entry /\ SuccSet(o, r) = {}
  /\ \A b \in f.block : b # r => link[b] \in SuccSet(o, b)
  /\ \A b \in f.block : \A s \in SuccSet(o, b) : s = link[b] \/ s \in f.dom[b]

\* Such a function's blocks are f's, and jumps back go back on the line.
LEMMA AlongLineIs ==
  ASSUME NEW f, NEW r, Fit(f, r), NEW link, NEW pos, Line(f, r, f.block, link, pos),
         NEW o, AlongLine(f, r, o, link)
  PROVE  /\ Graph(o) /\ o.entry \in o.block
         /\ \A b \in f.block : pos[b] \in Nat
         /\ \A b \in f.block : \A s \in f.dom[b] : pos[s] <= pos[b]
<1>1. /\ Graph(f) /\ f.entry \in f.block /\ r \in f.block
      /\ \A b \in f.block : f.dom[b] \subseteq f.block
  BY FitIs
<1>2. /\ \A b \in f.block : pos[b] \in Nat
      /\ \A x, y \in f.block : y \in Later(f, x) /\ y # x => pos[x] < pos[y]
      /\ \A b \in f.block : b # r => link[b] \in f.block
  BY DEF Line
<1>3. ASSUME NEW b \in f.block, NEW s \in f.dom[b] PROVE pos[s] <= pos[b]
  <2>1. b \in Later(f, s)
    BY <1>3, DomLater
  <2>2. s = b \/ pos[s] < pos[b]
    BY <1>1, <1>2, <2>1
  <2> QED
    BY <1>1, <1>2, <2>2
<1>4. ASSUME NEW b \in o.block, NEW s \in SuccSet(o, b) PROVE s \in o.block
  BY <1>1, <1>2 DEF AlongLine
<1>5. Graph(o)
  BY <1>1, <1>4 DEF AlongLine, Graph
<1> QED
  BY <1>1, <1>2, <1>3, <1>5 DEF AlongLine

\* The blocks of the line from b up to the first one in A are reached from b
\* avoiding A.
LEMMA LineReached ==
  ASSUME NEW f, NEW r, Fit(f, r), NEW link, NEW pos, Line(f, r, f.block, link, pos),
         NEW o, AlongLine(f, r, o, link), NEW A, NEW b \in f.block, NEW y \in f.block,
         pos[b] <= pos[y],
         \A x \in f.block : pos[b] <= pos[x] /\ pos[x] <= pos[y] => x \notin A
  PROVE  y \in ReachAvoiding(o, {b}, A)
<1> DEFINE R == ReachAvoiding(o, {b}, A)
           N == {n \in Nat : \A x \in f.block :
                               pos[x] = n /\ pos[b] <= n /\ n <= pos[y] => x \in R}
<1>1. /\ Graph(o) /\ f.block = o.block
      /\ \A x \in f.block : pos[x] \in Nat
  BY AlongLineIs DEF AlongLine
<1>2. /\ b \in A \/ b \in R
      /\ Closed(o, R, A)
  <2>1. {b} \in SUBSET o.block
    BY <1>1
  <2> QED
    BY <1>1, <2>1, ReachIs
<1>3. /\ pos[f.entry] = 0
      /\ \A x \in f.block : x # f.entry => \E p \in f.block : p # r /\ link[p] = x
      /\ \A x \in f.block : x # r => pos[link[x]] = pos[x] + 1
      /\ \A x, z \in f.block : pos[x] = pos[z] => x = z
      /\ \A x \in f.block : x # r => link[x] \in SuccSet(o, x)
  BY DEF Line, AlongLine
<1>4. b \in R
  BY <1>1, <1>2
<1> HIDE DEF R
<1>5. 0 \in N
  <2> SUFFICES ASSUME NEW x \in f.block, pos[x] = 0, pos[b] <= 0 PROVE x \in R
    OBVIOUS
  <2>1. pos[b] = 0
    BY <1>1
  <2> QED
    BY <1>3, <1>4, <2>1
<1>6. ASSUME NEW n \in Nat, n \in N PROVE n + 1 \in N
  <2> SUFFICES ASSUME NEW x \in f.block, pos[x] = n + 1, pos[b] <= n + 1, n + 1 <= pos[y]
               PROVE  x \in R
    OBVIOUS
  <2>1. CASE pos[b] = n + 1
    BY <1>3, <1>4, <2>1
  <2>2. CASE pos[b] <= n
    <3>1. x # f.entry
      BY <1>3
    <3>2. PICK p \in f.block : p # r /\ link[p] = x
      BY <1>3, <3>1
    <3>3. pos[p] = n /\ n <= pos[y]
      BY <1>1, <1>3, <3>2
    <3>4. p \in R
      BY <1>6, <2>2, <3>3
    <3>5. x \in SuccSet(o, p) /\ x \notin A
      BY <1>3, <3>2
    <3> QED
      BY <1>2, <3>4, <3>5 DEF Closed
  <2> QED
    BY <1>1, <2>1, <2>2
<1>7. Nat \subseteq N
  <2> HIDE DEF N
  <2> QED
    BY <1>5, <1>6, NatInd
<1>8. y \in R
  BY <1>1, <1>7
<1> QED
  BY <1>8 DEF R

\* On a line the blocks before dominate those after.
LEMMA LineDominates ==
  ASSUME NEW f, NEW r, Fit(f, r), NEW link, NEW pos, Line(f, r, f.block, link, pos),
         NEW o, AlongLine(f, r, o, link), NEW x \in f.block, NEW y \in f.block
  PROVE  x \in DominatorsOf(o)[y] <=> pos[x] <= pos[y]
<1>1. /\ Graph(o) /\ f.entry \in f.block /\ f.block = o.block /\ f.entry = o.entry
      /\ \A b \in f.block : pos[b] \in Nat
      /\ \A b \in f.block : \A s \in f.dom[b] : pos[s] <= pos[b]
  BY AlongLineIs DEF AlongLine
<1>2. x \in DominatorsOf(o)[y] <=> y \notin ReachAvoiding(o, {f.entry}, {x})
  BY <1>1 DEF DominatorsOf
<1>3. ASSUME pos[x] <= pos[y] PROVE y \notin ReachAvoiding(o, {f.entry}, {x})
  <2> DEFINE T == {z \in f.block : pos[z] < pos[x]}
  <2>1. /\ pos[f.entry] = 0
        /\ \A u, v \in f.block : pos[u] = pos[v] => u = v
        /\ \A z \in f.block : z # r => link[z] \in f.block /\ pos[link[z]] = pos[z] + 1
    BY DEF Line
  <2>2. f.entry \in {x} \/ f.entry \in T
    BY <1>1, <2>1
  <2>3. ASSUME NEW z \in T, NEW s \in SuccSet(o, z) PROVE s \in T \/ s \in {x}
    <3>1. z \in f.block /\ s \in f.block
      BY <1>1, <2>3 DEF Graph
    <3>2. z # r
      BY <2>3 DEF AlongLine
    <3>3. s = link[z] \/ s \in f.dom[z]
      BY <2>3, <3>1 DEF AlongLine
    <3>4. CASE s = link[z]
      <4>1. pos[s] = pos[z] + 1 /\ pos[z] < pos[x] /\ pos[z] \in Nat /\ pos[x] \in Nat
        BY <1>1, <2>1, <3>1, <3>2, <3>4
      <4>2. pos[s] < pos[x] \/ pos[s] = pos[x]
        BY <4>1
      <4> QED
        BY <2>1, <3>1, <4>2
    <3>5. CASE s \in f.dom[z]
      <4>1. pos[s] <= pos[z] /\ pos[z] < pos[x] /\ pos[z] \in Nat /\ pos[x] \in Nat /\ pos[s] \in Nat
        BY <1>1, <3>1, <3>5
      <4> QED
        BY <3>1, <4>1
    <3> QED
      BY <3>3, <3>4, <3>5
  <2>4. {f.entry} \in SUBSET o.block
    BY <1>1
  <2>5. ReachAvoiding(o, {f.entry}, {x}) \subseteq T
    <3> HIDE DEF T
    <3> QED
      BY <1>1, <2>2, <2>3, <2>4, ReachLeast
  <2>6. y \notin T
    <3>1. pos[x] \in Nat /\ pos[y] \in Nat
      BY <1>1
    <3> QED
      BY <1>3, <3>1
  <2> HIDE DEF T
  <2> QED
    BY <2>5, <2>6
<1>4. ASSUME ~(pos[x] <= pos[y]) PROVE y \in ReachAvoiding(o, {f.entry}, {x})
  <2>1. \A z \in f.block : pos[z] <= pos[y] => z \notin {x}
    BY <1>1, <1>4
  <2>2. pos[f.entry] <= pos[y]
    BY <1>1 DEF Line
  <2> QED
    BY <1>1, <2>1, <2>2, LineReached
<1> QED
  BY <1>2, <1>3, <1>4

\* The three parts of Straight.
LEMMA LineIsStraight ==
  ASSUME NEW f, NEW r, Fit(f, r), NEW link, NEW pos, Line(f, r, f.block, link, pos),
         NEW o, AlongLine(f, r, o, link)
  PROVE  /\ Reachable(f) \subseteq Reachable(o)
         /\ \A b \in Reachable(o) \ Exits(f) :
              Cardinality(SuccSet(o, b) \ DominatorsOf(o)[b]) = 1
         /\ \A e \in ForwardEdges(f) : e[1] \in DominatorsOf(o)[e[2]]
<1>1. /\ Graph(o) /\ f.entry \in f.block /\ f.block = o.block /\ f.entry = o.entry
      /\ \A b \in f.block : pos[b] \in Nat
      /\ \A b \in f.block : \A s \in f.dom[b] : pos[s] <= pos[b]
  BY AlongLineIs DEF AlongLine
<1>2. ASSUME NEW b \in f.block PROVE b \in Reachable(o)
  <2>1. pos[f.entry] <= pos[b]
    BY <1>1 DEF Line
  <2>2. b \in ReachAvoiding(o, {f.entry}, {})
    BY <1>1, <2>1, LineReached
  <2> QED
    BY <1>1, <2>2 DEF Reachable
<1>3. Reachable(f) \subseteq f.block
  BY DEF Fit, NoneDead
<1>4. Reachable(o) \subseteq f.block
  <2>1. {o.entry} \in SUBSET o.block
    BY <1>1
  <2>2. ReachAvoiding(o, {o.entry}, {}) \subseteq o.block
    BY <1>1, <2>1, ReachIs
  <2> QED
    BY <1>1, <2>2 DEF Reachable
<1>5. ASSUME NEW b \in f.block, b # r
      PROVE  Cardinality(SuccSet(o, b) \ DominatorsOf(o)[b]) = 1
  <2>1. link[b] \in SuccSet(o, b) /\ link[b] \in f.block /\ pos[link[b]] = pos[b] + 1
    BY <1>5 DEF Line, AlongLine
  <2>2. link[b] \notin DominatorsOf(o)[b]
    <3>1. ~(pos[link[b]] <= pos[b])
      BY <1>1, <2>1
    <3> QED
      BY <2>1, <3>1, LineDominates
  <2>3. ASSUME NEW s \in SuccSet(o, b), s # link[b] PROVE s \in DominatorsOf(o)[b]
    <3>1. s \in f.dom[b] /\ s \in f.block
      BY <1>1, <2>3 DEF AlongLine, Graph
    <3>2. pos[s] <= pos[b]
      BY <1>1, <3>1
    <3> QED
      BY <3>1, <3>2, LineDominates
  <2>4. SuccSet(o, b) \ DominatorsOf(o)[b] = {link[b]}
    BY <2>1, <2>2, <2>3
  <2> QED
    BY <2>4, FS_Singleton
<1>6. ASSUME NEW e \in ForwardEdges(f) PROVE e[1] \in DominatorsOf(o)[e[2]]
  <2>1. PICK u \in f.block, v \in f.block : e = <<u, v>> /\ v \in SuccSet(f, u) /\ v \notin f.dom[u]
    BY DEF ForwardEdges, Edges, BackEdges
  <2>2. v \in Ahead(f, u) /\ e[1] = u /\ e[2] = v
    BY <2>1 DEF Ahead
  <2>3. v \in Later(f, u) /\ u # v
    <3>1. v \in Later(f, u)
      BY <2>2, FitIs, LaterIs DEF Onwards
    <3>2. u \notin Later(f, v)
      BY <2>2, NoCycle
    <3>3. v \in Later(f, v)
      BY FitIs, LaterIs
    <3> QED
      BY <3>1, <3>2, <3>3
  <2>4. pos[u] < pos[v]
    BY <2>3 DEF Line
  <2>5. pos[u] <= pos[v]
    BY <1>1, <2>4
  <2> QED
    BY <2>2, <2>5, LineDominates
<1>7. \A b \in f.block : b \notin Exits(f) => b # r
  BY DEF Fit
<1>8. ASSUME NEW b \in Reachable(o) \ Exits(f)
      PROVE  Cardinality(SuccSet(o, b) \ DominatorsOf(o)[b]) = 1
  BY <1>4, <1>5, <1>7
<1> QED
  BY <1>2, <1>3, <1>6, <1>8

-----------------------------------------------------------------------------
(* The loops of a line.                                                     *)

\* Only the latches go anywhere but along the line: where they went before.
LoopsAlong(f, r, o, link) ==
  /\ AlongLine(f, r, o, link)
  /\ \A l \in DOMAIN f.header : \A s : s \in SuccSet(o, l) <=> s \in SuccSet(f, l)
  /\ \A b \in f.block : b \notin DOMAIN f.header => \A s \in SuccSet(o, b) : s = link[b]

\* The two functions' back edges are the same.
LEMMA BackEdgesAre ==
  ASSUME NEW f, NEW r, Fit(f, r), NEW link, NEW pos, Line(f, r, f.block, link, pos),
         NEW o, LoopsAlong(f, r, o, link), NEW b \in f.block, NEW s \in f.block
  PROVE  <<b, s>> \in BackEdges(o, DominatorsOf(o)) <=> b \in DOMAIN f.header /\ s = f.header[b]
<1>1. /\ AlongLine(f, r, o, link) /\ o.block = f.block
      /\ \A x \in f.block : pos[x] \in Nat
      /\ \A x \in f.block : \A y \in f.dom[x] : pos[y] <= pos[x]
  BY AlongLineIs DEF AlongLine, LoopsAlong
<1>2. <<b, s>> \in BackEdges(o, DominatorsOf(o)) <=> s \in SuccSet(o, b) /\ pos[s] <= pos[b]
  <2>1. s \in DominatorsOf(o)[b] <=> pos[s] <= pos[b]
    BY <1>1, LineDominates
  <2>2. <<b, s>> \in f.block \X f.block /\ <<b, s>>[1] = b /\ <<b, s>>[2] = s
    OBVIOUS
  <2> QED
    BY <1>1, <2>1, <2>2 DEF BackEdges, Edges
<1>3. ASSUME b \in DOMAIN f.header, s = f.header[b]
      PROVE  s \in SuccSet(o, b) /\ pos[s] <= pos[b]
  <2>1. s \in SuccSet(f, b) /\ s \in f.dom[b]
    BY <1>3, LatchIs
  <2> QED
    BY <1>1, <1>3, <2>1 DEF LoopsAlong
<1>4. ASSUME s \in SuccSet(o, b), pos[s] <= pos[b]
      PROVE  b \in DOMAIN f.header /\ s = f.header[b]
  <2>1. b # r
    BY <1>1, <1>4 DEF AlongLine
  <2>2. s # link[b]
    <3>1. pos[link[b]] = pos[b] + 1
      BY <2>1 DEF Line
    <3> QED
      BY <1>1, <1>4, <3>1
  <2>3. b \in DOMAIN f.header /\ s \in f.dom[b]
    BY <1>1, <1>4, <2>2 DEF AlongLine, LoopsAlong
  <2>4. s \in SuccSet(f, b)
    BY <1>4, <2>3 DEF LoopsAlong
  <2> QED
    BY <2>3, <2>4, LatchIs
<1> QED
  BY <1>2, <1>3, <1>4

\* The blocks of a loop are the stretch of the line from its header to its
\* latch.
LEMMA LoopStretch ==
  ASSUME NEW f, NEW r, Fit(f, r), NEW D, NEW link, NEW pos, Line(f, r, f.block, link, pos),
         Uncrossed(f, r, D, f.block, link), \A x \in f.block : x = r \/ x \in D,
         NEW l \in DOMAIN f.header, NEW b \in f.block
  PROVE  b \in LoopBlocks(f, l) <=> pos[f.header[l]] <= pos[b] /\ pos[b] <= pos[l]
<1> DEFINE h == f.header[l]
           L == LoopBlocks(f, l)
           N == {n \in Nat : \A x \in f.block : pos[x] = n /\ pos[h] <= n /\ n <= pos[l] => x \in L}
<1>1. /\ \A x \in f.block : pos[x] \in Nat
      /\ pos[f.entry] = 0
      /\ \A x \in f.block : x # r => link[x] \in f.block /\ pos[link[x]] = pos[x] + 1
      /\ \A x \in f.block : x # f.entry => \E p \in f.block : p # r /\ link[p] = x
      /\ \A x, y \in f.block : pos[x] = pos[y] => x = y
      /\ \A x, y \in f.block : y \in Later(f, x) /\ y # x => pos[x] < pos[y]
  BY DEF Line
<1>2. l \in f.block
  BY FitIs DEF Fit, WellFormed
<1>3. l \in L /\ h \in L /\ h \in f.block
  BY <1>2, LoopIs, LatchIs
<1>4. ASSUME b \in L PROVE pos[h] <= pos[b] /\ pos[b] <= pos[l]
  <2>1. b \in Later(f, h) /\ l \in Later(f, b)
    BY <1>4, LoopOrder
  <2>2. h = b \/ pos[h] < pos[b]
    BY <1>1, <1>3, <2>1
  <2>3. b = l \/ pos[b] < pos[l]
    BY <1>1, <1>2, <2>1
  <2> QED
    BY <1>1, <1>2, <1>3, <2>2, <2>3
<1> HIDE DEF h, L
<1>5. 0 \in N
  <2> SUFFICES ASSUME NEW x \in f.block, pos[x] = 0, pos[h] <= 0 PROVE x \in L
    OBVIOUS
  <2>1. pos[h] = 0
    BY <1>1, <1>3
  <2> QED
    BY <1>1, <1>3, <2>1
<1>6. ASSUME NEW n \in Nat, n \in N PROVE n + 1 \in N
  <2> SUFFICES ASSUME NEW x \in f.block, pos[x] = n + 1, pos[h] <= n + 1, n + 1 <= pos[l]
               PROVE  x \in L
    OBVIOUS
  <2>1. CASE pos[h] = n + 1
    BY <1>1, <1>3, <2>1
  <2>2. CASE pos[h] <= n
    <3>1. x # f.entry
      BY <1>1
    <3>2. PICK p \in f.block : p # r /\ link[p] = x
      BY <1>1, <3>1
    <3>3. pos[p] = n /\ n <= pos[l]
      BY <1>1, <1>2, <3>2
    <3>4. p \in L
      BY <1>6, <2>2, <3>3
    <3>5. p # l
      BY <3>3, <1>2
    <3>6. p \in D
      BY <3>2
    <3>7. \A y \in f.block : y # r /\ y \in L /\ y # l /\ y \in D => link[y] \in L
      BY DEF Uncrossed, L
    <3> QED
      BY <3>2, <3>4, <3>5, <3>6, <3>7
  <2>3. pos[h] \in Nat /\ pos[h] <= n + 1
    BY <1>1, <1>3
  <2> QED
    BY <2>1, <2>2, <2>3
<1>7. Nat \subseteq N
  <2> HIDE DEF N
  <2> QED
    BY <1>5, <1>6, NatInd
<1> QED
  BY <1>1, <1>4, <1>7 DEF h, L

\* From behind its latch a loop is not come to but through its header.
LEMMA StretchFromBehind ==
  ASSUME NEW f, NEW r, Fit(f, r), NEW D, NEW link, NEW pos, Line(f, r, f.block, link, pos),
         Uncrossed(f, r, D, f.block, link), \A x \in f.block : x = r \/ x \in D,
         NEW o, LoopsAlong(f, r, o, link),
         NEW l \in DOMAIN f.header, NEW b \in f.block, pos[l] < pos[b]
  PROVE  l \notin ReachAvoiding(o, {b}, {f.header[l]} \ {b})
<1>0. PICK h : h = f.header[l]
  OBVIOUS
<1> DEFINE T == {z \in f.block : pos[z] > pos[l] \/ pos[z] < pos[h]}
<1>1. /\ AlongLine(f, r, o, link) /\ Graph(o) /\ o.block = f.block
      /\ \A x \in f.block : pos[x] \in Nat
      /\ \A x \in f.block : \A y \in f.dom[x] : pos[y] <= pos[x]
  BY AlongLineIs DEF AlongLine, LoopsAlong
<1>2. /\ \A x \in f.block : x # r => link[x] \in f.block /\ pos[link[x]] = pos[x] + 1
      /\ \A x, y \in f.block : pos[x] = pos[y] => x = y
  BY DEF Line
<1>3. l \in f.block
  BY FitIs DEF Fit, WellFormed
<1>4. h \in f.block /\ h \in LoopBlocks(f, l) /\ l \in LoopBlocks(f, l)
  BY <1>0, <1>3, LoopIs, LatchIs
<1>5. pos[h] <= pos[l]
  BY <1>0, <1>3, <1>4, LoopStretch
<1>6. ASSUME NEW z \in T, NEW s \in SuccSet(o, z) PROVE s \in T \/ s = h
  <2>1. z \in f.block /\ s \in f.block /\ z # r
    BY <1>1, <1>6 DEF Graph, AlongLine
  <2>2. CASE s = link[z]
    <3>1. pos[s] = pos[z] + 1
      BY <1>2, <2>1, <2>2
    <3>2. pos[z] > pos[l] \/ pos[z] < pos[h]
      OBVIOUS
    <3>3. pos[s] > pos[l] \/ pos[s] < pos[h] \/ pos[s] = pos[h]
      BY <1>1, <1>3, <1>4, <2>1, <3>1, <3>2
    <3> QED
      BY <1>2, <1>4, <2>1, <3>3
  <2>3. CASE s # link[z]
    <3> SUFFICES ASSUME s \notin T PROVE s = h
      OBVIOUS
    <3>1. s \in f.dom[z] /\ z \in DOMAIN f.header
      BY <1>1, <2>1, <2>3 DEF AlongLine, LoopsAlong
    <3>2. pos[h] <= pos[s] /\ pos[s] <= pos[l]
      BY <1>1, <1>3, <1>4, <2>1
    <3>3. s \in LoopBlocks(f, l)
      BY <1>0, <2>1, <3>2, LoopStretch
    <3>4. pos[s] <= pos[z]
      BY <1>1, <2>1, <3>1
    <3>5. pos[z] > pos[l]
      BY <1>1, <1>3, <1>4, <2>1, <3>2, <3>4
    <3>6. z \notin LoopBlocks(f, l)
      <4>1. ~(pos[z] <= pos[l])
        BY <1>1, <1>3, <2>1, <3>5
      <4> QED
        BY <2>1, <4>1, LoopStretch
    <3>7. s \in SuccSet(f, z)
      BY <3>1 DEF LoopsAlong
    <3> QED
      BY <1>0, <1>3, <2>1, <3>3, <3>6, <3>7, LoopIs
  <2> QED
    BY <2>2, <2>3
<1>7. h # b /\ b \in T /\ {b} \in SUBSET o.block
  BY <1>1, <1>3, <1>4, <1>5
<1>8. l \notin T
  BY <1>1, <1>3, <1>4, <1>5
<1>9. ReachAvoiding(o, {b}, {h} \ {b}) \subseteq T
  <2>1. \A x : x \in {h} \ {b} <=> x = h
    BY <1>7
  <2> HIDE DEF T
  <2> QED
    BY <1>1, <1>6, <1>7, <2>1, ReachLeast
<1> QED
  BY <1>0, <1>8, <1>9

\* What is asked in LoopBlocks, with the new function's analyses.
LEMMA StretchIsLoop ==
  ASSUME NEW f, NEW r, Fit(f, r), NEW D, NEW link, NEW pos, Line(f, r, f.block, link, pos),
         Uncrossed(f, r, D, f.block, link), \A x \in f.block : x = r \/ x \in D,
         NEW o, LoopsAlong(f, r, o, link),
         NEW l \in DOMAIN f.header, NEW b \in f.block
  PROVE  /\ f.header[l] \in DominatorsOf(o)[b]
         /\ l \in ReachAvoiding(o, {b}, {f.header[l]} \ {b})
         <=> b \in LoopBlocks(f, l)
<1>0. PICK h : h = f.header[l]
  OBVIOUS
<1>1. /\ AlongLine(f, r, o, link) /\ o.block = f.block
      /\ \A x \in f.block : pos[x] \in Nat
  BY AlongLineIs DEF AlongLine, LoopsAlong
<1>2. \A x, y \in f.block : pos[x] = pos[y] => x = y
  BY DEF Line
<1>3. l \in f.block
  BY FitIs DEF Fit, WellFormed
<1>4. h \in f.block
  BY <1>0, <1>3, LatchIs
<1>5. h \in DominatorsOf(o)[b] <=> pos[h] <= pos[b]
  BY <1>1, <1>4, LineDominates
<1>6. b \in LoopBlocks(f, l) <=> pos[h] <= pos[b] /\ pos[b] <= pos[l]
  BY <1>0, LoopStretch
<1>7. ASSUME pos[h] <= pos[b], pos[b] <= pos[l] PROVE l \in ReachAvoiding(o, {b}, {h} \ {b})
  <2>1. \A x \in f.block : pos[b] <= pos[x] => x \notin {h} \ {b}
    <3> SUFFICES ASSUME pos[b] <= pos[h] PROVE h = b
      BY <1>4
    <3>1. pos[b] = pos[h]
      BY <1>1, <1>4, <1>7
    <3> QED
      BY <1>2, <1>4, <3>1
  <2> QED
    BY <1>1, <1>3, <1>7, <2>1, LineReached
<1>8. ASSUME l \in ReachAvoiding(o, {b}, {h} \ {b}) PROVE pos[b] <= pos[l]
  <2>1. ~(pos[l] < pos[b])
    BY <1>0, <1>8, StretchFromBehind
  <2> QED
    BY <1>1, <1>3, <2>1
<1> QED
  BY <1>0, <1>5, <1>6, <1>7, <1>8

\* What is reached depends on the blocks and their successors only.
LEMMA SameReach ==
  ASSUME NEW a, NEW o, Graph(a), Graph(o), a.block = o.block,
         \A b \in o.block : SuccSet(a, b) = SuccSet(o, b),
         NEW S \in SUBSET o.block, NEW A
  PROVE  ReachAvoiding(a, S, A) \subseteq ReachAvoiding(o, S, A)
<1> DEFINE R == ReachAvoiding(o, S, A)
<1>1. /\ R \subseteq o.block /\ Closed(o, R, A)
      /\ \A b \in S : b \in A \/ b \in R
  BY ReachIs
<1> HIDE DEF R
<1>2. \A b \in R : \A s \in SuccSet(a, b) : s \in R \/ s \in A
  BY <1>1 DEF Closed
<1>3. S \in SUBSET a.block
  OBVIOUS
<1>4. ReachAvoiding(a, S, A) \subseteq R
  BY <1>1, <1>2, <1>3, ReachLeast
<1> QED
  BY <1>4 DEF R

\* o has f's loops.
SameLoops(f, o) ==
  /\ Analyse(o).header = f.header
  /\ \A l \in DOMAIN f.header : LoopBlocks(Analyse(o), l) = LoopBlocks(f, l)

\* The analyses of the new function find the loops of the old one.
LEMMA LoopsAreKept ==
  ASSUME NEW f, NEW r, Fit(f, r), NEW D, NEW link, NEW pos, Line(f, r, f.block, link, pos),
         Uncrossed(f, r, D, f.block, link), \A x \in f.block : x = r \/ x \in D,
         NEW o, LoopsAlong(f, r, o, link)
  PROVE  SameLoops(f, o)
<1>1. PICK a : a = Analyse(o)
  OBVIOUS
<1>2. PICK back : back = BackEdges(o, DominatorsOf(o))
  OBVIOUS
<1>3. /\ AlongLine(f, r, o, link) /\ Graph(o) /\ o.block = f.block
  BY AlongLineIs, ZenonT(30) DEF AlongLine, LoopsAlong
<1>4. /\ a.block = f.block /\ a.succ = o.succ /\ a.dom = DominatorsOf(o)
      /\ a.header = [l \in {e[1] : e \in back} |-> CHOOSE h \in f.block : <<l, h>> \in back]
  BY <1>1, <1>2, <1>3 DEF Analyse
<1>5. \A b, s \in f.block : <<b, s>> \in back <=> b \in DOMAIN f.header /\ s = f.header[b]
  BY <1>2, BackEdgesAre, ZenonT(30)
<1>6. /\ DOMAIN f.header \subseteq f.block
      /\ \A l \in DOMAIN f.header : f.header[l] \in f.block
      /\ f.header = [l \in DOMAIN f.header |-> f.header[l]]
  <2>1. WellFormed(f) /\ Analysed(f)
    BY DEF Fit
  <2>2. /\ DOMAIN f.header \subseteq f.block
        /\ \A l \in DOMAIN f.header : f.header[l] \in f.block
    BY <2>1, LatchIs DEF WellFormed
  <2>3. f.header = [l \in DOMAIN f.header |-> f.header[l]]
    BY <2>1 DEF Analysed
  <2> QED
    BY <2>2, <2>3
<1>7. {e[1] : e \in back} = DOMAIN f.header
  <2>1. \A e \in back : \E b, s \in f.block : e = <<b, s>>
    BY <1>2, <1>3 DEF BackEdges, Edges
  <2>2. ASSUME NEW e \in back PROVE e[1] \in DOMAIN f.header
    BY <1>5, <2>1
  <2>3. ASSUME NEW l \in DOMAIN f.header PROVE \E e \in back : e[1] = l
    <3>1. <<l, f.header[l]>> \in back
      BY <1>5, <1>6
    <3> QED
      BY <3>1
  <2> QED
    BY <2>2, <2>3
<1>8. \A l \in DOMAIN f.header : (CHOOSE h \in f.block : <<l, h>> \in back) = f.header[l]
  BY <1>5, <1>6
<1>9. a.header = f.header
  BY <1>4, <1>6, <1>7, <1>8
<1>10. /\ \A b \in o.block : SuccSet(a, b) = SuccSet(o, b)
       /\ Graph(a)
  <2>1. \A b : SuccSet(a, b) = SuccSet(o, b)
    BY <1>4 DEF SuccSet
  <2> QED
    BY <1>3, <1>4, <2>1 DEF Graph
<1>11. ASSUME NEW b \in f.block, NEW A
       PROVE  \A x : x \in ReachAvoiding(a, {b}, A) <=> x \in ReachAvoiding(o, {b}, A)
  <2>1. {b} \in SUBSET o.block /\ {b} \in SUBSET a.block
    BY <1>3, <1>4
  <2>2. \A x \in a.block : SuccSet(o, x) = SuccSet(a, x)
    BY <1>3, <1>4, <1>10
  <2>3. ReachAvoiding(a, {b}, A) \subseteq ReachAvoiding(o, {b}, A)
    BY <1>3, <1>4, <1>10, <2>1, SameReach
  <2>4. ReachAvoiding(o, {b}, A) \subseteq ReachAvoiding(a, {b}, A)
    BY <1>3, <1>4, <1>10, <2>1, <2>2, SameReach
  <2> QED
    BY <2>3, <2>4
<1>12. ASSUME NEW l \in DOMAIN f.header PROVE LoopBlocks(a, l) = LoopBlocks(f, l)
  <2>1. \A b : b \in LoopBlocks(a, l) <=>
                 /\ b \in f.block /\ f.header[l] \in DominatorsOf(o)[b]
                 /\ l \in ReachAvoiding(a, {b}, {f.header[l]} \ {b})
    BY <1>4, <1>9 DEF LoopBlocks
  <2>2. \A b \in f.block : l \in ReachAvoiding(a, {b}, {f.header[l]} \ {b})
                             <=> l \in ReachAvoiding(o, {b}, {f.header[l]} \ {b})
    BY <1>11
  <2>3. \A b \in f.block : /\ f.header[l] \in DominatorsOf(o)[b]
                           /\ l \in ReachAvoiding(o, {b}, {f.header[l]} \ {b})
                           <=> b \in LoopBlocks(f, l)
    BY <1>12, StretchIsLoop
  <2>4. \A b : b \in LoopBlocks(f, l) => b \in f.block
    BY DEF LoopBlocks
  <2> QED
    BY <2>1, <2>2, <2>3, <2>4
<1> QED
  BY <1>1, <1>9, <1>12 DEF SameLoops

\* A header is still entered from its preheader and its latch; and what a
\* loop is left for, from the latch.
LEMMA PredsAreKept ==
  ASSUME NEW f, NEW r, Fit(f, r), NEW link, NEW pos, Line(f, r, f.block, link, pos),
         NEW o, LoopsAlong(f, r, o, link),
         \A p \in f.block : \A k \in DOMAIN f.header :
           SuccSet(f, p) = {f.header[k]} => link[p] = f.header[k],
         NEW l \in DOMAIN f.header, NEW x \in SuccSet(f, l)
  PROVE  Preds(o, x) = Preds(f, x)
<1>1. /\ AlongLine(f, r, o, link) /\ o.block = f.block /\ SuccSet(o, r) = {}
      /\ \A b \in f.block : pos[b] \in Nat
      /\ \A b \in f.block : \A s \in f.dom[b] : pos[s] <= pos[b]
      /\ \A b \in f.block : b # r => link[b] \in SuccSet(o, b)
      /\ \A k \in DOMAIN f.header : \A s : s \in SuccSet(o, k) <=> s \in SuccSet(f, k)
      /\ \A b \in f.block : b \notin DOMAIN f.header => \A s \in SuccSet(o, b) : s = link[b]
  BY AlongLineIs DEF AlongLine, LoopsAlong
<1>2. /\ \A b \in f.block : b # r => link[b] \in f.block /\ pos[link[b]] = pos[b] + 1
      /\ \A b, c \in f.block : pos[b] = pos[c] => b = c
  BY DEF Line
<1>3. \A b, c \in f.block : b # r /\ c # r /\ link[b] = link[c] => b = c
  BY <1>1, <1>2
<1>4. /\ WellFormed(f) /\ LoopSimplifyForm(f) /\ Graph(f) /\ l \in f.block
      /\ SuccSet(f, r) = {}
  <2>1. WellFormed(f) /\ LoopSimplifyForm(f) /\ Graph(f) /\ SuccSet(f, r) = {}
    BY FitIs DEF Fit
  <2> QED
    BY <2>1 DEF WellFormed
<1>5. PICK e \in f.block \ LoopBlocks(f, l) : SuccSet(f, l) = {f.header[l], e} /\ e # f.header[l]
  BY <1>4, LatchLeaves
<1>6. /\ f.header[l] \in f.dom[l] /\ l \in LoopBlocks(f, l) /\ LoopBlocks(f, l) \subseteq f.block
      /\ \A b \in LoopBlocks(f, l) : b # l => \A s \in SuccSet(f, b) : s \in LoopBlocks(f, l)
  BY <1>4, LatchIs, LoopIs
<1>7. \A b : /\ b \in Preds(o, x) <=> b \in f.block /\ x \in SuccSet(o, b)
             /\ b \in Preds(f, x) <=> b \in f.block /\ x \in SuccSet(f, b)
  BY <1>1 DEF Preds
<1>8. \A b \in DOMAIN f.header : b \in Preds(o, x) <=> b \in Preds(f, x)
  BY <1>1, <1>7
<1>9. l # r
  BY <1>4
<1>10. CASE x = f.header[l]
  <2>1. PICK p \in f.block \ LoopBlocks(f, l) : Preds(f, x) = {p, l} /\ Len(f.succ[p]) = 1
    BY <1>4, <1>10 DEF LoopSimplifyForm
  <2>2. SuccSet(f, p) = {x}
    <3>1. SuccSet(f, p) = {f.succ[p][1]}
      BY <1>4, <2>1, Successors
    <3>2. x \in SuccSet(f, p)
      BY <1>7, <2>1
    <3> QED
      BY <3>1, <3>2
  <2>3. p # r /\ link[p] = x /\ p \in Preds(o, x)
    BY <1>1, <1>4, <1>7, <1>10, <2>1, <2>2
  <2>4. ASSUME NEW b \in f.block, b \notin DOMAIN f.header PROVE b \in Preds(o, x) <=> b \in Preds(f, x)
    <3>1. b \in Preds(o, x) => b = p
      BY <1>1, <1>3, <1>7, <2>3, <2>4
    <3>2. b \in Preds(f, x) => b = p
      BY <2>1, <2>4
    <3>3. p \in Preds(f, x)
      BY <2>1
    <3> QED
      BY <2>3, <3>1, <3>2, <3>3
  <2> QED
    BY <1>7, <1>8, <2>4
<1>11. CASE x = e
  <2>1. link[l] = x
    <3>1. link[l] \in SuccSet(f, l) /\ pos[link[l]] = pos[l] + 1
      BY <1>1, <1>2, <1>4, <1>9
    <3>2. pos[f.header[l]] <= pos[l] /\ pos[l] \in Nat
      BY <1>1, <1>4, <1>6
    <3>3. link[l] # f.header[l]
      BY <3>1, <3>2
    <3> QED
      BY <1>5, <1>11, <3>1, <3>3
  <2>2. ASSUME NEW b \in f.block, b \notin DOMAIN f.header PROVE b \notin Preds(o, x)
    BY <1>1, <1>3, <1>4, <1>7, <1>9, <2>1, <2>2
  <2>3. ASSUME NEW b \in f.block, b \notin DOMAIN f.header PROVE b \notin Preds(f, x)
    <3>1. \A y \in (UNION {SuccSet(f, c) : c \in LoopBlocks(f, l)}) \ LoopBlocks(f, l) :
            Preds(f, y) \subseteq LoopBlocks(f, l)
      BY <1>4 DEF LoopSimplifyForm
    <3>2. x \in UNION {SuccSet(f, c) : c \in LoopBlocks(f, l)}
      BY <1>6, Zenon
    <3>3. b \in Preds(f, x) => b \in LoopBlocks(f, l)
      BY <1>5, <1>11, <3>1, <3>2
    <3> QED
      BY <1>5, <1>6, <1>7, <1>11, <2>3, <3>3
  <2> QED
    BY <1>7, <1>8, <2>2, <2>3
<1> QED
  BY <1>5, <1>10, <1>11

-----------------------------------------------------------------------------
(* The invariant of the walk over a supported function.                     *)

\* The function's one exit.
End == CHOOSE r : r \in g.ret /\ Exits(g) = {r}

\* Where control goes from a recorded block, a loop's jump back left aside.
Goes(f, m, b) ==
  IF b \in DOMAIN f.header
  THEN IF f.succ[b][1] = f.header[b] THEN f.succ[b][2] ELSE f.succ[b][1]
  ELSE m[b].then

\* The links of the line when the block that is not recorded yet is followed
\* by J.
Chain(f, m, J) == [x \in f.block |-> IF x \in DOMAIN m THEN Goes(f, m, x) ELSE J]

\* The blocks on the line.
Placed == {x \in g.block : x \in DOMAIN serializedCode \/ x = End \/ (pc = "visit" /\ x = bb)}

\* A latch keeps its branch, any other block has one way to go.
Kept ==
  /\ End \notin DOMAIN serializedCode
  /\ \A x \in DOMAIN serializedCode :
       IF x \in DOMAIN g.header
       THEN serializedCode[x] = newBranch(x, g.succ[x][1], g.succ[x][2])
       ELSE serializedCode[x].els = Null

ElseTaken ==
  \A x \in DOMAIN serializedCode : Secret(g, x) => Covered(g.succ[x][2])

\* A block that leads to a loop's header only still does.
Doors ==
  \A x \in DOMAIN serializedCode : \A l \in DOMAIN g.header :
    SuccSet(g, x) = {g.header[l]} => serializedCode[x].then = g.header[l]

\* Nothing of the then sides the stack holds has been placed.
ThenFree ==
  \A i \in 1..Len(condBranch) : \A x \in SideAhead(g, condBranch[i], 1) : x \notin Placed

OnLine ==
  \E T, J, pos :
    /\ pc = "visit" => Walking(g, End, DOMAIN serializedCode, bb, T, J) /\ Inside(g, T, J)
    /\ Line(g, End, Placed, Chain(g, serializedCode, J), pos)
    /\ Uncrossed(g, End, DOMAIN serializedCode, Placed, Chain(g, serializedCode, J))

\* The terminators are the function's own until they are replaced.
OwnBranches ==
  code = [b \in g.block |-> IF pc = "replaced" /\ b \in DOMAIN serializedCode
                            THEN serializedCode[b] ELSE OriginalBranch(g, b)]

\* There is no search, and no crash.
Smooth == pc \notin {"search", "crashed"}

LInv == Supported(g) => Kept /\ ElseTaken /\ Doors /\ ThenFree /\ OnLine /\ OwnBranches /\ Smooth

\* What the assumptions say of the function the walk is on.
LEMMA SupportedIs ==
  ASSUME Shape, Supported(g)
  PROVE  /\ Fit(g, End) /\ End \in g.ret /\ End \in g.block /\ Exits(g) = {End}
         /\ \A b \in g.block : g.succ[b] = <<>> => b = End
<1>1. /\ WellFormed(g) /\ DominatorsFlow(g) /\ HeadersDominate(g)
      /\ Analysed(g) /\ NoneDead(g) /\ LoopSimplifyForm(g)
  BY FunctionsAssumption, FormAssumption DEF Shape
<1>2. Structured(g) /\ Rotated(g) /\ \E r \in g.ret : Exits(g) = {r}
  BY DEF Supported, SingleReturn
<1>3. End \in g.ret /\ Exits(g) = {End}
  BY <1>2 DEF End
<1>4. End \in g.block
  BY <1>1, <1>3 DEF WellFormed
<1>5. Fit(g, End)
  BY <1>1, <1>2, <1>3, <1>4 DEF Fit
<1>6. \A b \in g.block : g.succ[b] = <<>> => b = End
  BY <1>3 DEF Exits
<1> QED
  BY <1>3, <1>4, <1>5, <1>6

\* A recorded block's link is ahead of it, if it was not redirected.
LEMMA GoesIs ==
  ASSUME Shape, Supported(g), NEW b \in DOMAIN g.header, b \in g.block
  PROVE  /\ Goes(g, serializedCode, b) \in Ahead(g, b)
         /\ Ahead(g, b) = {Goes(g, serializedCode, b)}
         /\ g.succ[b][1] \in SuccSet(g, b)
<1>1. Fit(g, End)
  BY SupportedIs
<1>2. PICK x \in g.block \ LoopBlocks(g, b) :
        /\ SuccSet(g, b) = {g.header[b], x} /\ x # g.header[b]
        /\ Ahead(g, b) = {x}
        /\ g.succ[b][1] = g.header[b] => g.succ[b][2] = x
        /\ g.succ[b][1] # g.header[b] => g.succ[b][1] = x /\ g.succ[b][2] = g.header[b]
  BY <1>1, LatchLeaves
<1> QED
  BY <1>2 DEF Goes

\* The branches on the stack are to be serialised.
LEMMA StackIs ==
  ASSUME IInv, NEW i \in 1..Len(condBranch)
  PROVE  Secret(g, condBranch[i]) /\ condBranch[i] \in DOMAIN serializedCode
<1>1. /\ condBranch[i] \in DOMAIN serializedCode
      /\ IsConditional(g, condBranch[i]) /\ condBranch[i] \notin DOMAIN g.header
  BY DEF IInv, StackSound, Serialized
<1>2. condBranch[i] \in g.block
  BY <1>1 DEF IInv, Shape, TypeOK
<1> QED
  BY <1>1, <1>2 DEF Secret

\* The branch on top of the stack is one of the stack's.
LEMMA TopOfStack ==
  ASSUME IInv, condBranch # <<>>
  PROVE  /\ Len(condBranch) \in 1..Len(condBranch) /\ lastBranch = condBranch[Len(condBranch)]
         /\ Secret(g, lastBranch) /\ lastBranch \in DOMAIN serializedCode
<1>1. Len(condBranch) \in 1..Len(condBranch)
  BY DEF IInv, Shape, TypeOK
<1> QED
  BY <1>1, StackIs DEF lastBranch

\* The blocks placed are the recorded ones, the end and the one visited.
LEMMA PlacedIs ==
  ASSUME IInv, Supported(g)
  PROVE  /\ Placed \subseteq g.block
         /\ \A x : x \in Placed <=> \/ x \in DOMAIN serializedCode
                                    \/ x = End
                                    \/ pc = "visit" /\ x = bb
BY SupportedIs DEF Placed, IInv, Shape, TypeOK

\* Once the else side of the branch on top has been walked, its join has been
\* placed: the last block of the side that is recorded goes there.
LEMMA JoinPlaced ==
  ASSUME IInv, Supported(g), LInv, pc = "unwind"
  PROVE  /\ condBranch # <<>> /\ postDom \in g.block
         /\ postDom \in DOMAIN serializedCode \/ postDom = End
         /\ Joined(postDom) /\ postDom # VirtualRoot
<1>1. Fit(g, End) /\ End \in g.ret /\ \A b \in g.block : g.succ[b] = <<>> => b = End
  BY SupportedIs DEF IInv
<1>2. condBranch # <<>>
  BY DEF IInv, Positions
<1>3. PICK b : b = lastBranch
  OBVIOUS
<1>4. Secret(g, b) /\ b \in DOMAIN serializedCode
  BY <1>2, <1>3, TopOfStack
<1>5. PICK J : J = g.ipd[b]
  OBVIOUS
<1>6. J = postDom /\ J \in g.block
  BY <1>1, <1>3, <1>4, <1>5, SecretIs DEF postDom
<1>7. \A x \in g.block : Covered(x) => x \in DOMAIN serializedCode \/ x = End
  BY <1>1 DEF Covered, Serialized
<1>8. Graph(g)
  BY <1>1, FitIs
<1>9. J \in DOMAIN serializedCode \/ J = End
  <2> SUFFICES ASSUME ~(J \in DOMAIN serializedCode \/ J = End) PROVE FALSE
    OBVIOUS
  <2> DEFINE F == SideAhead(g, b, 2)
             T == {x \in F : x \in DOMAIN serializedCode}
  <2>1. /\ F \subseteq g.block
        /\ g.succ[b][2] \in F \/ g.succ[b][2] = J
        /\ \A x \in F : \A s \in Ahead(g, x) : s \in F \/ s = J
        /\ End \notin F
    BY <1>1, <1>4, <1>5, SideIs, SideEnds DEF WithinSide
  <2> HIDE DEF F
  <2>2. g.succ[b][2] \in T
    <3>1. Covered(g.succ[b][2]) /\ g.succ[b][2] \in g.block
      BY <1>1, <1>4, SecretIs DEF LInv, ElseTaken
    <3> QED
      BY <1>7, <2>1, <3>1
  <2>3. T \in SUBSET g.block /\ T # {}
    BY <2>1, <2>2
  <2>4. \E x \in T : \A y \in T : y \in Later(g, x) => y = x
    <3> HIDE DEF T
    <3> QED
      BY <1>1, <2>3, LastOf
  <2>5. PICK x \in T : \A y \in T : y \in Later(g, x) => y = x
    BY <2>4
  <2>6. x \in g.block /\ x \in F /\ x \in DOMAIN serializedCode /\ x # End
    BY <2>1
  <2>7. \E y \in Ahead(g, x) : Covered(y)
    <3>1. CASE Secret(g, x)
      BY <1>1, <2>6, <3>1, SecretIs DEF LInv, ElseTaken
    <3>2. CASE ~Secret(g, x)
      <4>1. PICK y \in Ahead(g, x) : TRUE
        BY <1>1, <2>6, AheadIs
      <4>2. y \in SuccSet(g, x)
        BY DEF Ahead
      <4>3. \A i \in 1..Len(condBranch) : condBranch[i] # x
        BY <3>2, StackIs
      <4>4. Covered(y)
        BY <2>6, <4>2, <4>3 DEF IInv, SidesPending
      <4> QED
        BY <4>4
    <3> QED
      BY <3>1, <3>2
  <2>8. PICK y \in Ahead(g, x) : Covered(y)
    BY <2>7
  <2>9. y \in g.block /\ y \in Later(g, x)
    BY <1>8, <2>6, LaterIs DEF Ahead, Graph, Onwards
  <2>10. y \in T
    BY <1>7, <2>1, <2>6, <2>8, <2>9
  <2>11. y = x
    BY <2>5, <2>9, <2>10
  <2> QED
    BY <1>1, <2>6, <2>9, <2>11, NoCycle
<1>10. VirtualRoot \notin g.block
  BY FunctionIs DEF IInv
<1> QED
  BY <1>1, <1>2, <1>6, <1>9, <1>10 DEF Joined, Serialized, Returns

\* There is one place to insert the then side at.
LEMMA OneEntry ==
  ASSUME IInv, Supported(g), LInv, pc = "unwind", thenSide # postDom,
         NEW J, NEW pos, Line(g, End, Placed, Chain(g, serializedCode, J), pos)
  PROVE  \E p \in DOMAIN serializedCode :
           /\ EntriesInto(postDom) = {p}
           /\ p \in Placed /\ p # End /\ p \notin DOMAIN g.header
           /\ Chain(g, serializedCode, J)[p] = postDom
<1>1. Fit(g, End) /\ Graph(g)
  BY SupportedIs, FitIs DEF IInv
<1>2. PICK b : b = lastBranch
  OBVIOUS
<1>3. PICK j : j = postDom
  OBVIOUS
<1>4. PICK m : m = serializedCode
  OBVIOUS
<1>5. /\ Secret(g, b) /\ g.succ[b][1] # g.ipd[b] /\ j = g.ipd[b] /\ b \in g.block
      /\ j \in DOMAIN m \/ j = End
      /\ j \in g.block
  BY <1>2, <1>3, <1>4, JoinPlaced, TopOfStack DEF Secret, thenSide, postDom
<1>6. /\ \A x : x \in Placed <=> x \in DOMAIN m \/ x = End
      /\ DOMAIN m \subseteq g.block
      /\ End \notin DOMAIN m
  BY <1>4, PlacedIs DEF LInv, Kept, IInv, Shape, TypeOK
<1>7. \A l \in DOMAIN g.header : j \notin SuccSet(g, l)
  BY <1>1, <1>5, JoinIsNoLoops
<1>8. \A l \in DOMAIN m : l \in DOMAIN g.header => /\ m[l].then # j
                                                    /\ Goes(g, m, l) # j
  <2> TAKE l \in DOMAIN m
  <2> HAVE l \in DOMAIN g.header
  <2>1. l \in g.block
    BY <1>6
  <2>2. Goes(g, m, l) \in SuccSet(g, l) /\ g.succ[l][1] \in SuccSet(g, l)
    BY <1>4, <2>1, GoesIs DEF IInv, Ahead
  <2>3. m[l].then = g.succ[l][1]
    BY <1>4, TargetsAre DEF LInv, Kept
  <2> QED
    BY <1>7, <2>2, <2>3
<1>9. \A l \in DOMAIN m : l \notin DOMAIN g.header => Goes(g, m, l) = m[l].then
  BY DEF Goes
<1>10. j # g.entry
  <2>1. j \in Later(g, b) /\ j # b
    BY <1>1, <1>5, SideEnds, SecretIs
  <2>2. PICK w \in Later(g, b) : j \in Ahead(g, w)
    BY <1>1, <1>5, <2>1, LaterStep
  <2>3. w \in g.block
    BY <1>1, <1>5, <2>2, LaterIs
  <2> QED
    BY <1>1, <2>2, <2>3, AheadIs
<1> DEFINE link == Chain(g, m, J)
<1>11. \A x \in DOMAIN m : link[x] = Goes(g, m, x)
  BY <1>6 DEF Chain
<1>12. PICK p \in Placed : p # End /\ link[p] = j
  <2>1. Line(g, End, Placed, link, pos)
    BY <1>4
  <2> HIDE DEF link
  <2> QED
    BY <1>5, <1>6, <1>10, <2>1 DEF Line
<1>13. p \in DOMAIN m /\ Goes(g, m, p) = j
  BY <1>6, <1>11, <1>12
<1>14. p \notin DOMAIN g.header /\ m[p].then = j
  BY <1>8, <1>9, <1>13
<1>15. ASSUME NEW q \in DOMAIN m, m[q].then = j PROVE q = p
  <2>1. q \notin DOMAIN g.header /\ link[q] = j /\ q \in Placed /\ q # End
    BY <1>6, <1>8, <1>9, <1>11, <1>15
  <2>2. Line(g, End, Placed, link, pos)
    BY <1>4
  <2> HIDE DEF link
  <2>3. pos[j] = pos[q] + 1 /\ pos[j] = pos[p] + 1 /\ pos[p] \in Nat /\ pos[q] \in Nat
    BY <1>12, <2>1, <2>2 DEF Line
  <2>4. pos[q] = pos[p]
    BY <2>3
  <2> QED
    BY <2>1, <2>2, <2>4 DEF Line
<1>16. EntriesInto(j) = {p}
  BY <1>4, <1>13, <1>14, <1>15 DEF EntriesInto
<1> QED
  BY <1>3, <1>4, <1>12, <1>13, <1>14, <1>16

-----------------------------------------------------------------------------
(* The steps of the walk keep the invariant.                                *)

\* What is covered stays so.
LEMMA CoveredStays ==
  ASSUME IInv, UNCHANGED g, pc' # "crashed",
         \A x \in DOMAIN serializedCode : x \in DOMAIN serializedCode',
         pc = "visit" => \/ bb \in DOMAIN serializedCode'
                         \/ g.succ[bb] = <<>>
  PROVE  \A b : Covered(b) => Covered(b)'
BY DEF Covered, Serialized

\* A call on a new block: the block is recorded with the way it is left by.
LEMMA NewBlockLine ==
  ASSUME IInv, Supported(g), LInv, pc = "visit", ~Serialized(bb), pc' = "visit",
         UNCHANGED <<g, code>>, bb' \in Ahead(g, bb),
         NEW br, serializedCode' = Record(bb, br),
         IF bb \in DOMAIN g.header
         THEN br = newBranch(bb, g.succ[bb][1], g.succ[bb][2])
         ELSE br.els = Null /\ br.then = bb',
         \/ condBranch' = condBranch /\ ~Secret(g, bb)
         \/ Secret(g, bb) /\ bb' = g.succ[bb][2] /\ condBranch' = Append(condBranch, bb)
  PROVE  LInv'
<1>1. /\ Fit(g, End) /\ Graph(g) /\ End' = End
  BY SupportedIs, FitIs DEF IInv, End
<1>2. PICK D : D = DOMAIN serializedCode
  OBVIOUS
<1>3. PICK s : s = bb'
  OBVIOUS
<1>4. /\ bb \in g.block /\ bb \notin D /\ s \in Ahead(g, bb) /\ s \in g.block /\ bb # End
      /\ D \subseteq g.block /\ s # bb
  <2>1. bb \in g.block /\ bb \notin D /\ s \in Ahead(g, bb) /\ D \subseteq g.block
    BY <1>2, <1>3 DEF IInv, Shape, TypeOK, Serialized
  <2>2. s \in g.block
    BY <1>1, <2>1 DEF Ahead, Graph
  <2>3. bb # End
    BY <1>1, <2>1, FitIs DEF Ahead
  <2>4. s # bb
    BY <1>1, <2>1, <2>2, NoCycle, LaterIs
  <2> QED
    BY <2>1, <2>2, <2>3, <2>4
<1>5. /\ DOMAIN serializedCode' = D \cup {bb} /\ serializedCode'[bb] = br
      /\ \A x \in D : serializedCode'[x] = serializedCode[x]
  <2>1. /\ DOMAIN serializedCode' = D \cup {bb} /\ serializedCode'[bb] = br
    BY <1>2, RecordIs
  <2>2. \A x \in D : serializedCode'[x] = serializedCode[x]
    BY <1>2, <1>4 DEF Record
  <2> QED
    BY <2>1, <2>2
<1>6. /\ \A x : x \in Placed <=> x \in D \/ x = End \/ x = bb
      /\ \A x : x \in Placed' <=> x \in Placed \/ x = s
  <2>1. \A x : x \in Placed <=> x \in D \/ x = End \/ x = bb
    BY <1>2, PlacedIs
  <2>2. \A x : x \in Placed' <=> x \in g.block /\ (x \in D \/ x = bb \/ x = End \/ x = s)
    BY <1>1, <1>3, <1>5 DEF Placed
  <2>3. End \in g.block
    BY <1>1 DEF Fit
  <2> QED
    BY <1>4, <2>1, <2>2, <2>3
<1>7. Kept /\ ElseTaken /\ Doors /\ ThenFree /\ OnLine /\ OwnBranches
  BY DEF LInv
<1>8. Kept'
  BY <1>1, <1>2, <1>4, <1>5, <1>7 DEF Kept
<1>9. ElseTaken'
  <2>1. \A b : Covered(b) => Covered(b)'
    BY <1>2, <1>5, CoveredStays
  <2>2. \A x : x = bb' => Covered(x)'
    BY DEF Covered
  <2>3. \A x \in DOMAIN serializedCode' : Secret(g, x) => Covered(g.succ[x][2])'
    BY <1>2, <1>5, <1>7, <2>1, <2>2 DEF ElseTaken
  <2> QED
    BY <2>3 DEF ElseTaken
<1>13. Doors'
  <2>1. ASSUME NEW l \in DOMAIN g.header, SuccSet(g, bb) = {g.header[l]}
        PROVE  br.then = g.header[l]
    <3>1. bb' \in SuccSet(g, bb)
      BY DEF Ahead
    <3>2. CASE bb \in DOMAIN g.header
      <4>1. g.succ[bb][1] \in SuccSet(g, bb)
        BY <1>4, <3>2, GoesIs DEF IInv
      <4> QED
        BY <2>1, <3>2, <4>1 DEF newBranch
    <3> QED
      BY <2>1, <3>1, <3>2
  <2>2. \A x \in DOMAIN serializedCode' : \A l \in DOMAIN g.header :
          SuccSet(g, x) = {g.header[l]} => serializedCode'[x].then = g.header[l]
    BY <1>2, <1>5, <1>7, <2>1 DEF Doors
  <2>3. \A x : SuccSet(g, x)' = SuccSet(g, x)
    BY DEF SuccSet
  <2> QED
    BY <2>2, <2>3 DEF Doors
<1>10. ThenFree'
  \* the branches that were on the stack: their sides are not entered here
  <2>1. ASSUME NEW i \in 1..Len(condBranch), NEW x \in SideAhead(g, condBranch[i], 1)
        PROVE  x \notin Placed'
    <3>1. Secret(g, condBranch[i]) /\ condBranch[i] # bb
      BY <1>2, <1>4, StackIs
    <3>2. x \notin Placed /\ bb \notin SideAhead(g, condBranch[i], 1)
      BY <1>6, <1>7, <2>1 DEF ThenFree
    <3>3. x # s
      BY <1>1, <1>4, <2>1, <3>1, <3>2, SideDoor
    <3> QED
      BY <1>6, <3>2, <3>3
  \* the branch that is pushed: its sides are new, and apart
  <2>2. ASSUME Secret(g, bb), s = g.succ[bb][2], NEW x \in SideAhead(g, bb, 1)
        PROVE  x \notin Placed'
    <3>1. bb \in g.dom[x] /\ x # bb /\ x # End
      BY <1>1, <2>2, SideEnds
    <3>2. x \notin D
      BY <1>2, <1>4, <3>1 DEF IInv, Dominated
    <3>3. s \in SideAhead(g, bb, 2) \/ s = g.ipd[bb]
      BY <1>1, <2>2, SideIs DEF WithinSide
    <3>4. x # s
      BY <1>1, <2>2, <3>3, SidesApart, SideIs
    <3> QED
      BY <1>6, <3>1, <3>2, <3>4
  <2>3. condBranch \in Seq(g.block)
    BY DEF IInv, Shape, TypeOK
  <2>4. CASE condBranch' = condBranch
    BY <2>1, <2>4 DEF ThenFree
  <2>5. CASE Secret(g, bb) /\ bb' = g.succ[bb][2] /\ condBranch' = Append(condBranch, bb)
    <3>1. ASSUME NEW i \in 1..Len(condBranch')
          PROVE  \/ i \in 1..Len(condBranch) /\ condBranch'[i] = condBranch[i]
                 \/ condBranch'[i] = bb
      BY <2>3, <2>5
    <3>2. \A i \in 1..Len(condBranch') : \A x \in SideAhead(g, condBranch'[i], 1) : x \notin Placed'
      <4> TAKE i \in 1..Len(condBranch')
      <4>1. CASE i \in 1..Len(condBranch) /\ condBranch'[i] = condBranch[i]
        BY <2>1, <4>1
      <4>2. CASE condBranch'[i] = bb
        BY <1>3, <2>2, <2>5, <4>2
      <4> QED
        BY <3>1, <4>1, <4>2
    <3> QED
      BY <3>2 DEF ThenFree
  <2> QED
    BY <2>4, <2>5
<1>11. OnLine'
  <2>1. PICK T, J, pos : /\ Walking(g, End, D, bb, T, J) /\ Inside(g, T, J)
                         /\ Line(g, End, Placed, Chain(g, serializedCode, J), pos)
                         /\ Uncrossed(g, End, D, Placed, Chain(g, serializedCode, J))
    BY <1>2, <1>7 DEF OnLine
  <2>2. PICK link : link = Chain(g, serializedCode, J)
    OBVIOUS
  <2>3. PICK link2 : link2 = Chain(g, serializedCode', J)
    OBVIOUS
  <2>4. Goes(g, serializedCode', bb) = s
    <3>1. CASE bb \in DOMAIN g.header
      <4>1. Goes(g, serializedCode', bb) = Goes(g, serializedCode, bb)
        BY <3>1 DEF Goes
      <4>2. Ahead(g, bb) = {Goes(g, serializedCode, bb)}
        BY <1>4, <3>1, GoesIs DEF IInv
      <4> QED
        BY <1>4, <4>1, <4>2
    <3>2. CASE bb \notin DOMAIN g.header
      BY <1>3, <1>5, <3>2 DEF Goes
    <3> QED
      BY <3>1, <3>2
  <2>5. \A x \in D : Goes(g, serializedCode', x) = Goes(g, serializedCode, x)
    BY <1>5 DEF Goes
  <2>6. /\ link[bb] = J
        /\ link2[bb] = s
        /\ s \notin Placed => link2[s] = J
        /\ \A x \in Placed : x # bb /\ x # End => link2[x] = link[x]
    <3>1. \A x \in g.block : link[x] = IF x \in D THEN Goes(g, serializedCode, x) ELSE J
      BY <1>2, <2>2 DEF Chain
    <3>2. \A x \in g.block : link2[x] = IF x \in D \cup {bb} THEN Goes(g, serializedCode', x) ELSE J
      BY <1>5, <2>3 DEF Chain
    <3> QED
      BY <1>4, <1>6, <2>4, <2>5, <3>1, <3>2
  <2>7. PICK X : X = Placed
    OBVIOUS
  <2>8. PICK Y : Y = Placed'
    OBVIOUS
  <2>9. PICK E : E = D \cup {bb}
    OBVIOUS
  <2>10. End \notin D
    BY <1>2, <1>7 DEF Kept
  <2>11. /\ Advanced(End, D, bb, J, X, link, E, s, Y, link2)
         /\ Line(g, End, X, link, pos) /\ Uncrossed(g, End, D, X, link)
    BY <1>4, <1>6, <2>1, <2>2, <2>6, <2>7, <2>8, <2>9, <2>10 DEF Advanced
  <2>12. /\ Walking(g, End, E, s, T, J)
         /\ \E pos2 : Line(g, End, Y, link2, pos2)
    BY <1>1, <1>4, <2>1, <2>11, LineGrows
  <2>16. Uncrossed(g, End, E, Y, link2)
    BY <1>1, <1>4, <2>1, <2>11, AdvanceUncrossed
  <2>13. PICK pos2 : Line(g, End, Y, link2, pos2)
    BY <2>12
  <2>14. /\ Walking(g, End, DOMAIN serializedCode', bb', T, J)
         /\ Line(g, End, Placed', Chain(g, serializedCode', J), pos2)
         /\ Uncrossed(g, End, DOMAIN serializedCode', Placed', Chain(g, serializedCode', J))
    BY <1>3, <1>5, <2>3, <2>8, <2>9, <2>12, <2>13, <2>16
  <2>15. /\ Walking(g, End, DOMAIN serializedCode, bb, T, J)' /\ Inside(g, T, J)'
         /\ Line(g, End, Placed, Chain(g, serializedCode, J), pos2)'
         /\ Uncrossed(g, End, DOMAIN serializedCode, Placed, Chain(g, serializedCode, J))'
    BY <1>1, <2>1, <2>14
  <2> QED
    BY <2>15 DEF OnLine
<1>12. OwnBranches' /\ Smooth'
  BY <1>7 DEF OwnBranches, Smooth
<1> QED
  BY <1>8, <1>9, <1>10, <1>11, <1>12, <1>13 DEF LInv

\* A block with one successor is followed by it.
LEMMA VisitUnconditionalLine ==
  ASSUME IInv, Supported(g), LInv, VisitUnconditional PROVE LInv'
<1>1. /\ pc = "visit" /\ ~Serialized(bb) /\ pc' = "visit" /\ bb' = g.succ[bb][1]
      /\ Len(g.succ[bb]) = 1
      /\ UNCHANGED <<g, condBranch, cur, code>>
      /\ serializedCode' = Record(bb, newBranch(Null, g.succ[bb][1], Null))
  BY DEF VisitUnconditional, Call
<1>2. bb \in g.block /\ WellFormed(g) /\ Fit(g, End)
  BY FunctionIs, SupportedIs DEF IInv, Shape, TypeOK
<1>3. SuccSet(g, bb) = {g.succ[bb][1]}
  BY <1>1, <1>2, Successors
<1>4. bb \notin DOMAIN g.header /\ ~Secret(g, bb)
  BY <1>1, <1>2, LatchIs DEF IsConditional, Secret
<1>5. bb' \in Ahead(g, bb)
  BY <1>1, <1>2, <1>3, <1>4, AheadIs
<1>6. PICK br : br = newBranch(Null, g.succ[bb][1], Null)
  OBVIOUS
<1>7. br.els = Null /\ br.then = bb'
  BY <1>1, <1>6 DEF newBranch
<1> QED
  BY <1>1, <1>4, <1>5, <1>6, <1>7, NewBlockLine

\* A latch is followed by the block its loop is left to.
LEMMA VisitLatchLine ==
  ASSUME IInv, Supported(g), LInv, VisitLatch PROVE LInv'
<1>1. /\ pc = "visit" /\ ~Serialized(bb) /\ pc' = "visit"
      /\ bb' = (IF g.succ[bb][1] = g.header[bb] THEN g.succ[bb][2] ELSE g.succ[bb][1])
      /\ bb \in DOMAIN g.header
      /\ UNCHANGED <<g, condBranch, cur, code>>
      /\ serializedCode' = Record(bb, newBranch(bb, g.succ[bb][1], g.succ[bb][2]))
  BY DEF VisitLatch, Call
<1>2. bb \in g.block
  BY DEF IInv, Shape, TypeOK
<1>3. bb' = Goes(g, serializedCode, bb)
  BY <1>1 DEF Goes
<1>4. bb' \in Ahead(g, bb)
  BY <1>1, <1>2, <1>3, GoesIs DEF IInv
<1>5. ~Secret(g, bb)
  BY <1>1 DEF Secret
<1> QED
  BY <1>1, <1>4, <1>5, NewBlockLine

\* A branch to be serialised is followed by its else side.
LEMMA VisitConditionalLine ==
  ASSUME IInv, Supported(g), LInv, VisitConditional PROVE LInv'
<1>1. /\ pc = "visit" /\ ~Serialized(bb) /\ pc' = "visit" /\ bb' = g.succ[bb][2]
      /\ IsConditional(g, bb) /\ bb \notin DOMAIN g.header
      /\ condBranch' = Append(condBranch, bb)
      /\ UNCHANGED <<g, cur, code>>
      /\ serializedCode' = Record(bb, newBranch(Null, g.succ[bb][2], Null))
  BY DEF VisitConditional, ElseOnly, Call
<1>2. bb \in g.block /\ Fit(g, End)
  BY SupportedIs DEF IInv, Shape, TypeOK
<1>3. Secret(g, bb)
  BY <1>1, <1>2 DEF Secret
<1>4. bb' \in Ahead(g, bb)
  BY <1>1, <1>2, <1>3, SecretIs
<1>5. PICK br : br = newBranch(Null, g.succ[bb][2], Null)
  OBVIOUS
<1>6. br.els = Null /\ br.then = bb'
  BY <1>1, <1>5 DEF newBranch
<1> QED
  BY <1>1, <1>3, <1>4, <1>5, <1>6, NewBlockLine

\* The map and what is placed stay, and the walk is at rest.
LEMMA RestLine ==
  ASSUME IInv, Supported(g), LInv, UNCHANGED <<g, serializedCode>>,
         pc' \in {"unwind", "done", "replaced"},
         pc = "visit" => bb \in DOMAIN serializedCode \/ bb = End,
         \A i \in 1..Len(condBranch') : \E j \in 1..Len(condBranch) : condBranch'[i] = condBranch[j],
         OwnBranches'
  PROVE  LInv'
<1>1. End' = End /\ Fit(g, End) /\ \A b \in g.block : g.succ[b] = <<>> <=> b = End
  <2>1. Fit(g, End) /\ Exits(g) = {End}
    BY SupportedIs DEF IInv
  <2> QED
    BY <2>1 DEF End, Exits
<1>2. Placed' = Placed
  BY <1>1 DEF Placed
<1>3. Kept /\ ElseTaken /\ Doors /\ ThenFree /\ OnLine
  BY DEF LInv
<1>4. Kept'
  BY <1>1, <1>3 DEF Kept
<1>5. ElseTaken'
  <2>1. pc = "visit" => bb \in DOMAIN serializedCode' \/ g.succ[bb] = <<>>
    BY <1>1 DEF IInv, Shape, TypeOK
  <2>2. \A b : Covered(b) => Covered(b)'
    BY <2>1, CoveredStays
  <2>3. \A x \in DOMAIN serializedCode' : Secret(g, x) => Covered(g.succ[x][2])'
    BY <1>3, <2>2 DEF ElseTaken
  <2> QED
    BY <2>3 DEF ElseTaken
<1>6. ThenFree'
  <2>1. \A i \in 1..Len(condBranch') : \A x \in SideAhead(g, condBranch'[i], 1) : x \notin Placed'
    BY <1>2, <1>3 DEF ThenFree
  <2> QED
    BY <2>1 DEF ThenFree
<1>7. OnLine'
  <2>1. PICK T, J, pos :
          /\ Line(g, End, Placed, Chain(g, serializedCode, J), pos)
          /\ Uncrossed(g, End, DOMAIN serializedCode, Placed, Chain(g, serializedCode, J))
    BY <1>3 DEF OnLine
  <2>2. /\ Line(g, End, Placed', Chain(g, serializedCode', J), pos)
        /\ Uncrossed(g, End, DOMAIN serializedCode', Placed', Chain(g, serializedCode', J))
    BY <1>2, <2>1
  <2>3. /\ Line(g, End, Placed, Chain(g, serializedCode, J), pos)'
        /\ Uncrossed(g, End, DOMAIN serializedCode, Placed, Chain(g, serializedCode, J))'
    BY <1>1, <2>2
  <2> QED
    BY <2>3 DEF OnLine
<1>8. Smooth'
  BY DEF Smooth
<1>9. Doors'
  BY <1>3 DEF Doors
<1> QED
  BY <1>4, <1>5, <1>6, <1>7, <1>8, <1>9 DEF LInv

\* The then side is inserted before the join.
LEMMA UnwindRedirectLine ==
  ASSUME IInv, Supported(g), LInv, UnwindRedirect PROVE LInv'
<1>1. /\ pc = "unwind" /\ thenSide # postDom /\ PopBranch /\ pc' = "visit" /\ bb' = thenSide
      /\ UNCHANGED <<g, cur, code>>
  BY DEF UnwindRedirect, Call
<1>2. /\ Fit(g, End) /\ End' = End
  BY <1>1, SupportedIs DEF IInv, End
<1>3. PICK b : b = lastBranch
  OBVIOUS
<1>4. PICK D : D = DOMAIN serializedCode
  OBVIOUS
<1>5. PICK t : t = thenSide
  OBVIOUS
<1>6. PICK j : j = postDom
  OBVIOUS
<1>7. /\ Secret(g, b) /\ b \in D /\ b \in g.block /\ condBranch # <<>>
      /\ t = g.succ[b][1] /\ j = g.ipd[b] /\ t # j /\ t \in g.block /\ t \in Ahead(g, b)
      /\ j \in D \/ j = End
  <2>1. condBranch # <<>> /\ (j \in D \/ j = End)
    BY <1>1, <1>4, <1>6, JoinPlaced
  <2>2. Secret(g, b) /\ b \in D
    BY <1>3, <1>4, <2>1, TopOfStack
  <2>3. t = g.succ[b][1] /\ j = g.ipd[b] /\ t # j
    BY <1>1, <1>3, <1>5, <1>6 DEF thenSide, postDom
  <2>4. t \in g.block /\ t \in Ahead(g, b) /\ b \in g.block
    BY <1>2, <2>2, <2>3, SecretIs
  <2> QED
    BY <2>1, <2>2, <2>3, <2>4
<1>8. PICK X : X = Placed
  OBVIOUS
<1>9. /\ \A x : x \in X <=> x \in D \/ x = End
      /\ D \subseteq g.block /\ End \notin D /\ End \in g.block
  <2>1. D \subseteq g.block /\ End \notin D /\ End \in g.block
    BY <1>2, <1>4 DEF LInv, Kept, IInv, Shape, TypeOK, Fit
  <2> QED
    BY <1>1, <1>4, <1>8, <2>1, PlacedIs
<1>10. Kept /\ ElseTaken /\ Doors /\ ThenFree /\ OnLine /\ OwnBranches
  BY DEF LInv
<1>11. PICK J, pos :
         /\ Line(g, End, Placed, Chain(g, serializedCode, J), pos)
         /\ Uncrossed(g, End, D, Placed, Chain(g, serializedCode, J))
  BY <1>4, <1>10 DEF OnLine
<1>12. PICK p \in D : /\ EntriesInto(postDom) = {p}
                      /\ p \in Placed /\ p # End /\ p \notin DOMAIN g.header
                      /\ Chain(g, serializedCode, J)[p] = postDom
  BY <1>1, <1>4, <1>11, OneEntry
<1>23. Doors'
  <2>1. serializedCode[p].then = j
    BY <1>6, <1>12 DEF EntriesInto
  <2>2. \A l \in DOMAIN g.header : j \notin SuccSet(g, l) /\ g.header[l] \in SuccSet(g, l)
    <3>1. \A l \in DOMAIN g.header : j \notin SuccSet(g, l)
      BY <1>2, <1>7, JoinIsNoLoops
    <3>2. \A l \in DOMAIN g.header : g.header[l] \in SuccSet(g, l)
      BY <1>2 DEF Fit, HeadersDominate
    <3> QED
      BY <3>1, <3>2
  <2>3. \A l \in DOMAIN g.header : SuccSet(g, p) # {g.header[l]}
    BY <1>4, <1>10, <2>1, <2>2 DEF Doors
  <2>4. serializedCode' = Record(p, newBranch(Null, t, Null))
    BY <1>5, <1>12 DEF UnwindRedirect
  <2>5. DOMAIN serializedCode' = D /\ \A x \in D : x # p => serializedCode'[x] = serializedCode[x]
    BY <1>4, <1>12, <2>4, RecordIs DEF Record
  <2>6. \A x \in DOMAIN serializedCode' : \A l \in DOMAIN g.header :
          SuccSet(g, x) = {g.header[l]} => serializedCode'[x].then = g.header[l]
    BY <1>4, <1>10, <2>3, <2>5 DEF Doors
  <2>7. \A x : SuccSet(g, x)' = SuccSet(g, x)
    BY <1>1 DEF SuccSet
  <2> QED
    BY <1>1, <2>6, <2>7 DEF Doors
<1>13. serializedCode' = Record(p, newBranch(Null, t, Null))
  BY <1>5, <1>12 DEF UnwindRedirect
<1>14. /\ DOMAIN serializedCode' = D
       /\ serializedCode'[p].then = t /\ serializedCode'[p].els = Null
       /\ \A x \in D : x # p => serializedCode'[x] = serializedCode[x]
  <2>1. DOMAIN serializedCode' = D \cup {p} /\ serializedCode'[p] = newBranch(Null, t, Null)
    BY <1>4, <1>13, RecordIs
  <2>2. \A x \in D : x # p => serializedCode'[x] = serializedCode[x]
    BY <1>4, <1>13 DEF Record
  <2> QED
    BY <1>12, <2>1, <2>2 DEF newBranch
<1>15. Kept'
  BY <1>2, <1>4, <1>9, <1>10, <1>12, <1>14, <1>1 DEF Kept
<1>16. ElseTaken'
  <2>1. \A x : Covered(x) => Covered(x)'
    BY <1>1, <1>4, <1>14, CoveredStays
  <2>2. \A x \in DOMAIN serializedCode' : Secret(g, x) => Covered(g.succ[x][2])'
    BY <1>1, <1>4, <1>10, <1>14, <2>1 DEF ElseTaken
  <2> QED
    BY <1>1, <2>2 DEF ElseTaken
<1>17. PICK Y : Y = Placed'
  OBVIOUS
<1>18. \A x : x \in Y <=> x \in X \/ x = t
  <2>1. \A x : x \in Y <=> x \in g.block /\ (x \in D \/ x = End \/ x = t)
    BY <1>1, <1>2, <1>5, <1>14, <1>17 DEF Placed
  <2> QED
    BY <1>7, <1>9, <2>1
<1>19. \A x \in SideAhead(g, b, 1) : x \notin X
  <2>1. Len(condBranch) \in 1..Len(condBranch) /\ b = condBranch[Len(condBranch)]
    BY <1>3, <1>7, TopOfStack
  <2> QED
    BY <1>8, <1>10, <2>1 DEF ThenFree
\* the other branches on the stack: their sides are not entered here
<1>20. ThenFree'
  <2>1. /\ Len(condBranch') = Len(condBranch) - 1
        /\ \A i \in 1..Len(condBranch') : condBranch'[i] = condBranch[i]
    BY <1>1, <1>7, TopIs DEF IInv
  <2>2. Len(condBranch) \in 1..Len(condBranch) /\ b = condBranch[Len(condBranch)]
    BY <1>3, <1>7, TopOfStack
  <2>3. ASSUME NEW i \in 1..Len(condBranch'), NEW x \in SideAhead(g, condBranch[i], 1)
        PROVE  x \notin Y
    <3>1. i \in 1..Len(condBranch) /\ i # Len(condBranch)
      BY <2>1, <2>2
    <3>2. condBranch[i] # b
      BY <2>2, <3>1 DEF IInv, StackSound
    <3>3. Secret(g, condBranch[i]) /\ x \notin X /\ b \notin SideAhead(g, condBranch[i], 1)
      BY <1>7, <1>8, <1>9, <1>10, <2>3, <3>1, StackIs DEF ThenFree
    <3>4. x # t
      BY <1>2, <1>7, <2>3, <3>2, <3>3, SideDoor
    <3> QED
      BY <1>18, <3>3, <3>4
  <2>4. \A i \in 1..Len(condBranch') : \A x \in SideAhead(g, condBranch'[i], 1) : x \notin Placed'
    BY <1>17, <2>1, <2>3
  <2> QED
    BY <1>1, <2>4 DEF ThenFree
<1>21. OnLine'
  <2>1. PICK link : link = Chain(g, serializedCode, J)
    OBVIOUS
  <2>2. PICK link2 : link2 = Chain(g, serializedCode', j)
    OBVIOUS
  <2>3. /\ \A x \in g.block : x \in D => link[x] = Goes(g, serializedCode, x)
        /\ \A x \in g.block : link2[x] = IF x \in D THEN Goes(g, serializedCode', x) ELSE j
    BY <1>4, <1>14, <2>1, <2>2 DEF Chain
  <2>4. Goes(g, serializedCode', p) = t
    BY <1>12, <1>14 DEF Goes
  <2>5. \A x \in D : x # p => Goes(g, serializedCode', x) = Goes(g, serializedCode, x)
    BY <1>14 DEF Goes
  <2>6. t \notin X
    <3>1. t \in SideAhead(g, b, 1)
      BY <1>2, <1>7, SideIs DEF WithinSide
    <3> QED
      BY <1>19, <3>1
  <2>7. /\ link2[p] = t /\ link2[t] = j
        /\ \A x \in X : x # p /\ x # End => link2[x] = link[x]
    BY <1>7, <1>9, <1>12, <2>3, <2>4, <2>5, <2>6
  <2>8. Line(g, End, X, link, pos) /\ p \in X /\ p # End /\ link[p] = j
    BY <1>6, <1>8, <1>11, <1>12, <2>1
  <2>9. PICK F : F = SideAhead(g, b, 1)
    OBVIOUS
  <2>10. j \in X /\ b \in X
    BY <1>7, <1>9
  <2>11. /\ Walking(g, End, D, g.succ[b][1], SideAhead(g, b, 1), g.ipd[b])
         /\ \E pos2 : Line(g, End, Y, link2, pos2)
         /\ Uncrossed(g, End, D, Y, link2)
         /\ Inside(g, SideAhead(g, b, 1), g.ipd[b])
    <3>1. Turned(g, End, D, b, X, link, p, Y, link2)
      BY <1>7, <1>9, <1>18, <1>19, <2>7, <2>8, <2>10 DEF Turned
    <3>2. g.succ[b][1] # g.ipd[b]
      BY <1>7
    <3>3. Uncrossed(g, End, D, X, link)
      BY <1>8, <1>11, <2>1
    <3>4. /\ Uncrossed(g, End, D, Y, link2)
          /\ Inside(g, SideAhead(g, b, 1), g.ipd[b])
      BY <1>2, <1>7, <1>12, <2>8, <3>1, <3>2, <3>3, TurnUncrossed
    <3> QED
      BY <1>2, <1>7, <2>8, <3>1, <3>2, <3>4, Turn
  <2>12. PICK pos2 : Line(g, End, Y, link2, pos2)
    BY <2>11
  <2>13. /\ Walking(g, End, DOMAIN serializedCode', bb', F, j)
         /\ Inside(g, F, j)
         /\ Line(g, End, Placed', Chain(g, serializedCode', j), pos2)
         /\ Uncrossed(g, End, DOMAIN serializedCode', Placed', Chain(g, serializedCode', j))
    BY <1>1, <1>5, <1>7, <1>14, <1>17, <2>2, <2>9, <2>11, <2>12
  <2>14. /\ Walking(g, End, DOMAIN serializedCode, bb, F, j)' /\ Inside(g, F, j)'
         /\ Line(g, End, Placed, Chain(g, serializedCode, j), pos2)'
         /\ Uncrossed(g, End, DOMAIN serializedCode, Placed, Chain(g, serializedCode, j))'
    BY <1>1, <1>2, <2>13
  <2> QED
    BY <2>14 DEF OnLine
<1>22. OwnBranches' /\ Smooth'
  <2>1. code' = [x \in g'.block |-> OriginalBranch(g', x)]
    BY <1>1, <1>10 DEF OwnBranches
  <2> QED
    BY <1>1, <2>1 DEF OwnBranches, Smooth
<1> QED
  BY <1>15, <1>16, <1>20, <1>21, <1>22, <1>23 DEF LInv

\* A call that comes to a recorded block, or to the end, changes nothing.
LEMMA VisitJoinedLine ==
  ASSUME IInv, Supported(g), LInv, VisitJoined PROVE LInv'
<1>1. /\ pc = "visit" /\ (Serialized(bb) \/ Returns(bb))
      /\ pc' \in {"unwind", "done"}
      /\ UNCHANGED <<g, bb, serializedCode, condBranch, cur, code>>
  BY DEF VisitJoined, Joined
<1>2. bb \in DOMAIN serializedCode \/ bb = End
  <2>1. /\ WellFormed(g) /\ bb \in g.block
        /\ \A b \in g.block : g.succ[b] = <<>> => b = End
    BY FunctionIs, SupportedIs DEF IInv, Shape, TypeOK
  <2> QED
    BY <1>1, <2>1 DEF Serialized, Returns, WellFormed
<1>3. OwnBranches'
  <2>1. code' = [x \in g'.block |-> OriginalBranch(g', x)]
    BY <1>1 DEF LInv, OwnBranches
  <2> QED
    BY <1>1, <2>1 DEF OwnBranches
<1> QED
  BY <1>1, <1>2, <1>3, RestLine

\* A branch with an empty then side is taken off the stack.
LEMMA UnwindEmptyThenLine ==
  ASSUME IInv, Supported(g), LInv, UnwindEmptyThen PROVE LInv'
<1>1. /\ pc = "unwind" /\ PopBranch /\ pc' \in {"unwind", "done"}
      /\ UNCHANGED <<g, bb, serializedCode, cur, code>>
  BY DEF UnwindEmptyThen
<1>2. condBranch # <<>>
  BY <1>1 DEF IInv, Positions
<1>3. \A i \in 1..Len(condBranch') : \E j \in 1..Len(condBranch) : condBranch'[i] = condBranch[j]
  <2>1. /\ Len(condBranch') = Len(condBranch) - 1
        /\ \A i \in 1..Len(condBranch') : condBranch'[i] = condBranch[i]
    BY <1>1, <1>2, TopIs DEF IInv
  <2>2. Len(condBranch) \in Nat
    BY DEF IInv, Shape, TypeOK
  <2> QED
    BY <2>1, <2>2
<1>4. OwnBranches'
  <2>1. code' = [x \in g'.block |-> OriginalBranch(g', x)]
    BY <1>1 DEF LInv, OwnBranches
  <2> QED
    BY <1>1, <2>1 DEF OwnBranches
<1> QED
  BY <1>1, <1>3, <1>4, RestLine

\* The terminators become what the map says.
LEMMA ReplaceTerminatorsLine ==
  ASSUME IInv, Supported(g), LInv, ReplaceTerminators PROVE LInv'
<1>1. /\ pc = "done" /\ pc' = "replaced"
      /\ code' = [b \in g.block |-> IF Serialized(b) THEN serializedCode[b] ELSE code[b]]
      /\ UNCHANGED <<g, bb, serializedCode, condBranch, cur>>
  BY DEF ReplaceTerminators
<1>2. OwnBranches'
  <2>1. code = [b \in g.block |-> OriginalBranch(g, b)]
    BY <1>1 DEF LInv, OwnBranches
  <2>2. code' = [b \in g'.block |-> IF b \in DOMAIN serializedCode'
                                    THEN serializedCode'[b] ELSE OriginalBranch(g', b)]
    BY <1>1, <2>1 DEF Serialized
  <2> QED
    BY <1>1, <2>2 DEF OwnBranches
<1>3. \A i \in 1..Len(condBranch') : \E j \in 1..Len(condBranch) : condBranch'[i] = condBranch[j]
  BY <1>1
<1> QED
  BY <1>1, <1>2, <1>3, RestLine

\* At first the line is the entry and the end.
LEMMA InitLine == Init => LInv
<1> SUFFICES ASSUME Init, Supported(g) PROVE LInv
  BY DEF LInv
<1>1. /\ g \in Functions /\ pc = "visit" /\ bb = g.entry
      /\ DOMAIN serializedCode = {} /\ condBranch = <<>> /\ Len(condBranch) = 0
      /\ code = [b \in g.block |-> OriginalBranch(g, b)]
  BY DEF Init
<1>2. Shape
  BY InitIInv DEF IInv
<1>3. /\ Fit(g, End) /\ Graph(g) /\ g.entry \in g.block /\ End \in g.block /\ SuccSet(g, End) = {}
  BY <1>2, SupportedIs, FitIs
<1>4. Kept /\ ElseTaken /\ Doors /\ ThenFree /\ OwnBranches /\ Smooth
  BY <1>1 DEF Kept, ElseTaken, Doors, ThenFree, OwnBranches, Smooth
<1>5. \A x : x \in Placed <=> x = End \/ x = g.entry
  BY <1>1, <1>3 DEF Placed
<1>6. PICK X : X = Placed
  OBVIOUS
<1> DEFINE T == {x \in g.block : x # End}
<1>7. Walking(g, End, {}, g.entry, T, End)
  <2>1. \A x \in T : \A s \in Ahead(g, x) : s \in T \/ s = End
    BY <1>3 DEF Ahead, Graph
  <2>2. \A x \in g.block : x \notin T => x = End
    OBVIOUS
  <2>3. Later(g, End) \subseteq {End}
    <3>1. \A y \in {End} : y \in g.block => \A z \in Ahead(g, y) : z \in g.block => z \in {End}
      BY <1>3 DEF Ahead
    <3> QED
      BY <1>3, <3>1, LaterLeast
  <2>4. \A x \in g.block : \A y \in T :
          x \notin T /\ y \in Later(g, x) => End \in Later(g, x) /\ \A z \in T : z \in Later(g, x)
    BY <2>2, <2>3
  <2>5. T \in SUBSET g.block /\ End \notin T /\ (g.entry \in T \/ g.entry = End)
    BY <1>3
  <2> HIDE DEF T
  <2> QED
    BY <1>3, <2>1, <2>4, <2>5 DEF Walking
<1> DEFINE pos == [x \in X |-> IF x = g.entry THEN 0 ELSE 1]
           link == Chain(g, serializedCode, End)
<1>8. \A x \in g.block : link[x] = End
  BY <1>1 DEF Chain
<1> HIDE DEF link
<1>9. ASSUME NEW x \in X, NEW y \in X, y \in Later(g, x), y # x PROVE pos[x] < pos[y]
  <2>1. x # End
    <3>1. Ahead(g, End) = {}
      BY <1>3 DEF Ahead
    <3>2. Later(g, End) \subseteq {End}
      BY <1>3, <3>1, LaterLeast, ZenonT(30)
    <3> QED
      BY <1>9, <3>2
  <2> QED
    BY <1>5, <1>6, <1>9, <2>1
<1>10. /\ pos \in [X -> Nat] /\ g.entry \in X /\ End \in X /\ pos[g.entry] = 0
       /\ g.entry # End => pos[End] = 1
       /\ \A x \in X : x = End \/ x = g.entry
  BY <1>5, <1>6
<1>11. \A x \in X : x # End => link[x] \in X /\ pos[link[x]] = pos[x] + 1
  BY <1>3, <1>8, <1>10
<1>12. \A x \in X : x # g.entry => \E p \in X : p # End /\ link[p] = x
  BY <1>3, <1>8, <1>10
<1>13. \A x, y \in X : pos[x] = pos[y] => x = y
  BY <1>10
<1>14. \A x \in X : x \in g.block
  BY <1>3, <1>10
<1> HIDE DEF pos
<1>15. Line(g, End, X, link, pos)
  BY <1>9, <1>10, <1>11, <1>12, <1>13, <1>14 DEF Line
<1>16. OnLine
  <2>1. Line(g, End, Placed, Chain(g, serializedCode, End), pos)
    BY <1>6, <1>15 DEF link
  <2>2. Walking(g, End, DOMAIN serializedCode, bb, T, End)
    BY <1>1, <1>7
  <2>3. \A l \in DOMAIN g.header : End \notin LoopBlocks(g, l)
    BY <1>3, LoopOrder
  <2>4. Inside(g, T, End)
    BY <2>3 DEF Inside
  <2>5. Uncrossed(g, End, DOMAIN serializedCode, Placed, Chain(g, serializedCode, End))
    BY <1>1, <1>8, <1>14, <1>6, <2>3 DEF Uncrossed, link
  <2> HIDE DEF T
  <2> QED
    BY <2>1, <2>2, <2>4, <2>5 DEF OnLine
<1> QED
  BY <1>4, <1>16 DEF LInv

\* Every step keeps the invariant.
LEMMA NextLine == IInv /\ LInv /\ [Next]_vars => LInv'
<1> SUFFICES ASSUME IInv, LInv, [Next]_vars PROVE LInv'
  OBVIOUS
<1>1. g' = g
  BY DEF Next, Visit, Unwind, Search, Halt, vars, VisitUnconditional, VisitLatch,
     VisitConditional, VisitOther, VisitJoined, UnwindNoPostDominator, UnwindEmptyThen,
     UnwindRedirect, UnwindSearch, SearchFollow, SearchSplit, ReplaceTerminators
<1>2. CASE ~Supported(g)
  BY <1>1, <1>2 DEF LInv
<1>3. CASE Supported(g)
  <2> USE <1>3
  <2>1. CASE Visit
    <3>1. ~VisitOther
      BY SupportedIs DEF VisitOther, Returns, IInv, Shape, TypeOK
    <3> QED
      BY <2>1, <3>1, VisitUnconditionalLine, VisitLatchLine, VisitConditionalLine,
         VisitJoinedLine DEF Visit
  <2>2. CASE Unwind
    <3>1. ~UnwindNoPostDominator /\ ~UnwindSearch
      BY JoinPlaced DEF UnwindNoPostDominator, UnwindSearch
    <3> QED
      BY <2>2, <3>1, UnwindEmptyThenLine, UnwindRedirectLine DEF Unwind
  <2>3. CASE Search
    BY <2>3 DEF Search, SearchFollow, SearchSplit, LInv, Smooth
  <2>4. CASE ReplaceTerminators
    BY <2>4, ReplaceTerminatorsLine
  <2>5. CASE Halt \/ UNCHANGED vars
    <3>1. UNCHANGED vars
      BY <2>5 DEF Halt
    <3>2. End' = End /\ Placed' = Placed
      BY <3>1 DEF vars, End, Placed
    <3>3. Kept' /\ ElseTaken' /\ Doors' /\ ThenFree' /\ OwnBranches' /\ Smooth'
      BY <3>1, <3>2 DEF LInv, vars, Kept, ElseTaken, Doors, ThenFree, OwnBranches, Smooth, Covered, Serialized
    <3>4. OnLine'
      BY <3>1, <3>2 DEF LInv, vars, OnLine
    <3> QED
      BY <3>3, <3>4 DEF LInv
  <2> QED
    BY <2>1, <2>2, <2>3, <2>4, <2>5 DEF Next
<1> QED
  BY <1>2, <1>3

\* The two invariants together.
LEMMA SpecLine == Spec => [](IInv /\ LInv)
BY InitIInv, InitLine, NextIInv, NextLine, PTL DEF Spec

\* When the walk is over, all the blocks are on the line.
LEMMA AllPlaced ==
  ASSUME IInv, Supported(g), LInv, pc \in {"done", "replaced"}
  PROVE  /\ Placed = g.block
         /\ \A b \in g.block : b = End \/ b \in DOMAIN serializedCode
<1>1. /\ Fit(g, End) /\ Graph(g) /\ g.entry \in g.block /\ End \in g.ret /\ Exits(g) = {End}
      /\ \A b \in g.block : g.succ[b] = <<>> => b = End
      /\ SuccSet(g, End) = {}
      /\ \A b \in g.block : b \in ReachAvoiding(g, {g.entry}, {})
  BY SupportedIs, FitIs DEF IInv
<1>2. condBranch = <<>>
  BY <1>1 DEF IInv, NothingLeftOver
<1>3. /\ Placed \subseteq g.block
      /\ \A x : x \in Placed <=> x \in DOMAIN serializedCode \/ x = End
  BY PlacedIs
<1>4. \A b \in g.block : Covered(b) => b \in Placed
  BY <1>1, <1>3 DEF Covered, Serialized
<1>5. g.entry \in Placed
  BY <1>1, <1>4 DEF IInv, SidesPending
<1>6. ASSUME NEW b \in Placed, NEW s \in SuccSet(g, b) PROVE s \in Placed
  <2>1. b \in DOMAIN serializedCode /\ s \in g.block
    BY <1>1, <1>3, <1>6 DEF Graph
  <2>2. Covered(s)
    BY <1>2, <1>6, <2>1 DEF IInv, SidesPending
  <2> QED
    BY <1>4, <2>1, <2>2
<1>7. {g.entry} \in SUBSET g.block
  BY <1>1
<1>8. ReachAvoiding(g, {g.entry}, {}) \subseteq Placed
  BY <1>1, <1>5, <1>6, <1>7, ReachLeast
<1> QED
  BY <1>1, <1>3, <1>8

\* The function the pass leaves goes along the line.
LEMMA OutputIs ==
  ASSUME IInv, Supported(g), LInv, pc = "replaced", NEW J
  PROVE  LoopsAlong(g, End, output, Chain(g, serializedCode, J))
<1>1. /\ Fit(g, End) /\ End \in g.block /\ End \in g.ret /\ Null \notin g.block /\ WellFormed(g)
      /\ \A b \in g.block : b = End \/ b \in DOMAIN serializedCode
      /\ \A b \in g.block : g.ret \subseteq g.block
  BY SupportedIs, FunctionIs, AllPlaced DEF IInv, WellFormed
<1>2. output.block = g.block /\ output.entry = g.entry
  BY DEF output
<1>3. ASSUME NEW b \in g.block, NEW t, NEW e, code[b].then = t, code[b].els = e
      PROVE  /\ t = Null => output.succ[b] = <<>>
             /\ t # Null /\ e = Null => output.succ[b] = <<t>>
             /\ t # Null /\ e # Null => output.succ[b] = <<t, e>>
  BY <1>3 DEF output
<1>4. SuccSet(output, End) = {}
  <2>1. code[End] = newBranch(Null, Null, Null)
    <3>1. code[End] = OriginalBranch(g, End)
      BY <1>1 DEF LInv, OwnBranches, Kept
    <3>2. g.succ[End] = <<>>
      BY <1>1 DEF WellFormed
    <3> QED
      BY <3>1, <3>2 DEF OriginalBranch
  <2>2. output.succ[End] = <<>>
    BY <1>1, <1>3, <2>1 DEF newBranch
  <2> QED
    BY <2>2 DEF SuccSet
<1>5. ASSUME NEW b \in g.block, b # End
      PROVE  /\ Chain(g, serializedCode, J)[b] \in SuccSet(output, b)
             /\ \A s \in SuccSet(output, b) :
                  s = Chain(g, serializedCode, J)[b] \/ s \in g.dom[b]
             /\ b \in DOMAIN g.header => \A s : s \in SuccSet(output, b) <=> s \in SuccSet(g, b)
             /\ b \notin DOMAIN g.header =>
                  \A s \in SuccSet(output, b) : s = Chain(g, serializedCode, J)[b]
  <2>1. /\ b \in DOMAIN serializedCode /\ code[b] = serializedCode[b]
        /\ serializedCode[b].then \in g.block
    BY <1>1, <1>5 DEF LInv, OwnBranches, IInv, Shape, TypeOK
  <2>2. Chain(g, serializedCode, J)[b] = Goes(g, serializedCode, b)
    BY <2>1 DEF Chain
  <2>3. CASE b \in DOMAIN g.header
    <3>1. PICK x \in g.block \ LoopBlocks(g, b) :
            /\ SuccSet(g, b) = {g.header[b], x} /\ x # g.header[b]
            /\ g.succ[b][1] = g.header[b] => g.succ[b][2] = x
            /\ g.succ[b][1] # g.header[b] => g.succ[b][1] = x /\ g.succ[b][2] = g.header[b]
      BY <1>1, <2>3, LatchLeaves
    <3>2. serializedCode[b] = newBranch(b, g.succ[b][1], g.succ[b][2])
      BY <2>1, <2>3 DEF LInv, Kept
    <3>3. g.header[b] \in g.block /\ g.header[b] \in g.dom[b]
      BY <1>1, <2>3, LatchIs
    <3>4. g.succ[b][1] \in g.block /\ g.succ[b][2] \in g.block
      BY <3>1, <3>3
    <3>5. output.succ[b] = <<g.succ[b][1], g.succ[b][2]>>
      BY <1>1, <1>3, <2>1, <3>2, <3>4 DEF newBranch
    <3>6. SuccSet(output, b) = {g.succ[b][1], g.succ[b][2]}
      BY <3>5 DEF SuccSet
    <3> QED
      BY <2>2, <2>3, <3>1, <3>3, <3>6 DEF Goes
  <2>4. CASE b \notin DOMAIN g.header
    <3>1. serializedCode[b].els = Null
      BY <2>1, <2>4 DEF LInv, Kept
    <3>2. output.succ[b] = <<serializedCode[b].then>>
      BY <1>1, <1>3, <2>1, <3>1
    <3>3. SuccSet(output, b) = {serializedCode[b].then}
      BY <3>2 DEF SuccSet
    <3> QED
      BY <2>2, <2>4, <3>3 DEF Goes
  <2> QED
    BY <2>3, <2>4
<1>6. ASSUME NEW b \in g.block, NEW s \in SuccSet(output, b)
      PROVE  s = Chain(g, serializedCode, J)[b] \/ s \in g.dom[b]
  BY <1>4, <1>5, <1>6
<1>7. AlongLine(g, End, output, Chain(g, serializedCode, J))
  BY <1>2, <1>4, <1>5, <1>6 DEF AlongLine
<1>8. /\ DOMAIN g.header \subseteq g.block
      /\ End \notin DOMAIN g.header
  <2>1. SuccSet(g, End) = {}
    BY <1>1, FitIs
  <2> QED
    BY <1>1, <2>1, LatchIs DEF WellFormed
<1> QED
  BY <1>4, <1>5, <1>7, <1>8 DEF LoopsAlong

-----------------------------------------------------------------------------
(* What the walk comes to on a supported function.                          *)

\* A supported function (one ret, structured branches, rotated loops) is made
\* a straight line: all its blocks are on one way from the entry to the ret,
\* each after those that came before it (recursiveSerialization as a whole).
THEOREM StraightLine == Spec => []Linearised
<1>1. ASSUME IInv, LInv PROVE Linearised
  <2> SUFFICES ASSUME Stopped, Supported(g) PROVE Right
    BY DEF Linearised
  <2>1. pc = "replaced"
    BY <1>1 DEF Stopped, LInv, Smooth
  <2>2. Fit(g, End) /\ Placed = g.block
    BY <1>1, <2>1, SupportedIs, AllPlaced DEF IInv
  <2>3. PICK J, pos : Line(g, End, g.block, Chain(g, serializedCode, J), pos)
    BY <1>1, <2>2 DEF LInv, OnLine
  <2>4. AlongLine(g, End, output, Chain(g, serializedCode, J))
    BY <1>1, <2>1, OutputIs DEF LoopsAlong
  <2>5. PICK out : out = output
    OBVIOUS
  <2>6. /\ Reachable(g) \subseteq Reachable(out)
        /\ \A b \in Reachable(out) \ Exits(g) :
             Cardinality(SuccSet(out, b) \ DominatorsOf(out)[b]) = 1
        /\ \A e \in ForwardEdges(g) : e[1] \in DominatorsOf(out)[e[2]]
    BY <2>2, <2>3, <2>4, <2>5, LineIsStraight
  <2>7. Straight(out)
    BY <2>6 DEF Straight
  <2> QED
    BY <2>1, <2>5, <2>7 DEF Right
<1> QED
  BY <1>1, SpecLine, PTL

\* When a then side is inserted before the join there is exactly one recorded
\* block that goes there: what the loop over the map (lines 468-470) takes does
\* not depend on the addresses of the blocks.
THEOREM OnePlace == Spec => []RedirectDetermined
<1>1. ASSUME IInv, LInv PROVE RedirectDetermined
  <2> SUFFICES ASSUME pc = "unwind", Supported(g), Joined(postDom), thenSide # postDom
               PROVE  Cardinality(EntriesInto(postDom)) = 1
    BY DEF RedirectDetermined
  <2>1. PICK J, pos : Line(g, End, Placed, Chain(g, serializedCode, J), pos)
    BY <1>1 DEF LInv, OnLine
  <2>2. PICK p : EntriesInto(postDom) = {p}
    BY <1>1, <2>1, OneEntry
  <2> QED
    BY <2>2, FS_Singleton
<1> QED
  BY <1>1, SpecLine, PTL

\* The loops of a supported function stay what they were: the same latches
\* jump back to the same headers, around the same blocks.
THEOREM LoopsStay == Spec => []LoopsKept
<1>1. ASSUME IInv, LInv PROVE LoopsKept
  <2> SUFFICES ASSUME pc = "replaced", Supported(g)
               PROVE  SameLoops(g, output)
    BY DEF LoopsKept, SameLoops
  <2>1. /\ Fit(g, End) /\ Placed = g.block
        /\ \A x \in g.block : x = End \/ x \in DOMAIN serializedCode
    BY <1>1, SupportedIs, AllPlaced DEF IInv
  <2>2. PICK J, pos :
          /\ Line(g, End, g.block, Chain(g, serializedCode, J), pos)
          /\ Uncrossed(g, End, DOMAIN serializedCode, g.block, Chain(g, serializedCode, J))
    BY <1>1, <2>1 DEF LInv, OnLine
  <2>3. LoopsAlong(g, End, output, Chain(g, serializedCode, J))
    BY <1>1, OutputIs
  <2>4. PICK out : out = output
    OBVIOUS
  <2>5. PICK link : link = Chain(g, serializedCode, J)
    OBVIOUS
  <2>6. PICK D : D = DOMAIN serializedCode
    OBVIOUS
  <2>7. /\ Line(g, End, g.block, link, pos) /\ Uncrossed(g, End, D, g.block, link)
        /\ LoopsAlong(g, End, out, link) /\ \A x \in g.block : x = End \/ x \in D
    BY <2>1, <2>2, <2>3, <2>4, <2>5, <2>6
  <2>8. SameLoops(g, out)
    BY <2>1, <2>7, LoopsAreKept
  <2> QED
    BY <2>4, <2>8
<1> QED
  BY <1>1, SpecLine, PTL

\* The blocks a latch leads to are entered from the same blocks as before.
LEMMA MeetingsKept ==
  ASSUME IInv, LInv, Supported(g), pc = "replaced",
         NEW l \in DOMAIN g.header, NEW x \in SuccSet(g, l)
  PROVE  Preds(output, x) = Preds(g, x)
<1>1. /\ Fit(g, End) /\ Placed = g.block
      /\ \A b \in g.block : b = End \/ b \in DOMAIN serializedCode
  BY SupportedIs, AllPlaced DEF IInv
<1>2. PICK J, pos : Line(g, End, g.block, Chain(g, serializedCode, J), pos)
  BY <1>1 DEF LInv, OnLine
<1>3. LoopsAlong(g, End, output, Chain(g, serializedCode, J))
  BY OutputIs
<1>4. ASSUME NEW p \in g.block, NEW k \in DOMAIN g.header, SuccSet(g, p) = {g.header[k]}
      PROVE  Chain(g, serializedCode, J)[p] = g.header[k]
  <2>1. p # End /\ p \in DOMAIN serializedCode
    <3>1. SuccSet(g, End) = {}
      BY <1>1, FitIs
    <3> QED
      BY <1>1, <1>4, <3>1
  <2>2. p \notin DOMAIN g.header
    <3> SUFFICES ASSUME p \in DOMAIN g.header PROVE FALSE
      OBVIOUS
    <3>1. PICK x1 : SuccSet(g, p) = {g.header[p], x1} /\ x1 # g.header[p]
      BY <1>1, LatchLeaves, SMTT(30)
    <3> QED
      BY <1>4, <3>1
  <2>3. serializedCode[p].then = g.header[k]
    BY <1>4, <2>1 DEF LInv, Doors
  <2> QED
    BY <2>1, <2>2, <2>3 DEF Chain, Goes
<1>5. PICK out : out = output
  OBVIOUS
<1>6. PICK link : link = Chain(g, serializedCode, J)
  OBVIOUS
<1>7. /\ Line(g, End, g.block, link, pos) /\ LoopsAlong(g, End, out, link)
      /\ \A p \in g.block : \A k \in DOMAIN g.header :
           SuccSet(g, p) = {g.header[k]} => link[p] = g.header[k]
  BY <1>2, <1>3, <1>4, <1>5, <1>6
<1>8. PICK r : r = End
  OBVIOUS
<1>9. /\ Fit(g, r) /\ Line(g, r, g.block, link, pos) /\ LoopsAlong(g, r, out, link)
  BY <1>1, <1>7, <1>8
<1>10. Preds(out, x) = Preds(g, x)
  BY <1>7, <1>9, PredsAreKept
<1> QED
  BY <1>5, <1>10
=============================================================================
