-------------------------- MODULE SecretPassProofs --------------------------
(* The search of the values that depend on the arguments is exact, and       *)
(* implements Dependence, for every data flow: cycles (the phis of loops),   *)
(* values used by many, and instructions that use a value twice. And what is *)
(* proved of the walk (SerializationProofs) and of the search holds inside   *)
(* the pass as a whole, where the walk leaves the phis that stay intact.     *)
(* Then the padding: what the pass has padded, guarded and replaced before   *)
(* each loop's turn, and inside it, is a function of the program alone, so   *)
(* the pass comes to its end exactly when the program meets no hazard.       *)
EXTENDS SecretPass, SerializationProofs

value == DOMAIN flow.users

uses(v) == flow.users[v]

\* The search's data are well typed.
Typed ==
  /\ WellFormedFlow(flow)
  /\ arg \in 1..(Len(flow.roots) + 1)
  /\ UsersVector \in Seq(value)
  /\ stack \in Seq([inst : value, next : Nat \ {0}])

\* An active call has pushed its value, and the users before its position.
Frames ==
  \A n \in 1..Len(stack) :
    /\ InVector(stack[n].inst)
    /\ stack[n].next <= Len(uses(stack[n].inst)) + 1
    /\ \A k \in 1..(stack[n].next - 1) : InVector(uses(stack[n].inst)[k])

\* InVector, of the vector V.
Pushed(V, v) == \E i \in DOMAIN V : V[i] = v

Active(v) == \E n \in 1..Len(stack) : stack[n].inst = v

AllUsersPushed(v) == \A k \in 1..Len(uses(v)) : InVector(uses(v)[k])

\* The call for a value that was pushed is active, or its users were pushed.
Pending == \A v \in value : InVector(v) => Active(v) \/ AllUsersPushed(v)

RootsPushed ==
  /\ \A i \in 1..(arg - 1) : InVector(flow.roots[i])
  /\ arg = 1 => UsersVector = <<>>

FromRoot(v) == \E j \in 1..(arg - 1) : v = flow.roots[j]

FromUser(v, i) ==
  \E j \in 1..(i - 1) : \E k \in 1..Len(uses(UsersVector[j])) : v = uses(UsersVector[j])[k]

\* A value was pushed as a root, or as a user of one before it.
Origins == \A i \in 1..Len(UsersVector) : FromRoot(UsersVector[i]) \/ FromUser(UsersVector[i], i)

NoDuplicate ==
  \A i, j \in 1..Len(UsersVector) : UsersVector[i] = UsersVector[j] => i = j

\* The inductive invariant.
SearchInv == Typed /\ Frames /\ Pending /\ RootsPushed /\ Origins /\ NoDuplicate

-----------------------------------------------------------------------------
\* The positions before a, if b is not before a, are before b.
LEMMA BeforeLonger == \A a, b \in Nat : b >= a => \A j \in 1..(a - 1) : j \in 1..(b - 1)
OBVIOUS

\* The last of the positions from 1 to m, and those before it.
LEMMA PositionsTo ==
  \A m \in Nat \ {0} : /\ m \in 1..m /\ \A n \in 1..(m - 1) : n \in 1..m
                       /\ \A n \in 1..m : n \in 1..(m - 1) \/ n = m
OBVIOUS

\* Use lists are sequences of values.
LEMMA UsesTyped ==
  ASSUME WellFormedFlow(flow), NEW v \in value
  PROVE  /\ uses(v) \in Seq(value) /\ Len(uses(v)) \in Nat
         /\ \A k \in 1..Len(uses(v)) : uses(v)[k] \in value
<1>1. uses(v) \in Seq(value)
  BY DEF WellFormedFlow, value, uses
<1>. QED
  BY <1>1, ElementOfSeq, LenProperties

\* A value in the vector, by its positions from 1 to the length.
LEMMA InVectorByIndex ==
  ASSUME UsersVector \in Seq(value), NEW v
  PROVE  InVector(v) <=> \E i \in 1..Len(UsersVector) : UsersVector[i] = v
BY LenProperties DEF InVector

\* Pushing a value e adds e to the vector, at its end.
LEMMA Push ==
  ASSUME UsersVector \in Seq(value), NEW e \in value,
         UsersVector' = Append(UsersVector, e), flow' = flow
  PROVE  /\ UsersVector' \in Seq(value')
         /\ Len(UsersVector') = Len(UsersVector) + 1
         /\ \A i \in 1..Len(UsersVector) : UsersVector'[i] = UsersVector[i]
         /\ UsersVector'[Len(UsersVector) + 1] = e
         /\ \A v : InVector(v)' <=> InVector(v) \/ v = e
<1>. Len(UsersVector) \in Nat
  BY LenProperties
<1>1. /\ UsersVector' \in Seq(value')
      /\ Len(UsersVector') = Len(UsersVector) + 1
      /\ \A i \in 1..Len(UsersVector) : UsersVector'[i] = UsersVector[i]
      /\ UsersVector'[Len(UsersVector) + 1] = e
  BY AppendProperties DEF value
<1>2. ASSUME NEW v PROVE InVector(v)' <=> InVector(v) \/ v = e
  <2>1. InVector(v)' <=> \E i \in 1..Len(UsersVector') : UsersVector'[i] = v
    BY <1>1, LenProperties DEF InVector
  <2>2. InVector(v) <=> \E i \in 1..Len(UsersVector) : UsersVector[i] = v
    BY InVectorByIndex
  <2>. QED
    BY <1>1, <2>1, <2>2
<1>. QED
  BY <1>1, <1>2

\* Origins and NoDuplicate when a new value with an origin is pushed.
LEMMA PushKeeps ==
  ASSUME Typed, Origins, NoDuplicate, NEW e \in value, ~InVector(e),
         UsersVector' = Append(UsersVector, e), flow' = flow,
         arg' \in Nat, arg' >= arg,
         \/ \E j \in 1..(arg' - 1) : e = flow.roots[j]
         \/ \E j \in 1..Len(UsersVector) : \E k \in 1..Len(uses(UsersVector[j])) :
              e = uses(UsersVector[j])[k]
  PROVE  Origins' /\ NoDuplicate'
<1>. DEFINE n == Len(UsersVector)
<1>0. UsersVector \in Seq(value) /\ n \in Nat /\ arg \in Nat
  BY LenProperties DEF Typed
<1>1. /\ Len(UsersVector') = n + 1
      /\ \A i \in 1..n : UsersVector'[i] = UsersVector[i]
      /\ UsersVector'[n + 1] = e
  BY <1>0, Push
<1>2. \A i \in 1..n : UsersVector[i] # e
  BY <1>0, InVectorByIndex
<1>3. NoDuplicate'
  BY <1>0, <1>1, <1>2 DEF NoDuplicate
<1>4. ASSUME NEW i \in 1..(n + 1)
      PROVE  FromRoot(UsersVector[i])' \/ FromUser(UsersVector[i], i)'
  <2>1. CASE i \in 1..n
    <3>1. CASE FromRoot(UsersVector[i])
      <4>1. PICK j \in 1..(arg - 1) : UsersVector[i] = flow.roots[j]
        BY <3>1 DEF FromRoot
      <4>2. j \in 1..(arg' - 1)
        BY <1>0, <4>1, BeforeLonger
      <4>3. UsersVector'[i] = UsersVector[i]
        BY <1>1, <2>1
      <4>. QED
        BY <4>1, <4>2, <4>3 DEF FromRoot
    <3>2. CASE FromUser(UsersVector[i], i)
      <4>1. PICK j \in 1..(i - 1) : \E k \in 1..Len(uses(UsersVector[j])) :
                                     UsersVector[i] = uses(UsersVector[j])[k]
        BY <3>2 DEF FromUser
      <4>2. UsersVector'[j] = UsersVector[j] /\ UsersVector'[i] = UsersVector[i]
        BY <1>0, <1>1, <2>1
      <4>3. \E k \in 1..Len(flow'.users[UsersVector'[j]]) :
              UsersVector'[i] = flow'.users[UsersVector'[j]][k]
        BY <4>1, <4>2 DEF uses
      <4>. QED
        BY <4>3 DEF FromUser, uses
    <3>. QED
      BY <2>1, <3>1, <3>2 DEF Origins
  <2>2. CASE i = n + 1
    <3>1. CASE \E j \in 1..(arg' - 1) : e = flow.roots[j]
      BY <1>1, <2>2, <3>1 DEF FromRoot
    <3>2. CASE \E j \in 1..n : \E k \in 1..Len(uses(UsersVector[j])) :
                 e = uses(UsersVector[j])[k]
      <4>1. PICK j \in 1..n : \E k \in 1..Len(uses(UsersVector[j])) :
                               e = uses(UsersVector[j])[k]
        BY <3>2
      <4>2. j \in 1..(i - 1) /\ UsersVector'[j] = UsersVector[j] /\ UsersVector'[i] = e
        BY <1>0, <1>1, <2>2
      <4>3. \E k \in 1..Len(flow'.users[UsersVector'[j]]) :
              UsersVector'[i] = flow'.users[UsersVector'[j]][k]
        BY <4>1, <4>2 DEF uses
      <4>. QED
        BY <4>2, <4>3 DEF FromUser, uses
    <3>. QED
      BY <3>1, <3>2
  <2>. QED
    BY <1>0, <2>1, <2>2
<1>. QED
  BY <1>0, <1>1, <1>3, <1>4 DEF Origins

-----------------------------------------------------------------------------
(* Every step keeps the inductive invariant.                                *)

LEMMA InitSearch == WellFormedFlow(flow) /\ TaintInit => SearchInv
<1>. SUFFICES ASSUME WellFormedFlow(flow), TaintInit PROVE SearchInv
  OBVIOUS
<1>1. UsersVector = <<>> /\ stack = <<>> /\ arg = 1 /\ Len(UsersVector) = 0 /\ Len(stack) = 0
  BY DEF TaintInit
<1>2. Len(flow.roots) \in Nat
  BY LenProperties DEF WellFormedFlow
<1>3. Typed
  BY <1>1, <1>2, EmptySeq DEF Typed
<1>. QED
  BY <1>1, <1>3 DEF SearchInv, Frames, Pending, InVector, RootsPushed, Origins, NoDuplicate

\* The stack's top and its value, when a call is active.
LEMMA Top ==
  ASSUME SearchInv, stack # <<>>
  PROVE  /\ Len(stack) \in Nat \ {0}
         /\ top \in [inst : value, next : Nat \ {0}]
         /\ top.inst \in value /\ InVector(top.inst) /\ users = uses(top.inst)
         /\ Len(users) \in Nat /\ top.next \in Nat \ {0} /\ top.next <= Len(users) + 1
         /\ \A k \in 1..(top.next - 1) : InVector(users[k])
         /\ \A k \in 1..Len(users) : users[k] \in value
<1>1. Len(stack) \in Nat \ {0}
  BY LenProperties, EmptySeq DEF SearchInv, Typed
<1>2. top \in [inst : value, next : Nat \ {0}]
  <2>1. stack \in Seq([inst : value, next : Nat \ {0}]) /\ Len(stack) \in 1..Len(stack)
    BY <1>1 DEF SearchInv, Typed
  <2>. QED
    BY <2>1, ElementOfSeq DEF top
<1>3. users = uses(top.inst)
  BY DEF users, uses
<1>4. \A k \in 1..(top.next - 1) : InVector(users[k])
  BY <1>1, <1>3 DEF SearchInv, Frames, top
<1>5. InVector(top.inst) /\ top.next <= Len(users) + 1
  BY <1>1, <1>3 DEF SearchInv, Frames, top
<1>. QED
  BY <1>1, <1>2, <1>3, <1>4, <1>5, UsesTyped DEF SearchInv, Typed

\* Advancing the top moves its position, and nothing else.
LEMMA AdvanceTop ==
  ASSUME SearchInv, stack # <<>>
  PROVE  /\ Advance \in Seq([inst : value, next : Nat \ {0}])
         /\ Len(Advance) = Len(stack)
         /\ \A n \in 1..Len(stack) : Advance[n].inst = stack[n].inst
         /\ \A n \in 1..(Len(stack) - 1) : Advance[n] = stack[n]
         /\ Advance[Len(stack)].next = top.next + 1
<1>. DEFINE Frame_ == [inst : value, next : Nat \ {0}]
            l == Len(stack)
<1>1. stack \in Seq(Frame_) /\ l \in Nat \ {0} /\ top \in Frame_ /\ top = stack[l]
  BY Top DEF SearchInv, Typed, top
<1>2. stack \in [1..l -> Frame_]
  BY <1>1, LenProperties
<1>2a. l \in 1..l
  BY <1>1
<1>3. [top EXCEPT !.next = @ + 1] \in Frame_
  BY <1>1
<1>4. Advance = [stack EXCEPT ![l] = [top EXCEPT !.next = @ + 1]]
  BY <1>1, <1>2 DEF Advance, top
<1>5. Advance \in Seq(Frame_) /\ Len(Advance) = l
  BY <1>1, <1>2a, <1>3, <1>4, ExceptSeq
<1>6. /\ \A n \in 1..(l - 1) : Advance[n] = stack[n]
      /\ Advance[l] = [top EXCEPT !.next = @ + 1]
  BY <1>1, <1>2, <1>2a, <1>4
<1>7. Advance[l].next = top.next + 1 /\ Advance[l].inst = stack[l].inst
  BY <1>1, <1>6
<1>8. \A n \in 1..l : n \in 1..(l - 1) \/ n = l
  BY <1>1
<1>9. \A n \in 1..l : Advance[n].inst = stack[n].inst
  BY <1>6, <1>7, <1>8
<1>. QED
  BY <1>5, <1>6, <1>7, <1>9


\* Users that were pushed stay in the vector.
LEMMA Grow ==
  ASSUME flow' = flow, \A v : InVector(v) => InVector(v)'
  PROVE  \A v : AllUsersPushed(v) => AllUsersPushed(v)'
<1>1. \A v : uses(v)' = uses(v)
  BY DEF uses
<1>. QED
  BY <1>1 DEF AllUsersPushed

\* A root that was not called for is not in the vector: it is no
\* instruction, so no user, and the roots differ.
LEMMA RootNew == SearchInv /\ CallRoot => ~InVector(flow.roots[arg])
<1>. SUFFICES ASSUME SearchInv, CallRoot PROVE ~InVector(flow.roots[arg])
  OBVIOUS
<1>. DEFINE e == flow.roots[arg]
<1>1. /\ arg \in 1..Len(flow.roots) /\ flow.roots \in Seq(value) /\ UsersVector \in Seq(value)
  BY LenProperties DEF SearchInv, Typed, CallRoot, WellFormedFlow, value
<1>2. ~InVector(e)
  <2>. SUFFICES ASSUME NEW i \in 1..Len(UsersVector), UsersVector[i] = e PROVE FALSE
    BY <1>1, InVectorByIndex
  <2>1. arg # 1
    BY <1>1, EmptySeq DEF SearchInv, RootsPushed
  <2>2. ~FromRoot(e)
    BY <1>1, LenProperties DEF FromRoot, SearchInv, Typed, WellFormedFlow
  <2>3. ~FromUser(e, i)
    <3>1. SUFFICES ASSUME NEW j \in 1..(i - 1), NEW k \in 1..Len(uses(UsersVector[j])),
                          e = uses(UsersVector[j])[k]
                   PROVE  FALSE
      BY DEF FromUser
    <3>2. j \in 1..Len(UsersVector) /\ Len(UsersVector) \in Nat
      BY <1>1, LenProperties
    <3>3. UsersVector[j] \in value
      BY <1>1, <3>2, ElementOfSeq
    <3>4. k \in DOMAIN uses(UsersVector[j])
      BY <3>3, UsesTyped, LenProperties DEF SearchInv, Typed
    <3>5. e \in ToSet(flow.users[UsersVector[j]])
      BY <3>1, <3>4 DEF ToSet, uses
    <3>6. arg \in DOMAIN flow.roots /\ arg > 1
      BY <1>1, <2>1, LenProperties
    <3>7. \A r \in DOMAIN flow.roots : \A v \in value :
            r > 1 => flow.roots[r] \notin ToSet(flow.users[v])
      BY DEF SearchInv, Typed, WellFormedFlow, value
    <3>. QED
      BY <3>3, <3>5, <3>6, <3>7
  <2>. QED
    BY <2>2, <2>3 DEF SearchInv, Origins
<1>. QED
  BY <1>2

LEMMA RootStep == SearchInv /\ CallRoot => SearchInv'
<1>. SUFFICES ASSUME SearchInv, CallRoot PROVE SearchInv'
  OBVIOUS
<1>. DEFINE e == flow.roots[arg]
<1>1. /\ stack = <<>> /\ arg \in 1..Len(flow.roots) /\ flow' = flow /\ arg' = arg + 1
      /\ UsersVector' = Append(UsersVector, e) /\ stack' = <<Frame(e)>>
      /\ Len(flow.roots) \in Nat /\ flow.roots \in Seq(value)
      /\ UsersVector \in Seq(value)
  BY LenProperties DEF SearchInv, Typed, CallRoot, WellFormedFlow, value
<1>2. e \in value
  BY <1>1, ElementOfSeq
<1>3. ~InVector(e)
  BY RootNew
<1>4. \A v : InVector(v)' <=> InVector(v) \/ v = e
  BY <1>1, <1>2, Push
<1>5. Len(stack') = 1 /\ stack'[1] = Frame(e) /\ Frame(e).inst = e /\ Frame(e).next = 1
  BY <1>1 DEF Frame
<1>6. Typed'
  <2>1. UsersVector' \in Seq(value')
    BY <1>1, <1>2, Push
  <2>2. Frame(e) \in [inst : value, next : Nat \ {0}]
    BY <1>2 DEF Frame
  <2>3. stack' \in Seq([inst : value, next : Nat \ {0}])
    BY <1>1, <2>2
  <2>. QED
    BY <1>1, <2>1, <2>3 DEF SearchInv, Typed, WellFormedFlow, value
<1>7. Frames'
  <2>1. Len(uses(e)') \in Nat
    BY <1>1, <1>2, UsesTyped DEF SearchInv, Typed, uses
  <2>. QED
    BY <1>4, <1>5, <2>1 DEF Frames
<1>8. Pending'
  <2>1. SUFFICES ASSUME NEW v \in value, InVector(v)' PROVE Active(v)' \/ AllUsersPushed(v)'
    BY <1>1 DEF Pending, value
  <2>2. CASE v = e
    BY <1>5, <2>2 DEF Active
  <2>3. CASE InVector(v)
    <3>1. ~Active(v)
      BY <1>1 DEF Active
    <3>. QED
      BY <1>1, <1>4, <2>3, <3>1, Grow DEF SearchInv, Pending
  <2>. QED
    BY <1>4, <2>1, <2>2, <2>3
<1>9. RootsPushed'
  <2>1. \A i \in 1..arg : InVector(flow.roots[i])'
    BY <1>1, <1>4 DEF SearchInv, RootsPushed
  <2>. QED
    BY <1>1, <2>1 DEF RootsPushed
<1>10. Origins' /\ NoDuplicate'
  BY <1>1, <1>2, <1>3, PushKeeps DEF SearchInv
<1>. QED
  BY <1>6, <1>7, <1>8, <1>9, <1>10 DEF SearchInv

\* What the steps of an active call have in common: the top has moved past
\* temp, which is in the vector now; the vector has only grown.
LEMMA AdvanceKeeps ==
  ASSUME SearchInv, stack # <<>>, top.next <= Len(users), flow' = flow, arg' = arg,
         \A v : Pushed(UsersVector, v) => Pushed(UsersVector', v),
         Pushed(UsersVector', temp), Typed',
         Len(stack') >= Len(stack),
         \A n \in 1..Len(stack) : stack'[n] = Advance[n],
         \A n \in (Len(stack) + 1)..Len(stack') :
           stack'[n].next = 1 /\ Pushed(UsersVector', stack'[n].inst),
         \A v \in value : InVector(v)' => InVector(v) \/ Active(v)'
  PROVE  Frames' /\ Pending' /\ (\A i \in 1..(arg' - 1) : InVector(flow.roots[i])')
<1>. DEFINE l == Len(stack)
<1>0. /\ l \in Nat \ {0} /\ Len(stack') \in Nat
      /\ stack' \in Seq([inst : value, next : Nat \ {0}])
  BY Top, LenProperties DEF Typed, value
<1>1. /\ \A n \in 1..l : stack'[n].inst = stack[n].inst
      /\ \A n \in 1..(l - 1) : stack'[n] = stack[n]
      /\ stack'[l].next = top.next + 1
  <2>1. l \in 1..l /\ \A n \in 1..(l - 1) : n \in 1..l
    BY <1>0, PositionsTo
  <2>. QED
    BY <2>1, AdvanceTop
<1>2. \A v : InVector(v) => Pushed(UsersVector', v)
  BY DEF InVector, Pushed
<1>3. ASSUME NEW n \in 1..Len(stack')
      PROVE  /\ Pushed(UsersVector', stack'[n].inst)
             /\ stack'[n].next <= Len(uses(stack'[n].inst)) + 1
             /\ \A k \in 1..(stack'[n].next - 1) : Pushed(UsersVector', uses(stack'[n].inst)[k])
  <2>1. CASE n \in 1..(l - 1)
    <3>1. n \in 1..l
      BY <1>0, <2>1, PositionsTo
    <3>2. stack'[n] = stack[n]
      BY <1>1, <2>1
    <3>. QED
      BY <1>2, <3>1, <3>2 DEF SearchInv, Frames
  <2>2. CASE n = l
    <3>1. stack'[n].inst = top.inst /\ stack'[n].next = top.next + 1
      BY <1>0, <1>1, <2>2 DEF top
    <3>2. Pushed(UsersVector', top.inst)
      BY <1>2, Top
    <3>3. \A k \in 1..top.next : Pushed(UsersVector', users[k])
      <4>1. \A k \in 1..top.next : k \in 1..(top.next - 1) \/ k = top.next
        BY Top
      <4>. QED
        BY <1>2, <4>1, Top DEF temp
    <3>4. uses(stack'[n].inst) = users
      BY <3>1, Top
    <3>5. stack'[n].next - 1 = top.next
      BY <3>1, Top
    <3>6. stack'[n].next <= Len(users) + 1
      BY <3>1, Top
    <3>. QED
      BY <3>1, <3>2, <3>3, <3>4, <3>5, <3>6
  <2>3. CASE n \in (l + 1)..Len(stack')
    <3>1. stack'[n].inst \in value /\ stack'[n].next = 1
      <4>0. n \in 1..Len(stack')
        BY <1>0, <2>3
      <4>1. stack'[n] \in [inst : value, next : Nat \ {0}]
        BY <1>0, <4>0, ElementOfSeq
      <4>. QED
        BY <2>3, <4>1
    <3>2. Len(uses(stack'[n].inst)) \in Nat
      BY <3>1, UsesTyped DEF SearchInv, Typed
    <3>. QED
      BY <2>3, <3>1, <3>2
  <2>. QED
    BY <1>0, <2>1, <2>2, <2>3
<1>4. Frames'
  BY <1>3 DEF Frames, InVector, Pushed, uses
<1>5. Pending'
  <2>1. SUFFICES ASSUME NEW v \in value, InVector(v)' PROVE Active(v)' \/ AllUsersPushed(v)'
    BY DEF Pending, value
  <2>2. CASE InVector(v)
    <3>1. Active(v) => Active(v)'
      <4>1. \A n \in 1..l : n \in 1..Len(stack')
        BY <1>0
      <4>. QED
        BY <1>1, <4>1 DEF Active
    <3>2. \A w : InVector(w) => InVector(w)'
      BY <1>2 DEF InVector, Pushed
    <3>. QED
      BY <2>2, <3>1, <3>2, Grow DEF SearchInv, Pending
  <2>. QED
    BY <2>1, <2>2
<1>6. \A i \in 1..(arg' - 1) : InVector(flow.roots[i])'
  BY <1>2 DEF SearchInv, RootsPushed, InVector, Pushed
<1>. QED
  BY <1>4, <1>5, <1>6

LEMMA UserStep == SearchInv /\ CallUser => SearchInv'
<1>. SUFFICES ASSUME SearchInv, CallUser PROVE SearchInv'
  OBVIOUS
<1>. DEFINE l == Len(stack)
<1>1. /\ stack # <<>> /\ top.next <= Len(users) /\ ~InVector(temp)
      /\ UsersVector' = Append(UsersVector, temp)
      /\ stack' = Append(Advance, Frame(temp)) /\ flow' = flow /\ arg' = arg
      /\ UsersVector \in Seq(value)
  BY DEF CallUser, SearchInv, Typed
<1>2. temp \in value
  BY <1>1, Top DEF temp
<1>3. /\ UsersVector' \in Seq(value')
      /\ \A v : InVector(v)' <=> InVector(v) \/ v = temp
      /\ Len(UsersVector') = Len(UsersVector) + 1
  BY <1>1, <1>2, Push
<1>4. Frame(temp) \in [inst : value, next : Nat \ {0}]
      /\ Frame(temp).inst = temp /\ Frame(temp).next = 1
  BY <1>2 DEF Frame
<1>5. /\ stack' \in Seq([inst : value, next : Nat \ {0}])
      /\ Len(stack') = l + 1 /\ l \in Nat
      /\ \A n \in 1..l : stack'[n] = Advance[n]
      /\ stack'[l + 1] = Frame(temp)
  BY <1>1, <1>4, Top, AdvanceTop, AppendProperties
<1>6. Typed'
  BY <1>1, <1>3, <1>5 DEF SearchInv, Typed, WellFormedFlow, value
<1>7. \A v : v = temp => Active(v)'
  BY <1>4, <1>5 DEF Active
<1>8. \A n \in (l + 1)..Len(stack') : stack'[n].next = 1 /\ Pushed(UsersVector', stack'[n].inst)
  <2>1. \A n \in (l + 1)..Len(stack') : n = l + 1
    BY <1>5
  <2>2. stack'[l + 1].next = 1 /\ stack'[l + 1].inst = temp
    BY <1>4, <1>5
  <2>3. Pushed(UsersVector', temp)
    BY <1>1, <1>2, Push, LenProperties DEF Pushed
  <2>. QED
    BY <2>1, <2>2, <2>3
<1>8a. /\ \A v : Pushed(UsersVector, v) => Pushed(UsersVector', v)
       /\ Pushed(UsersVector', temp)
       /\ \A v \in value : InVector(v)' => InVector(v) \/ Active(v)'
  BY <1>3, <1>7 DEF InVector, Pushed
<1>9. Frames' /\ Pending' /\ \A i \in 1..(arg' - 1) : InVector(flow.roots[i])'
  BY <1>1, <1>5, <1>6, <1>8, <1>8a, AdvanceKeeps
<1>10. RootsPushed'
  <2>1. arg # 1
    <3>1. InVector(top.inst)
      BY <1>1, Top
    <3>2. UsersVector # <<>>
      BY <3>1 DEF InVector
    <3>. QED
      BY <3>2 DEF SearchInv, RootsPushed
  <2>. QED
    BY <1>1, <1>9, <2>1 DEF RootsPushed
<1>11. Origins' /\ NoDuplicate'
  <2>1. \E j \in 1..Len(UsersVector) : UsersVector[j] = top.inst
    BY <1>1, Top, InVectorByIndex
  <2>2. top.next \in 1..Len(users) /\ users = uses(top.inst)
    BY <1>1, Top
  <2>3. \E j \in 1..Len(UsersVector) : \E k \in 1..Len(uses(UsersVector[j])) :
          temp = uses(UsersVector[j])[k]
    BY <2>1, <2>2 DEF temp
  <2>4. arg' \in Nat /\ arg' >= arg
    BY <1>1 DEF SearchInv, Typed
  <2>. QED
    BY <1>1, <1>2, <2>3, <2>4, PushKeeps DEF SearchInv
<1>. QED
  BY <1>6, <1>9, <1>10, <1>11 DEF SearchInv

LEMMA SkipStep == SearchInv /\ SkipUser => SearchInv'
<1>. SUFFICES ASSUME SearchInv, SkipUser PROVE SearchInv'
  OBVIOUS
<1>1. /\ stack # <<>> /\ top.next <= Len(users) /\ InVector(temp)
      /\ stack' = Advance /\ flow' = flow /\ arg' = arg /\ UsersVector' = UsersVector
  BY DEF SkipUser
<1>2. \A v : InVector(v)' <=> InVector(v)
  BY <1>1 DEF InVector
<1>3. /\ stack' \in Seq([inst : value, next : Nat \ {0}])
      /\ Len(stack') = Len(stack) /\ Len(stack) \in Nat
  BY <1>1, AdvanceTop, Top
<1>4. Typed'
  BY <1>1, <1>3 DEF SearchInv, Typed, WellFormedFlow, value
<1>4a. /\ \A v : Pushed(UsersVector, v) => Pushed(UsersVector', v)
       /\ Pushed(UsersVector', temp)
       /\ (Len(stack) + 1)..Len(stack') = {}
  BY <1>1, <1>3 DEF InVector, Pushed
<1>5. Frames' /\ Pending' /\ \A i \in 1..(arg' - 1) : InVector(flow.roots[i])'
  BY <1>1, <1>2, <1>3, <1>4, <1>4a, AdvanceKeeps
<1>6. RootsPushed'
  BY <1>1, <1>5 DEF SearchInv, RootsPushed
<1>7. Origins' /\ NoDuplicate'
  BY <1>1 DEF SearchInv, Origins, FromRoot, FromUser, uses, NoDuplicate
<1>. QED
  BY <1>4, <1>5, <1>6, <1>7 DEF SearchInv

\* What is left of a sequence without its last element.
LEMMA Popped ==
  ASSUME NEW S, NEW q \in Seq(S), Len(q) \in Nat \ {0}
  PROVE  /\ SubSeq(q, 1, Len(q) - 1) \in Seq(S)
         /\ Len(SubSeq(q, 1, Len(q) - 1)) = Len(q) - 1
         /\ \A n \in 1..(Len(q) - 1) : SubSeq(q, 1, Len(q) - 1)[n] = q[n]
<1>. DEFINE m == Len(q) - 1
<1>1. m \in Nat /\ m \in Int /\ \A n \in 1..m : n \in 1..Len(q)
  OBVIOUS
<1>2. \A n \in 1..m : q[n] \in S
  BY <1>1, ElementOfSeq
<1>. HIDE DEF m
<1>3. /\ SubSeq(q, 1, m) \in Seq(S)
      /\ Len(SubSeq(q, 1, m)) = IF 1 <= m THEN m - 1 + 1 ELSE 0
      /\ \A n \in 1..(m - 1 + 1) : SubSeq(q, 1, m)[n] = q[1 + n - 1]
  BY <1>1, <1>2, SubSeqProperties
<1>4. (IF 1 <= m THEN m - 1 + 1 ELSE 0) = m /\ m - 1 + 1 = m
  BY <1>1
<1>5. \A n \in 1..m : 1 + n - 1 = n
  BY <1>1
<1>6. \A n \in 1..m : SubSeq(q, 1, m)[n] = q[n]
  BY <1>3, <1>4, <1>5
<1>. QED
  BY <1>3, <1>4, <1>6 DEF m

LEMMA ReturnStep == SearchInv /\ ReturnUser => SearchInv'
<1>. SUFFICES ASSUME SearchInv, ReturnUser PROVE SearchInv'
  OBVIOUS
<1>. DEFINE l == Len(stack)
<1>1. /\ stack # <<>> /\ top.next > Len(users) /\ stack' = SubSeq(stack, 1, l - 1)
      /\ flow' = flow /\ arg' = arg /\ UsersVector' = UsersVector
      /\ l \in Nat \ {0} /\ stack \in Seq([inst : value, next : Nat \ {0}])
  BY Top DEF ReturnUser, SearchInv, Typed
<1>2. \A v : InVector(v)' <=> InVector(v)
  BY <1>1 DEF InVector
<1>3. /\ stack' \in Seq([inst : value, next : Nat \ {0}])
      /\ Len(stack') = l - 1
      /\ \A n \in 1..(l - 1) : stack'[n] = stack[n]
  BY <1>1, Popped
<1>4. Typed'
  BY <1>1, <1>3 DEF SearchInv, Typed, WellFormedFlow, value
<1>5. \A v : uses(v)' = uses(v)
  BY <1>1 DEF uses
<1>6. Frames'
  <2>1. \A n \in 1..(l - 1) : n \in 1..l
    BY <1>1, PositionsTo
  <2>2. \A n \in 1..Len(stack') : n \in 1..l /\ stack'[n] = stack[n]
    BY <1>3, <2>1
  <2>. SUFFICES ASSUME NEW n \in 1..Len(stack')
                PROVE  /\ InVector(stack[n].inst)'
                       /\ (stack[n].next <= Len(uses(stack[n].inst)) + 1)'
                       /\ (\A k \in 1..(stack[n].next - 1) : InVector(uses(stack[n].inst)[k]))'
    BY Zenon DEF Frames
  <2>3. n \in 1..l /\ stack'[n] = stack[n]
    BY <2>2
  <2>4. \A v : InVector(v)' <=> InVector(v)
    BY <1>1 DEF InVector
  <2>5. /\ InVector(stack[n].inst) /\ stack[n].next <= Len(uses(stack[n].inst)) + 1
        /\ \A k \in 1..(stack[n].next - 1) : InVector(uses(stack[n].inst)[k])
    BY <2>3 DEF SearchInv, Frames
  <2>6. uses(stack[n].inst)' = uses(stack[n].inst)
    BY <1>1, <2>3 DEF uses
  <2>. QED
    BY <2>3, <2>4, <2>5, <2>6
<1>7. AllUsersPushed(top.inst)
  <2>1. \A k \in 1..Len(users) : InVector(users[k])
    BY <1>1, Top
  <2>. QED
    BY <1>1, <2>1, Top DEF AllUsersPushed
<1>8. Pending'
  <2>1. SUFFICES ASSUME NEW v \in value, InVector(v) PROVE Active(v)' \/ AllUsersPushed(v)'
    BY <1>1, <1>2 DEF Pending, value
  <2>2. CASE AllUsersPushed(v)
    BY <1>1, <1>2, <2>2, Grow
  <2>3. CASE Active(v)
    <3>1. PICK n \in 1..l : stack[n].inst = v
      BY <2>3 DEF Active
    <3>2. CASE n = l
      BY <1>1, <1>2, <1>7, <3>1, <3>2, Grow DEF top
    <3>3. CASE n \in 1..(l - 1)
      BY <1>3, <3>1, <3>3 DEF Active
    <3>. QED
      BY <1>1, <3>2, <3>3
  <2>. QED
    BY <2>1, <2>2, <2>3 DEF SearchInv, Pending
<1>9. RootsPushed'
  BY <1>1, <1>2 DEF SearchInv, RootsPushed
<1>10. Origins' /\ NoDuplicate'
  BY <1>1 DEF SearchInv, Origins, FromRoot, FromUser, uses, NoDuplicate
<1>. QED
  BY <1>4, <1>6, <1>8, <1>9, <1>10 DEF SearchInv
-----------------------------------------------------------------------------
(* The theorems.                                                            *)

LEMMA NextSearch == SearchInv /\ [Searching]_taintVars => SearchInv'
<1>. SUFFICES ASSUME SearchInv, [Searching]_taintVars PROVE SearchInv'
  OBVIOUS
<1>1. CASE UNCHANGED taintVars
  BY <1>1 DEF taintVars, SearchInv, Typed, Frames, Pending, RootsPushed, Origins, NoDuplicate,
     value, uses, InVector, Active, AllUsersPushed, FromRoot, FromUser, WellFormedFlow
<1>. QED
  BY <1>1, RootStep, UserStep, SkipStep, ReturnStep DEF Searching

\* The inductive invariant implies the property.
LEMMA SearchedExact == SearchInv => VectorExact
<1>. SUFFICES ASSUME SearchInv PROVE VectorExact
  OBVIOUS
<1>. DEFINE n == Len(UsersVector)
<1>1. /\ UsersVector \in Seq(value) /\ n \in Nat /\ DOMAIN UsersVector = 1..n
      /\ \A i \in 1..n : UsersVector[i] \in value
      /\ flow.roots \in Seq(value) /\ DOMAIN flow.roots = 1..Len(flow.roots)
      /\ Len(flow.roots) \in Nat /\ arg \in 1..(Len(flow.roots) + 1)
  BY LenProperties, ElementOfSeq DEF SearchInv, Typed, WellFormedFlow, value
<1>2. \A v \in value : /\ DOMAIN flow.users[v] = 1..Len(uses(v))
                       /\ uses(v) = flow.users[v]
  BY UsesTyped, LenProperties DEF SearchInv, Typed, uses
<1>3. ASSUME NEW i \in 1..n PROVE Derived(i)
  <2>1. CASE FromRoot(UsersVector[i])
    <3>1. PICK j \in 1..(arg - 1) : UsersVector[i] = flow.roots[j]
      BY <2>1 DEF FromRoot
    <3>2. j \in DOMAIN flow.roots
      BY <1>1, <3>1
    <3>. QED
      BY <3>1, <3>2 DEF Derived, ToSet
  <2>2. CASE FromUser(UsersVector[i], i)
    <3>1. PICK j \in 1..(i - 1) : \E k \in 1..Len(uses(UsersVector[j])) :
                                   UsersVector[i] = uses(UsersVector[j])[k]
      BY <2>2 DEF FromUser
    <3>2. UsersVector[j] \in value
      <4>1. j \in 1..n
        BY <1>1
      <4>. QED
        BY <1>1, <4>1
    <3>3. UsersVector[i] \in ToSet(flow.users[UsersVector[j]])
      BY <1>2, <3>1, <3>2 DEF ToSet
    <3>. QED
      BY <3>3 DEF Derived
  <2>. QED
    BY <2>1, <2>2 DEF SearchInv, Origins
<1>4. ASSUME Searched PROVE D!Closed(flow, ToSet(UsersVector))
  <2>1. \A v : v \in ToSet(UsersVector) <=> InVector(v)
    BY DEF ToSet, InVector
  <2>2. stack = <<>> /\ Len(stack) = 0 /\ arg > Len(flow.roots)
    BY <1>4, EmptySeq DEF Searched
  <2>3. ToSet(flow.roots) \subseteq ToSet(UsersVector)
    <3>1. \A i \in 1..Len(flow.roots) : i \in 1..(arg - 1)
      BY <1>1, <2>2
    <3>. QED
      BY <1>1, <2>1, <3>1 DEF SearchInv, RootsPushed, ToSet
  <2>4. ASSUME NEW v, v \in ToSet(UsersVector)
        PROVE  ToSet(flow.users[v]) \subseteq ToSet(UsersVector)
    <3>1. InVector(v) /\ v \in value
      BY <1>1, <2>1, <2>4 DEF InVector
    <3>2. ~Active(v)
      BY <2>2 DEF Active
    <3>3. AllUsersPushed(v)
      BY <3>1, <3>2 DEF SearchInv, Pending
    <3>. QED
      BY <1>2, <2>1, <3>1, <3>3 DEF AllUsersPushed, ToSet
  <2>. QED
    BY <2>3, <2>4 DEF D!Closed, D!UserSet, D!ToSet, ToSet
<1>5. \A i, j \in DOMAIN UsersVector : UsersVector[i] = UsersVector[j] => i = j
  BY <1>1 DEF SearchInv, NoDuplicate
<1>. QED
  BY <1>1, <1>3, <1>4, <1>5 DEF VectorExact

\* getAllUsers from the arguments (Secret.cpp:34 and :101) pushes values that
\* depend on an argument, each once, and has pushed all of them when the last
\* call returns: for every use lists, with cycles and repeated users.
THEOREM SearchExact == TaintSpec => []VectorExact
<1>1. TaintSpec => []SearchInv
  BY InitSearch, NextSearch, PTL DEF TaintSpec
<1>. QED
  BY <1>1, SearchedExact, PTL

\* Every step of the search is a step of the abstract one, or changes neither
\* the flow nor what was found: no recursion order finds a value that does
\* not depend on an argument.
LEMMA StepMaps ==
  SearchInv /\ [Searching]_taintVars => [D!Prepare \/ D!Find]_<<flow, ToSet(UsersVector)>>
<1>. SUFFICES ASSUME SearchInv, [Searching]_taintVars
              PROVE  [D!Prepare \/ D!Find]_<<flow, ToSet(UsersVector)>>
  OBVIOUS
<1>0. ASSUME NEW e \in value, ~InVector(e), flow' = flow,
             UsersVector' = Append(UsersVector, e),
             \/ e \in ToSet(flow.roots)
             \/ \E v \in ToSet(UsersVector) : e \in ToSet(flow.users[v])
      PROVE  D!Find
  <2>1. \A v : InVector(v)' <=> InVector(v) \/ v = e
    BY <1>0, Push DEF SearchInv, Typed
  <2>2. ToSet(UsersVector)' = ToSet(UsersVector) \cup {e}
    BY <2>1 DEF ToSet, InVector
  <2>3. e \notin ToSet(UsersVector)
    BY <1>0 DEF ToSet, InVector
  <2>4. e \in D!Ahead(flow, ToSet(UsersVector))
    <3>1. e \in ToSet(flow.roots) \cup UNION {ToSet(flow.users[v]) : v \in ToSet(UsersVector)}
      BY <1>0
    <3>. QED
      BY <2>3, <3>1 DEF D!Ahead, D!UserSet, D!ToSet, ToSet
  <2>5. \E v \in D!Ahead(flow, ToSet(UsersVector)) : ToSet(UsersVector)' = ToSet(UsersVector) \cup {v}
    BY <2>2, <2>4
  <2>. QED
    BY <1>0, <2>5 DEF D!Find
<1>1. CASE CallRoot
  <2>1. /\ arg \in DOMAIN flow.roots /\ flow.roots \in Seq(value) /\ stack = <<>>
        /\ arg \in 1..Len(flow.roots)
        /\ UsersVector' = Append(UsersVector, flow.roots[arg]) /\ flow' = flow
    BY <1>1, LenProperties DEF CallRoot, SearchInv, Typed, WellFormedFlow, value
  <2>. DEFINE e == flow.roots[arg]
  <2>2. e \in value /\ e \in ToSet(flow.roots)
    BY <2>1, ElementOfSeq DEF ToSet
  <2>3. ~InVector(e)
    BY <1>1, RootNew
  <2>. QED
    BY <1>0, <2>1, <2>2, <2>3
<1>2. CASE CallUser
  <2>1. /\ stack # <<>> /\ top.next <= Len(users) /\ ~InVector(temp) /\ flow' = flow
        /\ UsersVector' = Append(UsersVector, temp)
    BY <1>2 DEF CallUser
  <2>2. /\ top.next \in 1..Len(users) /\ users = uses(top.inst) /\ top.inst \in value
        /\ InVector(top.inst) /\ users[top.next] \in value
    BY <2>1, Top
  <2>3. temp \in ToSet(flow.users[top.inst])
    <3>1. top.next \in DOMAIN flow.users[top.inst]
      BY <2>2, UsesTyped, LenProperties DEF SearchInv, Typed, uses
    <3>. QED
      BY <2>2, <3>1 DEF ToSet, temp, users
  <2>4. top.inst \in ToSet(UsersVector)
    BY <2>2 DEF ToSet, InVector
  <2>. QED
    BY <1>0, <2>1, <2>2, <2>3, <2>4 DEF temp
<1>3. CASE SkipUser \/ ReturnUser \/ UNCHANGED taintVars
  BY <1>3 DEF SkipUser, ReturnUser, taintVars
<1>. QED
  BY <1>1, <1>2, <1>3 DEF Searching

\* The safety part of FindsDependent: the recursive search implements the
\* abstract one, with the values pushed so far for those found.
THEOREM SearchImplements ==
  TaintSpec => D!Init /\ [][D!Prepare \/ D!Find]_<<flow, ToSet(UsersVector)>>
<1>1. TaintSpec => []SearchInv
  BY InitSearch, NextSearch, PTL DEF TaintSpec
<1>2. TaintInit => D!Init
  BY DEF TaintInit, D!Init, ToSet
<1>. QED
  BY <1>1, <1>2, StepMaps, PTL DEF TaintSpec

-----------------------------------------------------------------------------
(* The pass as a whole runs the walk and the search as they are.            *)

\* Every step of the pass is one of the walk's, or leaves its state alone.
LEMMA PassStepWalks == [PassNext]_passVars => [Next]_vars
<1> SUFFICES ASSUME [PassNext]_passVars PROVE [Next]_vars
  OBVIOUS
<1>1. CASE Serialize
  BY <1>1 DEF Serialize, Next
<1>2. CASE RebuildTerminators
  BY <1>2 DEF RebuildTerminators, Next
<1>3. CASE ModifyPhis \/ CollectInputs \/ StartLoop \/ CollectIndex \/ Collected \/ Return
  BY <1>3 DEF ModifyPhis, CollectInputs, StartLoop, CollectIndex, Collected, Return
<1>4. CASE \E b \in g.block : ApplyBranch(b)
  BY <1>4 DEF ApplyBranch
<1>5. CASE PassHalt \/ UNCHANGED passVars
  BY <1>5 DEF PassHalt, passVars
<1> QED
  BY <1>1, <1>2, <1>3, <1>4, <1>5 DEF PassNext

\* The composition implements its first part: what is proved of
\* recursiveSerialization holds inside the pass, whatever the phases after it do.
THEOREM WalkInPass == PassSpec => Spec
<1>1. PassInit => Init
  BY DEF PassInit
<1> QED
  BY <1>1, PassStepWalks, PTL DEF PassSpec, Spec

\* The phases before the search.
Before == {"serialize", "phis", "terminators"}

\* The phis are chosen before the terminators are replaced, and the search is
\* not begun before; the program stays the same.
Phases ==
  /\ prog \in Programs /\ g = prog.f
  /\ phase \in {"serialize", "phis"} => pc # "replaced"
  /\ phase = "terminators" \/ pc = "replaced" => replaced = prog.phi \ LoopPhis
  /\ phase \in Before => TaintInit /\ bounds = conditionals

LEMMA PhasesInit == PassInit => Phases
BY DEF PassInit, Init, Phases, Before

\* What the phases after the replacement leave alone.
LEMMA PhasesAfter ==
  ASSUME Phases, UNCHANGED <<vars, prog, replaced>>, phase' \notin Before
  PROVE  Phases'
<1>1. g' = g /\ prog' = prog /\ pc' = pc /\ replaced' = replaced
  BY DEF vars
<1>2. LoopPhis' = LoopPhis
  BY <1>1 DEF LoopPhis, Preds, SuccSet, latches
<1> QED
  BY <1>1, <1>2 DEF Phases, Before

LEMMA PhasesNext == Phases /\ [PassNext]_passVars => Phases'
<1> SUFFICES ASSUME Phases, [PassNext]_passVars PROVE Phases'
  OBVIOUS
<1> USE DEF Before
<1>1. g' = g
  <2>1. [Next]_vars
    BY PassStepWalks
  <2> QED
    BY <2>1 DEF Next, Visit, Unwind, Search, Halt, vars, VisitUnconditional, VisitLatch,
     VisitConditional, VisitOther, VisitJoined, UnwindNoPostDominator, UnwindEmptyThen,
     UnwindRedirect, UnwindSearch, SearchFollow, SearchSplit, ReplaceTerminators
<1>2. LoopPhis' = prog'.phi \cap (LoopPhis' \cup LoopPhis') /\ conditionals' = conditionals
  BY <1>1 DEF LoopPhis, conditionals, IsConditional
<1>3. prog' = prog => LoopPhis' = LoopPhis
  BY <1>1 DEF LoopPhis, Preds, SuccSet, latches
<1>4. CASE Serialize
  <2>1. /\ pc' # "replaced" /\ phase = "serialize"
        /\ UNCHANGED <<taintVars, prog, replaced, loopVars>>
        /\ phase' = CASE pc' = "done" -> "phis" [] pc' = "crashed" -> "crashed" [] OTHER -> phase
    BY <1>4 DEF Serialize, Visit, Unwind, Search, VisitUnconditional, VisitLatch, Call, Phases,
     VisitConditional, VisitOther, VisitJoined, UnwindNoPostDominator, UnwindEmptyThen,
     UnwindRedirect, UnwindSearch, SearchFollow, SearchSplit
  <2>2. phase' \in {"serialize", "phis", "crashed"}
    BY <2>1
  <2>3. TaintInit' /\ bounds' = bounds
    BY <2>1 DEF Phases, TaintInit, taintVars, loopVars
  <2> QED
    BY <1>1, <1>2, <2>1, <2>2, <2>3 DEF Phases
<1>5. CASE ModifyPhis
  <2>1. /\ phase = "phis" /\ replaced' = prog.phi \ LoopPhis
        /\ phase' \in {"crashed", "terminators"}
        /\ pc' = pc /\ prog' = prog /\ bounds' = bounds /\ UNCHANGED taintVars
    BY <1>5 DEF ModifyPhis, vars, loopVars
  <2>2. TaintInit'
    BY <2>1 DEF Phases, TaintInit, taintVars
  <2> QED
    BY <1>1, <1>2, <1>3, <2>1, <2>2 DEF Phases
<1>6. CASE RebuildTerminators
  <2>1. /\ phase = "terminators" /\ phase' \in {"undefined", "taint"}
        /\ UNCHANGED <<prog, replaced>>
    BY <1>6 DEF RebuildTerminators
  <2> QED
    BY <1>1, <1>3, <2>1 DEF Phases
<1>7. CASE CollectInputs
  <2>1. phase' \notin Before /\ UNCHANGED <<vars, prog, replaced>>
    BY <1>7 DEF CollectInputs
  <2> QED
    BY <2>1, PhasesAfter
<1>8. CASE StartLoop
  <2>1. phase' \notin Before /\ UNCHANGED <<vars, prog, replaced>>
    BY <1>8 DEF StartLoop, NextLoop
  <2> QED
    BY <2>1, PhasesAfter
<1>9. CASE CollectIndex
  <2>1. phase' \notin Before /\ UNCHANGED <<vars, prog, replaced>>
    BY <1>9 DEF CollectIndex
  <2> QED
    BY <2>1, PhasesAfter
<1>10. CASE Collected
  <2>1. phase' \notin Before /\ UNCHANGED <<vars, prog, replaced>>
    BY <1>10 DEF Collected, NextLoop
  <2> QED
    BY <2>1, PhasesAfter
<1>11. CASE \E b \in g.block : ApplyBranch(b)
  <2>1. phase' \notin Before /\ UNCHANGED <<vars, prog, replaced>>
    BY <1>11 DEF ApplyBranch, NextLoop
  <2> QED
    BY <2>1, PhasesAfter
<1>12. CASE Return
  <2>1. phase' \notin Before /\ UNCHANGED <<vars, prog, replaced>>
    BY <1>12 DEF Return
  <2> QED
    BY <2>1, PhasesAfter
<1>13. CASE PassHalt \/ UNCHANGED passVars
  <2>1. /\ UNCHANGED <<vars, prog, replaced, phase, bounds, taintVars>>
    BY <1>13 DEF PassHalt, passVars, loopVars
  <2>2. TaintInit' <=> TaintInit
    BY <2>1 DEF TaintInit, taintVars
  <2> QED
    BY <1>1, <1>2, <1>3, <2>1, <2>2 DEF Phases, vars
<1> QED
  BY <1>4, <1>5, <1>6, <1>7, <1>8, <1>9, <1>10, <1>11, <1>12, <1>13 DEF PassNext

\* A phi that the pass leaves alone, because a latch is among its blocks, still
\* has an entry for exactly the blocks that lead to it: neither the branches
\* recursiveSerialization removes nor those it redirects change them.
THEOREM PhisKept == PassSpec => []PhisMatch
<1>1. ASSUME Phases, IInv, LInv PROVE PhisMatch
  <2> SUFFICES ASSUME pc = "replaced", Supported(g), NEW b \in prog.phi, b \notin replaced
               PROVE  Preds(output, b) = Preds(g, b)
    BY DEF PhisMatch, Rebuilt
  <2>1. b \in LoopPhis
    BY <1>1 DEF Phases
  <2>2. PICK l \in latches : b \in SuccSet(g, l)
    BY <2>1 DEF LoopPhis, Preds
  <2> QED
    BY <1>1, <2>2, MeetingsKept DEF latches
<1>2. PassSpec => []Phases
  BY PhasesInit, PhasesNext, PTL DEF PassSpec
<1> QED
  BY <1>1, <1>2, WalkInPass, SpecLine, PTL

-----------------------------------------------------------------------------
(* The search the pass runs is one of module Taint's: its flow is one of    *)
(* AllValues, in some order of each value's users.                          *)

\* What is known of the program being compiled.
Compiling == prog \in Programs /\ g = prog.f

\* A function's images of a finite set's elements are finitely many.
LEMMA ImageFinite ==
  ASSUME NEW S, IsFiniteSet(S), NEW f, DOMAIN f = S
  PROVE  IsFiniteSet({f[x] : x \in S})
<1> DEFINE T == {f[x] : x \in S}
           h == [x \in S |-> f[x]]
<1>1. h \in Surjection(S, T)
  BY DEF Surjection
<1> QED
  BY <1>1, FS_Surjection

\* A set, in the order an enumeration puts it, is a sequence of its elements.
LEMMA OrderIs ==
  ASSUME NEW S, IsFiniteSet(S)
  PROVE  InSomeOrder(S) \in Seq(S)
<1>1. Cardinality(S) \in Nat /\ ExistsBijection(1..Cardinality(S), S)
  BY FS_CardinalityType
<1>2. PICK h : h \in Bijection(1..Cardinality(S), S)
  BY <1>1 DEF ExistsBijection
<1>3. h \in [1..Cardinality(S) -> S] /\ IsInjective(h)
  BY <1>2 DEF Bijection, Injection
<1>4. SetToSeq(S) \in [1..Cardinality(S) -> S]
  BY <1>3 DEF SetToSeq
<1> QED
  BY <1>1, <1>4 DEF InSomeOrder

\* What the proofs use of a well-formed program.
LEMMA ProgramIs ==
  ASSUME Compiling
  PROVE  /\ IsFiniteSet(g.block) /\ IsFiniteSet(conditionals) /\ IsFiniteSet(latches)
         /\ IsFiniteSet(accesses)
         /\ DOMAIN prog.cond = conditionals /\ prog.secret \subseteq conditionals
         /\ prog.first \subseteq latches
         /\ prog.starts \subseteq (latches \ prog.first) \X (latches \ prog.first)
<1>1. WellFormedProgram(prog) /\ g = prog.f /\ g \in Functions
  BY ProgramsAssumption DEF Compiling, WellFormedProgram
<1>2. IsFiniteSet(g.block) /\ latches \subseteq g.block
  <2>1. WellFormed(g) /\ Analysed(g)
    BY <1>1, FunctionsAssumption, FormAssumption
  <2>2. IsFiniteSet(g.block)
    BY <2>1 DEF Analysed
  <2>3. latches \subseteq g.block
    BY <2>1 DEF WellFormed, latches
  <2> QED
    BY <2>2, <2>3
<1>3. conditionals \subseteq g.block
  BY DEF conditionals
<1>4. IsFiniteSet(conditionals) /\ IsFiniteSet(latches)
  BY <1>2, <1>3, FS_Subset
<1>5. PICK E : prog.access \in Seq(E)
  BY <1>1 DEF WellFormedProgram
<1>6. accesses = 1..Len(prog.access) /\ Len(prog.access) \in Nat
  BY <1>5, LenProperties DEF accesses
<1>7. IsFiniteSet(accesses)
  BY <1>6, FS_Interval
<1> QED
  BY <1>1, <1>2, <1>4, <1>7 DEF WellFormedProgram, conditionals, latches

\* The kinds of values.
LEMMA ValueCases ==
  ASSUME NEW v
  PROVE  v \in AllValues <=>
           \/ v = Argument \/ \E l \in latches : v = Index(l)
           \/ \E b \in conditionals : v = Bound(b) \/ v = Cmp(b)
           \/ \E b \in g.block : v = Br(b)
           \/ \E k \in accesses : v = Gep(k) \/ v = Access(k)
<1>1. v \in UNION {{Bound(b), Cmp(b)} : b \in conditionals}
        <=> \E b \in conditionals : v = Bound(b) \/ v = Cmp(b)
  BY Zenon
<1>2. v \in UNION {{Gep(k), Access(k)} : k \in accesses}
        <=> \E k \in accesses : v = Gep(k) \/ v = Access(k)
  BY Zenon
<1>3. v \in {Index(l) : l \in latches} <=> \E l \in latches : v = Index(l)
  BY Zenon
<1>4. v \in {Br(b) : b \in g.block} <=> \E b \in g.block : v = Br(b)
  BY Zenon
<1> DEFINE I == {Index(l) : l \in latches}
           B == UNION {{Bound(b), Cmp(b)} : b \in conditionals}
           R == {Br(b) : b \in g.block}
           A == UNION {{Gep(k), Access(k)} : k \in accesses}
<1>5. v \in AllValues <=> v = Argument \/ v \in I \/ v \in B \/ v \in R \/ v \in A
  <2> AllValues = {Argument} \cup I \cup B \cup R \cup A
    BY Zenon DEF AllValues
  <2> HIDE DEF I, B, R, A
  <2> QED
    OBVIOUS
<1> HIDE DEF Argument, Index, Bound, Cmp, Br, Gep, Access
<1> QED
  BY <1>1, <1>2, <1>3, <1>4, <1>5, Zenon

LEMMA ValuesFinite == Compiling => IsFiniteSet(AllValues)
<1> SUFFICES ASSUME Compiling PROVE IsFiniteSet(AllValues)
  OBVIOUS
<1> DEFINE I == {Index(l) : l \in latches}
           B == {Bound(b) : b \in conditionals}
           C == {Cmp(b) : b \in conditionals}
           R == {Br(b) : b \in g.block}
           G == {Gep(k) : k \in accesses}
           A == {Access(k) : k \in accesses}
<1>1. IsFiniteSet(I)
  <2> DEFINE f == [l \in latches |-> Index(l)]
  <2>1. I = {f[l] : l \in latches} /\ DOMAIN f = latches
    OBVIOUS
  <2> HIDE DEF f, I
  <2> QED
    BY <2>1, ImageFinite, ProgramIs
<1>2. IsFiniteSet(B)
  <2> DEFINE f == [b \in conditionals |-> Bound(b)]
  <2>1. B = {f[b] : b \in conditionals} /\ DOMAIN f = conditionals
    OBVIOUS
  <2> HIDE DEF f, B
  <2> QED
    BY <2>1, ImageFinite, ProgramIs
<1>3. IsFiniteSet(C)
  <2> DEFINE f == [b \in conditionals |-> Cmp(b)]
  <2>1. C = {f[b] : b \in conditionals} /\ DOMAIN f = conditionals
    OBVIOUS
  <2> HIDE DEF f, C
  <2> QED
    BY <2>1, ImageFinite, ProgramIs
<1>4. IsFiniteSet(R)
  <2> DEFINE f == [b \in g.block |-> Br(b)]
  <2>1. R = {f[b] : b \in g.block} /\ DOMAIN f = g.block
    OBVIOUS
  <2> HIDE DEF f, R
  <2> QED
    BY <2>1, ImageFinite, ProgramIs
<1>5. IsFiniteSet(G)
  <2> DEFINE f == [k \in accesses |-> Gep(k)]
  <2>1. G = {f[k] : k \in accesses} /\ DOMAIN f = accesses
    OBVIOUS
  <2> HIDE DEF f, G
  <2> QED
    BY <2>1, ImageFinite, ProgramIs
<1>6. IsFiniteSet(A)
  <2> DEFINE f == [k \in accesses |-> Access(k)]
  <2>1. A = {f[k] : k \in accesses} /\ DOMAIN f = accesses
    OBVIOUS
  <2> HIDE DEF f, A
  <2> QED
    BY <2>1, ImageFinite, ProgramIs
<1>7. IsFiniteSet({Argument})
  BY FS_Singleton
<1>8. AllValues \subseteq ((((({Argument} \cup I) \cup B) \cup C) \cup R) \cup G) \cup A
  BY ValueCases, Zenon
<1> HIDE DEF I, B, C, R, G, A
<1>9. IsFiniteSet(((((({Argument} \cup I) \cup B) \cup C) \cup R) \cup G) \cup A)
  <2>1. IsFiniteSet({Argument} \cup I)
    BY <1>1, <1>7, FS_Union
  <2>2. IsFiniteSet(({Argument} \cup I) \cup B)
    BY <2>1, <1>2, FS_Union
  <2>3. IsFiniteSet((({Argument} \cup I) \cup B) \cup C)
    BY <2>2, <1>3, FS_Union
  <2>4. IsFiniteSet(((({Argument} \cup I) \cup B) \cup C) \cup R)
    BY <2>3, <1>4, FS_Union
  <2>5. IsFiniteSet((((({Argument} \cup I) \cup B) \cup C) \cup R) \cup G)
    BY <2>4, <1>5, FS_Union
  <2> QED
    BY <2>5, <1>6, FS_Union
<1> QED
  BY <1>8, <1>9, FS_Subset

\* The users of a value are values, whatever the branches are.
LEMMA UsersAreValues ==
  ASSUME Compiling, NEW br, NEW own, NEW by, NEW v \in AllValues
  PROVE  UsersOf(v, br, own, by) \subseteq AllValues
<1> DEFINE K == accesses
<1>0. /\ DOMAIN prog.cond = conditionals /\ prog.secret \subseteq conditionals
      /\ prog.first \subseteq latches
      /\ prog.starts \subseteq (latches \ prog.first) \X (latches \ prog.first)
  BY ProgramIs
<1>1. /\ \A l \in latches : Index(l) \in AllValues
      /\ \A b \in conditionals : Bound(b) \in AllValues /\ Cmp(b) \in AllValues
      /\ \A b \in g.block : Br(b) \in AllValues
      /\ \A k \in K : Gep(k) \in AllValues /\ Access(k) \in AllValues
  BY ValueCases
<1>2. CASE v = Argument
  <2>1. UsersOf(v, br, own, by) = {Bound(b) : b \in prog.secret} \cup {Index(l) : l \in prog.first}
          \cup {Access(k) : k \in {k \in K : prog.access[k].data}}
    BY <1>2 DEF UsersOf, Argument
  <2> QED
    BY <1>0, <1>1, <2>1
<1>3. ASSUME NEW l \in latches, v = Index(l) PROVE UsersOf(v, br, own, by) \subseteq AllValues
  <2>1. UsersOf(v, br, own, by) = {Cmp(x) : x \in {v[2]} \cap DOMAIN prog.cond}
         \cup {Gep(k) : k \in {k \in K : prog.access[k].loop = v[2]}}
         \cup {Index(e[2]) : e \in {e \in prog.starts : e[1] = v[2]}}
         \cup {Access(k) : k \in {k \in K : prog.access[k].store /\ v[2] \in by[k]}}
    BY <1>3 DEF UsersOf, Index, Argument
  <2>2. \A e \in prog.starts : e[2] \in latches
    BY <1>0
  <2> QED
    BY <1>0, <1>1, <2>1, <2>2
<1>4. ASSUME NEW c \in conditionals, v = Bound(c) PROVE UsersOf(v, br, own, by) \subseteq AllValues
  <2>1. UsersOf(v, br, own, by) = {Cmp(b) : b \in {v[2]} \cap own}
         \cup {Access(k) : k \in {k \in K : prog.access[k].data}}
    BY <1>4 DEF UsersOf, Bound, Argument
  <2>2. v[2] = c
    BY <1>4 DEF Bound
  <2> QED
    BY <1>1, <2>1, <2>2
<1>5. ASSUME NEW c \in conditionals, v = Cmp(c) PROVE UsersOf(v, br, own, by) \subseteq AllValues
  <2>1. UsersOf(v, br, own, by) = {Br(b) : b \in {b \in g.block : br[b].cond = v[2]}}
    BY <1>5 DEF UsersOf, Cmp, Argument
  <2> QED
    BY <1>1, <2>1
<1>6. ASSUME NEW k \in K, v = Gep(k) PROVE UsersOf(v, br, own, by) \subseteq AllValues
  <2>1. UsersOf(v, br, own, by) = {Access(k)}
    BY <1>6 DEF UsersOf, Gep, Argument
  <2> QED
    BY <1>1, <2>1
<1>7. ASSUME NEW x, v = Br(x) \/ v = Access(x) PROVE UsersOf(v, br, own, by) \subseteq AllValues
  <2>1. UsersOf(v, br, own, by) = {}
    BY <1>7 DEF UsersOf, Br, Access, Argument
  <2> QED
    BY <2>1
<1>8. \/ v = Argument \/ \E l \in latches : v = Index(l)
      \/ \E b \in conditionals : v = Bound(b) \/ v = Cmp(b)
      \/ \E b \in g.block : v = Br(b)
      \/ \E k \in K : v = Gep(k) \/ v = Access(k)
  BY ValueCases, Zenon
<1> QED
  BY <1>2, <1>3, <1>4, <1>5, <1>6, <1>7, <1>8

\* The flow of the function as it is when the branches are as br says.
LEMMA FlowIs ==
  ASSUME Compiling, NEW br, NEW own, NEW by
  PROVE  WellFormedFlow(FlowFrom(<<Argument>>, br, own, by))
<1> DEFINE f == FlowFrom(<<Argument>>, br, own, by)
<1>1. f.roots = <<Argument>> /\ Argument \in AllValues
  BY DEF FlowFrom, AllValues
<1>2. f.users = [v \in AllValues |-> InSomeOrder(UsersOf(v, br, own, by))]
  BY DEF FlowFrom
<1>3. ASSUME NEW v \in AllValues PROVE f.users[v] \in Seq(AllValues)
  <2>1. IsFiniteSet(UsersOf(v, br, own, by)) /\ UsersOf(v, br, own, by) \subseteq AllValues
    BY ValuesFinite, UsersAreValues, FS_Subset
  <2>2. InSomeOrder(UsersOf(v, br, own, by)) \in Seq(UsersOf(v, br, own, by))
    BY <2>1, OrderIs
  <2>3. Seq(UsersOf(v, br, own, by)) \subseteq Seq(AllValues)
    BY <2>1
  <2> QED
    BY <1>2, <2>2, <2>3
<1> HIDE DEF f
<1>4. DOMAIN f.users = AllValues /\ f.users \in [AllValues -> Seq(AllValues)]
  BY <1>2, <1>3
<1>5. f.roots \in Seq(AllValues) /\ DOMAIN f.roots = {1}
  BY <1>1
<1>6. WellFormedFlow(f)
  BY <1>4, <1>5 DEF WellFormedFlow
<1> QED
  BY <1>6 DEF f

\* A step of the pass is one of the search's, begins it, or leaves it alone.
LEMMA PassStepSearches ==
  [PassNext]_passVars =>
    \/ [Searching]_taintVars
    \/ /\ phase = "terminators" /\ UNCHANGED <<arg, UsersVector, stack>>
       /\ flow' = FlowFrom(<<Argument>>, code', bounds, guards)
<1> SUFFICES ASSUME [PassNext]_passVars
             PROVE  \/ [Searching]_taintVars
                    \/ /\ phase = "terminators" /\ UNCHANGED <<arg, UsersVector, stack>>
                       /\ flow' = FlowFrom(<<Argument>>, code', bounds, guards)
  OBVIOUS
<1>1. CASE RebuildTerminators
  BY <1>1 DEF RebuildTerminators, taintVars
<1>2. CASE CollectInputs
  BY <1>2 DEF CollectInputs
<1>3. CASE Serialize \/ ModifyPhis \/ StartLoop \/ CollectIndex \/ Collected \/ Return
  BY <1>3 DEF Serialize, ModifyPhis, StartLoop, CollectIndex, Collected, Return
<1>4. CASE \E b \in g.block : ApplyBranch(b)
  BY <1>4 DEF ApplyBranch
<1>5. CASE PassHalt \/ UNCHANGED passVars
  BY <1>5 DEF PassHalt, passVars
<1> QED
  BY <1>1, <1>2, <1>3, <1>4, <1>5 DEF PassNext

LEMMA PassSearchInit == PassInit => SearchInv
<1> SUFFICES ASSUME PassInit PROVE SearchInv
  OBVIOUS
<1>1. flow = [roots |-> <<>>, users |-> <<>>] /\ TaintInit
  BY DEF PassInit
<1>2. WellFormedFlow(flow)
  <2>1. flow.roots = <<>> /\ flow.users = <<>>
    BY <1>1
  <2>2. <<>> \in [{} -> Seq({})] /\ DOMAIN <<>> = {} /\ <<>> \in Seq({})
    OBVIOUS
  <2> QED
    BY <2>1, <2>2 DEF WellFormedFlow
<1> QED
  BY <1>1, <1>2, InitSearch

LEMMA PassSearchNext == SearchInv /\ Phases /\ [PassNext]_passVars => SearchInv'
<1> SUFFICES ASSUME SearchInv, Phases, [PassNext]_passVars PROVE SearchInv'
  OBVIOUS
<1>1. CASE [Searching]_taintVars
  BY <1>1, NextSearch
<1>2. CASE /\ phase = "terminators" /\ UNCHANGED <<arg, UsersVector, stack>>
           /\ flow' = FlowFrom(<<Argument>>, code', bounds, guards)
  <2>1. TaintInit' /\ Compiling
    BY <1>2 DEF Phases, Before, TaintInit, Compiling
  <2>2. WellFormedFlow(FlowFrom(<<Argument>>, code', bounds, guards))
    BY <2>1, FlowIs
  <2>3. WellFormedFlow(flow)'
    BY <1>2, <2>2
  <2>4. (WellFormedFlow(flow) /\ TaintInit => SearchInv)'
    BY InitSearch, PTL
  <2> QED
    BY <2>1, <2>3, <2>4
<1> QED
  BY <1>1, <1>2, PassStepSearches

\* getAllUsers inside the pass, on the function as it is after the branches
\* were replaced: what it pushes depends on an argument, each value once, and
\* when it is over everything that depends on one has been pushed. So the
\* branches that are padded later are chosen from exactly these values.
THEOREM SearchInPass == PassSpec => []VectorExact
<1>1. PassSpec => []Phases
  BY PhasesInit, PhasesNext, PTL DEF PassSpec
<1>2. PassSpec => []SearchInv
  BY <1>1, PassSearchInit, PassSearchNext, PTL DEF PassSpec
<1> QED
  BY <1>2, SearchedExact, PTL

-----------------------------------------------------------------------------
(* What depends on a value: the least set that holds it and the users of    *)
(* all that it holds.                                                       *)

UsersStay(T, br, own, by) == \A x \in T : UsersOf(x, br, own, by) \subseteq T

\* getAllUsers(v) pushes exactly what depends on v.
LEMMA AllUsersIs ==
  ASSUME Compiling, NEW v \in AllValues, NEW br, NEW own, NEW by
  PROVE  /\ v \in AllUsers(v, br, own, by) /\ AllUsers(v, br, own, by) \subseteq AllValues
         /\ UsersStay(AllUsers(v, br, own, by), br, own, by)
         /\ \A T \in SUBSET AllValues :
              v \in T /\ UsersStay(T, br, own, by) => AllUsers(v, br, own, by) \subseteq T
<1> DEFINE V == AllValues
           more(S) == S \cup UNION {UsersOf(x, br, own, by) : x \in S}
           least(S) == {y \in V : \A T \in SUBSET V : S \subseteq T /\ UsersStay(T, br, own, by) => y \in T}
           all == CHOOSE r : r = [S \in SUBSET V |-> IF more(S) = S THEN S ELSE r[more(S)]]
           h == [S \in SUBSET V |-> least(S)]
<1>1. AllUsers(v, br, own, by) = all[{v}]
  BY DEF AllUsers
<1>2. ASSUME NEW S \in SUBSET V
      PROVE  /\ more(S) \in SUBSET V /\ S \subseteq more(S)
             /\ \A T \in SUBSET V : UsersStay(T, br, own, by) => (S \subseteq T <=> more(S) \subseteq T)
             /\ more(S) = S <=> UsersStay(S, br, own, by)
  <2>1. \A y : y \in more(S) <=> y \in S \/ \E x \in S : y \in UsersOf(x, br, own, by)
    BY Zenon
  <2>2. \A x \in S : UsersOf(x, br, own, by) \subseteq V
    BY UsersAreValues
  <2> HIDE DEF more
  <2>3. more(S) \in SUBSET V /\ S \subseteq more(S)
    BY <2>1, <2>2
  <2>4. ASSUME NEW T \in SUBSET V, UsersStay(T, br, own, by) PROVE S \subseteq T <=> more(S) \subseteq T
    BY <2>1, <2>4 DEF UsersStay
  <2>5. more(S) = S <=> UsersStay(S, br, own, by)
    BY <2>1 DEF UsersStay
  <2> QED
    BY <2>3, <2>4, <2>5
<1> HIDE DEF more
<1>3. ASSUME NEW S \in SUBSET V PROVE least(S) = IF more(S) = S THEN S ELSE least(more(S))
  <2>1. CASE more(S) = S
    <3>1. UsersStay(S, br, own, by)
      BY <1>2, <2>1
    <3> QED
      BY <2>1, <3>1
  <2>2. CASE more(S) # S
    <3>1. \A T \in SUBSET V : UsersStay(T, br, own, by) => (S \subseteq T <=> more(S) \subseteq T)
      BY <1>2
    <3> QED
      BY <2>2, <3>1
  <2> QED
    BY <2>1, <2>2
<1>4. h = [S \in SUBSET V |-> IF more(S) = S THEN S ELSE h[more(S)]]
  <2>1. \A S \in SUBSET V : h[S] = IF more(S) = S THEN S ELSE h[more(S)]
    <3> SUFFICES ASSUME NEW S \in SUBSET V PROVE h[S] = IF more(S) = S THEN S ELSE h[more(S)]
      OBVIOUS
    <3>1. more(S) \in SUBSET V
      BY <1>2
    <3>2. h[S] = least(S) /\ h[more(S)] = least(more(S))
      BY <3>1
    <3> HIDE DEF h, least
    <3> QED
      BY <1>3, <3>2
  <2>2. h = [S \in SUBSET V |-> h[S]]
    OBVIOUS
  <2> HIDE DEF h
  <2> QED
    BY <2>1, <2>2
<1>5. all = [S \in SUBSET V |-> IF more(S) = S THEN S ELSE all[more(S)]]
  <2> HIDE DEF h
  <2> QED
    BY <1>4
<1> HIDE DEF all, h, least
<1>6. IsFiniteSet(V)
  BY ValuesFinite
<1> DEFINE left(S) == Cardinality(V \ S)
<1>7. ASSUME NEW S \in SUBSET V
      PROVE  left(S) \in Nat /\ (more(S) # S => left(more(S)) < left(S))
  <2>1. IsFiniteSet(V \ S) /\ IsFiniteSet(V \ more(S))
    BY <1>6, FS_Subset
  <2>2. left(S) \in Nat /\ left(more(S)) \in Nat
    BY <2>1, FS_CardinalityType
  <2>3. ASSUME more(S) # S PROVE left(more(S)) < left(S)
    <3>1. V \ more(S) \in SUBSET (V \ S) /\ V \ more(S) # V \ S
      BY <1>2, <2>3
    <3> QED
      BY <2>1, <2>2, <3>1, FS_Subset
  <2> QED
    BY <2>2, <2>3
<1> HIDE DEF left
<1> DEFINE N == {n \in Nat : \A S \in SUBSET V : left(S) < n => all[S] = least(S)}
<1>8. 0 \in N
  <2>1. ASSUME NEW S \in SUBSET V PROVE ~(left(S) < 0)
    BY <1>7
  <2> QED
    BY <2>1
<1>9. ASSUME NEW n \in Nat, n \in N PROVE n + 1 \in N
  <2> SUFFICES ASSUME NEW S \in SUBSET V, left(S) < n + 1 PROVE all[S] = least(S)
    OBVIOUS
  <2>1. all[S] = (IF more(S) = S THEN S ELSE all[more(S)])
    BY <1>5
  <2>2. CASE more(S) = S
    BY <1>3, <2>1, <2>2
  <2>3. CASE more(S) # S
    <3>1. more(S) \in SUBSET V
      BY <1>2
    <3>2. left(S) \in Nat /\ left(more(S)) \in Nat /\ left(more(S)) < left(S)
      BY <1>7, <2>3, <3>1
    <3>3. all[more(S)] = least(more(S))
      BY <1>9, <3>1, <3>2
    <3> QED
      BY <1>3, <2>1, <2>3, <3>3
  <2> QED
    BY <2>2, <2>3
<1>10. Nat \subseteq N
  <2> HIDE DEF N
  <2> QED
    BY <1>8, <1>9, NatInd
<1>11. all[{v}] = least({v})
  <2>1. left({v}) \in Nat /\ {v} \in SUBSET V
    BY <1>7
  <2>2. left({v}) + 1 \in N /\ left({v}) < left({v}) + 1
    <3> HIDE DEF N
    <3> QED
      BY <1>10, <2>1
  <2> QED
    BY <2>1, <2>2
<1>12. UsersStay(least({v}), br, own, by)
  <2> SUFFICES ASSUME NEW x \in least({v}), NEW y \in UsersOf(x, br, own, by) PROVE y \in least({v})
    BY DEF UsersStay
  <2>1. x \in V
    BY DEF least
  <2>2. y \in V
    BY <2>1, UsersAreValues
  <2>3. ASSUME NEW T \in SUBSET V, {v} \subseteq T, UsersStay(T, br, own, by) PROVE y \in T
    <3>1. x \in T
      BY <2>3 DEF least
    <3> QED
      BY <2>3, <3>1 DEF UsersStay
  <2> QED
    BY <2>2, <2>3 DEF least
<1>13. v \in least({v}) /\ least({v}) \subseteq V
  BY DEF least
<1>14. ASSUME NEW T \in SUBSET V, v \in T, UsersStay(T, br, own, by) PROVE least({v}) \subseteq T
  BY <1>14 DEF least
<1> QED
  BY <1>1, <1>11, <1>12, <1>13, <1>14

\* A value's kind, and the block, loop or access it is one of.
LEMMA Kinds ==
  /\ Argument[1] = "arg"
  /\ \A x : /\ Index(x)[1] = "index" /\ Index(x)[2] = x
            /\ Bound(x)[1] = "bound" /\ Bound(x)[2] = x
            /\ Cmp(x)[1] = "cmp" /\ Cmp(x)[2] = x
            /\ Br(x)[1] = "br" /\ Br(x)[2] = x
            /\ Gep(x)[1] = "gep" /\ Gep(x)[2] = x
            /\ Access(x)[1] = "access" /\ Access(x)[2] = x
BY DEF Argument, Index, Bound, Cmp, Br, Gep, Access

\* Who uses a value of each kind.
LEMMA UsersByKind ==
  ASSUME Compiling
  PROVE  /\ \A br, own, by, y :
              y \in UsersOf(Argument, br, own, by) <=>
                \/ \E b \in prog.secret : y = Bound(b)
                \/ \E l \in prog.first : y = Index(l)
                \/ \E k \in accesses : prog.access[k].data /\ y = Access(k)
         /\ \A br, own, by, y, l :
              y \in UsersOf(Index(l), br, own, by) <=>
                \/ l \in conditionals /\ y = Cmp(l)
                \/ \E k \in accesses : prog.access[k].loop = l /\ y = Gep(k)
                \/ \E e \in prog.starts : e[1] = l /\ y = Index(e[2])
                \/ \E k \in accesses : prog.access[k].store /\ l \in by[k] /\ y = Access(k)
         /\ \A br, own, by, y, b :
              y \in UsersOf(Bound(b), br, own, by) <=>
                \/ b \in own /\ y = Cmp(b)
                \/ \E k \in accesses : prog.access[k].data /\ y = Access(k)
         /\ \A br, own, by, y, b :
              y \in UsersOf(Cmp(b), br, own, by) <=> \E c \in g.block : br[c].cond = b /\ y = Br(c)
         /\ \A br, own, by, y, k : y \in UsersOf(Gep(k), br, own, by) <=> y = Access(k)
         /\ \A br, own, by, y, x : y \notin UsersOf(Br(x), br, own, by)
         /\ \A br, own, by, y, x : y \notin UsersOf(Access(x), br, own, by)
<1> DEFINE K == accesses
           LS == {Access(k) : k \in {k \in K : prog.access[k].data}}
<1>1. \A y : y \in LS <=> \E k \in K : prog.access[k].data /\ y = Access(k)
  BY Zenon
<1> HIDE DEF LS
<1>2. ASSUME NEW br, NEW own, NEW by, NEW y
      PROVE  y \in UsersOf(Argument, br, own, by) <=>
               \/ \E b \in prog.secret : y = Bound(b)
               \/ \E l \in prog.first : y = Index(l)
               \/ y \in LS
  <2>1. UsersOf(Argument, br, own, by)
          = {Bound(b) : b \in prog.secret} \cup {Index(l) : l \in prog.first} \cup LS
    BY DEF UsersOf, Argument, LS
  <2>2. y \in {Bound(b) : b \in prog.secret} <=> \E b \in prog.secret : y = Bound(b)
    BY Zenon
  <2>3. y \in {Index(l) : l \in prog.first} <=> \E l \in prog.first : y = Index(l)
    BY Zenon
  <2> QED
    BY <2>1, <2>2, <2>3
<1>3. ASSUME NEW br, NEW own, NEW by, NEW y, NEW l
      PROVE  y \in UsersOf(Index(l), br, own, by) <=>
               \/ l \in conditionals /\ y = Cmp(l)
               \/ \E k \in K : prog.access[k].loop = l /\ y = Gep(k)
               \/ \E e \in prog.starts : e[1] = l /\ y = Index(e[2])
               \/ \E k \in K : prog.access[k].store /\ l \in by[k] /\ y = Access(k)
  <2>1. UsersOf(Index(l), br, own, by) =
         {Cmp(x) : x \in {l} \cap DOMAIN prog.cond}
         \cup {Gep(k) : k \in {k \in K : prog.access[k].loop = l}}
         \cup {Index(e[2]) : e \in {e \in prog.starts : e[1] = l}}
         \cup {Access(k) : k \in {k \in K : prog.access[k].store /\ l \in by[k]}}
    BY DEF UsersOf, Index, Argument
  <2>2. y \in {Cmp(x) : x \in {l} \cap DOMAIN prog.cond} <=> l \in conditionals /\ y = Cmp(l)
    BY ProgramIs
  <2>3. y \in {Gep(k) : k \in {k \in K : prog.access[k].loop = l}}
          <=> \E k \in K : prog.access[k].loop = l /\ y = Gep(k)
    BY Zenon
  <2>4. y \in {Index(e[2]) : e \in {e \in prog.starts : e[1] = l}}
          <=> \E e \in prog.starts : e[1] = l /\ y = Index(e[2])
    BY Zenon
  <2>5. y \in {Access(k) : k \in {k \in K : prog.access[k].store /\ l \in by[k]}}
          <=> \E k \in K : prog.access[k].store /\ l \in by[k] /\ y = Access(k)
    BY Zenon
  <2> QED
    BY <2>1, <2>2, <2>3, <2>4, <2>5
<1>4. ASSUME NEW br, NEW own, NEW by, NEW y, NEW b
      PROVE  y \in UsersOf(Bound(b), br, own, by) <=> (b \in own /\ y = Cmp(b)) \/ y \in LS
  <2>1. UsersOf(Bound(b), br, own, by) = {Cmp(x) : x \in {b} \cap own} \cup LS
    BY DEF UsersOf, Bound, Argument, LS
  <2>2. y \in {Cmp(x) : x \in {b} \cap own} <=> b \in own /\ y = Cmp(b)
    OBVIOUS
  <2> QED
    BY <2>1, <2>2
<1>5. ASSUME NEW br, NEW own, NEW by, NEW y, NEW b
      PROVE  y \in UsersOf(Cmp(b), br, own, by) <=> \E c \in g.block : br[c].cond = b /\ y = Br(c)
  <2>1. UsersOf(Cmp(b), br, own, by) = {Br(x) : x \in {x \in g.block : br[x].cond = b}}
    BY DEF UsersOf, Cmp, Argument
  <2> QED
    BY <2>1, Zenon
<1>6. ASSUME NEW br, NEW own, NEW by, NEW y, NEW k
      PROVE  y \in UsersOf(Gep(k), br, own, by) <=> y = Access(k)
  <2>1. UsersOf(Gep(k), br, own, by) = {Access(k)}
    BY DEF UsersOf, Gep, Argument
  <2> QED
    BY <2>1
<1>7. ASSUME NEW br, NEW own, NEW by, NEW y, NEW x
      PROVE  y \notin UsersOf(Br(x), br, own, by) /\ y \notin UsersOf(Access(x), br, own, by)
  <2>1. UsersOf(Br(x), br, own, by) = {} /\ UsersOf(Access(x), br, own, by) = {}
    BY DEF UsersOf, Br, Access, Argument
  <2> QED
    BY <2>1
<1> QED
  BY <1>1, <1>2, <1>3, <1>4, <1>5, <1>6, <1>7

\* The branches apart, what depends on an index is the same whatever the
\* branches are and whichever bounds are left, and the accesses apart, however
\* these are guarded.
LEMMA IndexLeadsTo ==
  ASSUME Compiling, NEW l \in latches, NEW br, NEW own, NEW by, NEW br2, NEW own2, NEW by2,
         NEW x \in AllUsers(Index(l), br, own, by), x[1] # "br", x[1] = "access" => by = by2
  PROVE  x \in AllUsers(Index(l), br2, own2, by2)
<1> DEFINE A == AllUsers(Index(l), br, own, by)
           B == AllUsers(Index(l), br2, own2, by2)
           T == {y \in AllValues : \/ y[1] = "br" \/ (y[1] = "access" /\ by # by2)
                                   \/ (y \in B /\ y[1] \notin {"arg", "bound"})}
<1>1. Index(l) \in AllValues
  BY ValueCases
<1>2. Index(l) \in B /\ UsersStay(B, br2, own2, by2)
  BY <1>1, AllUsersIs
<1> HIDE DEF B
<1>2a. \A y : y \in T <=>
              /\ y \in AllValues
              /\ \/ y[1] = "br" \/ (y[1] = "access" /\ by # by2)
                 \/ (y \in B /\ y[1] \notin {"arg", "bound"})
  OBVIOUS
<1> HIDE DEF T
<1>3. ASSUME NEW y \in T, NEW u \in UsersOf(y, br, own, by) PROVE u \in T
  <2>1. y \in AllValues /\ u \in AllValues
    BY <1>2a, UsersAreValues
  <2>2. \/ y = Argument \/ \E m \in latches : y = Index(m)
        \/ \E b \in conditionals : y = Bound(b) \/ y = Cmp(b)
        \/ \E b \in g.block : y = Br(b)
        \/ \E k \in accesses : y = Gep(k) \/ y = Access(k)
    BY <2>1, ValueCases, Zenon
  <2>3. y # Argument /\ \A b : y # Bound(b)
    BY <1>2a, Kinds
  <2>4. y \in B \/ y[1] \in {"br", "access"}
    BY <1>2a
  <2>5. ASSUME NEW m \in latches, y = Index(m) PROVE u \in T
    <3>1. y \in B
      BY <2>4, <2>5, Kinds
    <3>2. /\ u[1] \in {"cmp", "gep", "index", "access"}
          /\ u \in UsersOf(y, br2, own2, by2) \/ (u[1] = "access" /\ by # by2)
      <4>1. \/ m \in conditionals /\ u = Cmp(m)
            \/ \E k \in accesses : prog.access[k].loop = m /\ u = Gep(k)
            \/ \E e \in prog.starts : e[1] = m /\ u = Index(e[2])
            \/ \E k \in accesses : prog.access[k].store /\ m \in by[k] /\ u = Access(k)
        <5>1. u \in UsersOf(Index(m), br, own, by)
          BY <2>5
        <5> QED
          BY <5>1, UsersByKind
      <4>2. u \in UsersOf(Index(m), br2, own2, by2) \/ (u[1] = "access" /\ by # by2)
        <5>1. ASSUME NEW k \in accesses, u = Access(k) PROVE u[1] = "access"
          BY <5>1, Kinds
        <5> QED
          BY <4>1, <5>1, UsersByKind
      <4> QED
        BY <2>5, <4>1, <4>2, Kinds
    <3>3. u \in B \/ (u[1] = "access" /\ by # by2)
      BY <1>2, <3>1, <3>2 DEF UsersStay
    <3> QED
      BY <1>2a, <2>1, <3>2, <3>3
  <2>6. ASSUME NEW b \in conditionals, y = Cmp(b) PROVE u \in T
    <3>1. \E c \in g.block : u = Br(c)
      <4>1. u \in UsersOf(Cmp(b), br, own, by)
        BY <2>6
      <4> QED
        BY <4>1, UsersByKind
    <3> QED
      BY <1>2a, <2>1, <3>1, Kinds
  <2>7. ASSUME NEW k \in accesses, y = Gep(k) PROVE u \in T
    <3>1. y \in B
      BY <2>4, <2>7, Kinds
    <3>2. u = Access(k)
      <4>1. u \in UsersOf(Gep(k), br, own, by)
        BY <2>7
      <4> QED
        BY <4>1, UsersByKind
    <3>3. u \in UsersOf(y, br2, own2, by2)
      BY <2>7, <3>2, UsersByKind
    <3>4. u \in B
      BY <1>2, <3>1, <3>3 DEF UsersStay
    <3> QED
      BY <1>2a, <2>1, <3>2, <3>4, Kinds
  <2>8. ASSUME NEW c, y = Br(c) \/ y = Access(c) PROVE FALSE
    <3>1. u \in UsersOf(Br(c), br, own, by) \/ u \in UsersOf(Access(c), br, own, by)
      BY <2>8
    <3> QED
      BY <3>1, UsersByKind
  <2> QED
    BY <2>2, <2>3, <2>5, <2>6, <2>7, <2>8
<1>4. UsersStay(T, br, own, by)
  BY <1>3 DEF UsersStay
<1>5. T \in SUBSET AllValues /\ Index(l) \in T
  BY <1>1, <1>2, <1>2a, Kinds
<1>6. A \subseteq T
  BY <1>1, <1>4, <1>5, AllUsersIs
<1>7. x \in B
  BY <1>2a, <1>6
<1> QED
  BY <1>7 DEF B

\* The order of a value's users leaves none of them out.
LEMMA OrderHasAll ==
  ASSUME NEW S, IsFiniteSet(S), NEW x \in S
  PROVE  \E i \in 1..Len(InSomeOrder(S)) : InSomeOrder(S)[i] = x
<1> DEFINE n == Cardinality(S)
           o == InSomeOrder(S)
<1>1. n \in Nat /\ ExistsBijection(1..n, S)
  BY FS_CardinalityType
<1>2. PICK h : h \in Bijection(1..n, S)
  BY <1>1 DEF ExistsBijection
<1>3. h \in [1..n -> S] /\ IsInjective(h)
  BY <1>2 DEF Bijection, Injection
<1>4. o \in [1..n -> S] /\ IsInjective(o)
  BY <1>3 DEF SetToSeq, InSomeOrder
<1>5. Len(o) = n
  BY <1>1, <1>4
<1> HIDE DEF o
<1>6. SUFFICES ASSUME \A i \in 1..n : o[i] # x PROVE FALSE
  BY <1>5 DEF o
<1>7. o \in Injection(1..n, S \ {x})
  <2>1. o \in [1..n -> S \ {x}]
    BY <1>4, <1>6
  <2> QED
    BY <1>4, <2>1 DEF Injection
<1>8. IsFiniteSet(S \ {x}) /\ Cardinality(S \ {x}) = n - 1
  BY FS_RemoveElement
<1>9. IsFiniteSet(1..n) /\ Cardinality(1..n) = n
  BY <1>1, FS_Interval
<1>10. n <= n - 1
  BY <1>7, <1>8, <1>9, FS_Injection
<1> QED
  BY <1>1, <1>10

-----------------------------------------------------------------------------
(* What the search of the pass has found when it is over.                   *)

\* The search runs on the function with the branches as they are now, when the
\* blocks of own compared with their own bounds.
SearchOf(own) == flow = FlowFrom(<<Argument>>, code, own, Unguarded)

\* In the search for a function's branches, the users of a value are those of UsersOf.
LEMMA UsesAre ==
  ASSUME Compiling, NEW own, SearchOf(own)
  PROVE  /\ flow.roots = <<Argument>> /\ value = AllValues
         /\ \A v \in AllValues :
              /\ uses(v) = InSomeOrder(UsersOf(v, code, own, Unguarded))
              /\ IsFiniteSet(UsersOf(v, code, own, Unguarded))
              /\ uses(v) \in Seq(UsersOf(v, code, own, Unguarded))
<1>1. /\ flow.roots = <<Argument>>
      /\ flow.users = [v \in AllValues |-> InSomeOrder(UsersOf(v, code, own, Unguarded))]
  BY DEF SearchOf, FlowFrom
<1>2. ASSUME NEW v \in AllValues
      PROVE  /\ uses(v) = InSomeOrder(UsersOf(v, code, own, Unguarded))
             /\ IsFiniteSet(UsersOf(v, code, own, Unguarded))
             /\ uses(v) \in Seq(UsersOf(v, code, own, Unguarded))
  <2>1. IsFiniteSet(UsersOf(v, code, own, Unguarded))
    BY ValuesFinite, UsersAreValues, FS_Subset
  <2>2. uses(v) = InSomeOrder(UsersOf(v, code, own, Unguarded))
    BY <1>1 DEF uses
  <2> QED
    BY <2>1, <2>2, OrderIs
<1> QED
  BY <1>1, <1>2 DEF value

\* The vector holds the argument and the users of what it holds.
LEMMA VectorHolds ==
  ASSUME Compiling, NEW own, SearchOf(own), SearchInv, Searched
  PROVE  /\ InVector(Argument)
         /\ \A v \in AllValues : InVector(v) => \A u \in UsersOf(v, code, own, Unguarded) : InVector(u)
<1>1. /\ stack = <<>> /\ Len(stack) = 0 /\ arg > 1 /\ Len(flow.roots) = 1 /\ flow.roots[1] = Argument
  <2>1. flow.roots = <<Argument>>
    BY UsesAre
  <2> QED
    BY <2>1 DEF Searched
<1>2. 1 \in 1..(arg - 1)
  BY <1>1 DEF SearchInv, Typed
<1>3. InVector(Argument)
  BY <1>1, <1>2 DEF SearchInv, RootsPushed
<1>4. ASSUME NEW v \in AllValues, InVector(v), NEW u \in UsersOf(v, code, own, Unguarded) PROVE InVector(u)
  <2>1. ~Active(v)
    BY <1>1 DEF Active
  <2>2. AllUsersPushed(v)
    BY <1>4, <2>1, UsesAre DEF SearchInv, Pending
  <2>3. \E i \in 1..Len(uses(v)) : uses(v)[i] = u
    BY UsesAre, OrderHasAll
  <2> QED
    BY <2>2, <2>3 DEF AllUsersPushed
<1> QED
  BY <1>3, <1>4

\* The vector holds nothing that does not depend on the argument.
LEMMA VectorWithin ==
  ASSUME Compiling, NEW own, SearchOf(own), SearchInv,
         NEW T \in SUBSET AllValues, Argument \in T, UsersStay(T, code, own, Unguarded), NEW v, InVector(v)
  PROVE  v \in T
<1> DEFINE n == Len(UsersVector)
           N == {m \in Nat : \A i \in 1..m : i <= n => UsersVector[i] \in T}
<1>1. n \in Nat /\ UsersVector \in Seq(value) /\ arg \in 1..2
  <2>1. flow.roots = <<Argument>> /\ Len(<<Argument>>) = 1
    BY UsesAre
  <2> QED
    BY <2>1, LenProperties DEF SearchInv, Typed
<1>2. 0 \in N
  OBVIOUS
<1>3. ASSUME NEW m \in Nat, m \in N PROVE m + 1 \in N
  <2> SUFFICES ASSUME m + 1 <= n PROVE UsersVector[m + 1] \in T
    BY <1>3
  <2>1. CASE FromRoot(UsersVector[m + 1])
    <3>1. PICK j \in 1..(arg - 1) : UsersVector[m + 1] = flow.roots[j]
      BY <2>1 DEF FromRoot
    <3>2. j = 1
      BY <1>1, <3>1
    <3> QED
      BY <3>1, <3>2, UsesAre
  <2>2. CASE FromUser(UsersVector[m + 1], m + 1)
    <3>1. PICK j \in 1..m : \E k \in 1..Len(uses(UsersVector[j])) :
                             UsersVector[m + 1] = uses(UsersVector[j])[k]
      BY <2>2 DEF FromUser
    <3>2. UsersVector[j] \in T
      BY <1>1, <1>3, <3>1
    <3>3. PICK k \in 1..Len(uses(UsersVector[j])) : UsersVector[m + 1] = uses(UsersVector[j])[k]
      BY <3>1
    <3>4. uses(UsersVector[j]) \in Seq(UsersOf(UsersVector[j], code, own, Unguarded))
      BY <3>2, UsesAre
    <3>5. UsersVector[m + 1] \in UsersOf(UsersVector[j], code, own, Unguarded)
      BY <3>3, <3>4, ElementOfSeq
    <3> QED
      BY <3>2, <3>5 DEF UsersStay
  <2> QED
    BY <1>1, <2>1, <2>2 DEF SearchInv, Origins
<1>4. Nat \subseteq N
  <2> HIDE DEF N
  <2> QED
    BY <1>2, <1>3, NatInd
<1>5. PICK i \in 1..n : UsersVector[i] = v
  BY <1>1, InVectorByIndex
<1>6. i \in N /\ i \in 1..i /\ i <= n
  <2> HIDE DEF N
  <2> QED
    BY <1>1, <1>4, <1>5
<1> QED
  BY <1>5, <1>6

\* The secret bounds, the branches whose conditions compare with them or with
\* an index that starts from a secret, and the accesses with such an index or of
\* secret values are what the loops' turns look for in the vector.
LEMMA VectorIs ==
  ASSUME Compiling, SearchOf(conditionals), SearchInv, Searched
  PROVE  /\ \A b \in conditionals : InVector(Bound(b)) <=> b \in prog.secret
         /\ \A b \in g.block :
              InVector(Br(b)) <=> code[b].cond \in prog.secret \cup (prog.first \cap conditionals)
         /\ \A k \in accesses :
              InVector(Access(k)) <=> prog.access[k].data \/ prog.access[k].loop \in prog.first
<1>0. /\ prog.secret \subseteq conditionals /\ prog.first \subseteq latches
      /\ prog.starts \subseteq (latches \ prog.first) \X (latches \ prog.first)
  BY ProgramIs
<1> DEFINE C == prog.secret \cup (prog.first \cap conditionals)
           Led(k) == prog.access[k].data \/ prog.access[k].loop \in prog.first
           In(v) == \/ v = Argument
                    \/ \E b \in prog.secret : v = Bound(b)
                    \/ \E l \in prog.first : v = Index(l)
                    \/ \E b \in C : v = Cmp(b)
                    \/ \E b \in g.block : code[b].cond \in C /\ v = Br(b)
                    \/ \E k \in accesses : prog.access[k].loop \in prog.first /\ v = Gep(k)
                    \/ \E k \in accesses : Led(k) /\ v = Access(k)
           T == {v \in AllValues : In(v)}
<1>1. /\ Argument \in AllValues /\ \A b \in conditionals : Bound(b) \in AllValues /\ Cmp(b) \in AllValues
      /\ \A b \in g.block : Br(b) \in AllValues
      /\ \A l \in latches : Index(l) \in AllValues
      /\ \A k \in accesses : Gep(k) \in AllValues /\ Access(k) \in AllValues
  BY ValueCases
<1>2. \A v : v \in T <=> v \in AllValues /\ In(v)
  OBVIOUS
<1>3. T \in SUBSET AllValues /\ Argument \in T /\ C \subseteq conditionals
  BY <1>0, <1>1
<1> HIDE DEF T
<1>4. ASSUME NEW v \in T, NEW u \in UsersOf(v, code, conditionals, Unguarded) PROVE u \in T
  <2>1. u \in AllValues
    BY <1>3, UsersAreValues
  <2>2. CASE v = Argument
    <3>1. u \in UsersOf(Argument, code, conditionals, Unguarded)
      BY <2>2
    <3> QED
      BY <1>2, <2>1, <3>1, UsersByKind
  <2>3. ASSUME NEW b \in prog.secret, v = Bound(b) PROVE u \in T
    <3>1. u \in UsersOf(Bound(b), code, conditionals, Unguarded)
      BY <2>3
    <3>2. \/ u = Cmp(b) \/ \E k \in accesses : prog.access[k].data /\ u = Access(k)
      BY <3>1, UsersByKind
    <3> QED
      BY <1>2, <2>1, <3>2
  <2>4. ASSUME NEW l \in prog.first, v = Index(l) PROVE u \in T
    <3>1. u \in UsersOf(Index(l), code, conditionals, Unguarded)
      BY <2>4
    <3>2. ~(\E e \in prog.starts : e[1] = l)
      BY <1>0
    <3>3. \A k \in accesses : l \notin Unguarded[k]
      BY DEF Unguarded
    <3>4. \/ l \in conditionals /\ u = Cmp(l)
          \/ \E k \in accesses : prog.access[k].loop = l /\ u = Gep(k)
      BY <3>1, <3>2, <3>3, UsersByKind
    <3> QED
      BY <1>2, <2>1, <3>4
  <2>5. ASSUME NEW b \in C, v = Cmp(b) PROVE u \in T
    <3>1. u \in UsersOf(Cmp(b), code, conditionals, Unguarded)
      BY <2>5
    <3>2. \E c \in g.block : code[c].cond = b /\ u = Br(c)
      BY <3>1, UsersByKind
    <3> QED
      BY <1>2, <2>1, <3>2
  <2>6. ASSUME NEW k \in accesses, prog.access[k].loop \in prog.first, v = Gep(k) PROVE u \in T
    <3>1. u \in UsersOf(Gep(k), code, conditionals, Unguarded)
      BY <2>6
    <3>2. u = Access(k)
      BY <3>1, UsersByKind
    <3> QED
      BY <1>2, <2>1, <2>6, <3>2
  <2>7. ASSUME NEW c, v = Br(c) \/ v = Access(c) PROVE FALSE
    <3>1. \/ u \in UsersOf(Br(c), code, conditionals, Unguarded)
          \/ u \in UsersOf(Access(c), code, conditionals, Unguarded)
      BY <2>7
    <3> QED
      BY <3>1, UsersByKind
  <2>8. In(v)
    BY <1>2
  <2> HIDE DEF C, Led
  <2> QED
    BY <2>2, <2>3, <2>4, <2>5, <2>6, <2>7, <2>8
<1>5. UsersStay(T, code, conditionals, Unguarded)
  BY <1>4 DEF UsersStay
<1>6. \A v : InVector(v) => v \in T
  BY <1>3, <1>5, VectorWithin
<1>7. /\ InVector(Argument)
      /\ \A v \in AllValues :
           InVector(v) => \A u \in UsersOf(v, code, conditionals, Unguarded) : InVector(u)
  BY VectorHolds
<1>8. ASSUME NEW b \in conditionals PROVE InVector(Bound(b)) <=> b \in prog.secret
  <2>1. Bound(b) \in T => b \in prog.secret
    BY <1>2, Kinds
  <2>2. b \in prog.secret => Bound(b) \in UsersOf(Argument, code, conditionals, Unguarded)
    BY UsersByKind
  <2> QED
    BY <1>1, <1>6, <1>7, <2>1, <2>2
<1>9. ASSUME NEW l \in prog.first PROVE Index(l) \in AllValues /\ InVector(Index(l))
  <2>1. Index(l) \in UsersOf(Argument, code, conditionals, Unguarded)
    BY UsersByKind
  <2>2. Index(l) \in AllValues
    BY <1>0, <1>1
  <2>3. InVector(Index(l))
    BY <1>1, <1>7, <2>1, Zenon
  <2> QED
    BY <2>2, <2>3
<1>10. ASSUME NEW b \in C PROVE InVector(Cmp(b))
  <2>1. CASE b \in prog.secret
    <3>1. InVector(Bound(b)) /\ b \in conditionals
      BY <1>0, <1>8, <2>1
    <3>2. Cmp(b) \in UsersOf(Bound(b), code, conditionals, Unguarded)
      BY <3>1, UsersByKind
    <3> QED
      BY <1>1, <1>7, <3>1, <3>2
  <2>2. CASE b \in prog.first \cap conditionals
    <3>1. Cmp(b) \in UsersOf(Index(b), code, conditionals, Unguarded)
      BY <2>2, UsersByKind
    <3> QED
      BY <1>7, <1>9, <2>2, <3>1
  <2> QED
    BY <2>1, <2>2
<1>11. ASSUME NEW b \in g.block PROVE InVector(Br(b)) <=> code[b].cond \in C
  <2>1. Br(b) \in T => code[b].cond \in C
    <3> HIDE DEF C
    <3> QED
      BY <1>2, Kinds
  <2>2. ASSUME code[b].cond \in C PROVE InVector(Br(b))
    <3>1. PICK c \in C : c = code[b].cond
      BY <2>2
    <3>2. Br(b) \in UsersOf(Cmp(c), code, conditionals, Unguarded)
      BY <3>1, UsersByKind
    <3> QED
      BY <1>1, <1>3, <1>7, <1>10, <3>2
  <2> QED
    BY <1>6, <2>1, <2>2
<1>12. ASSUME NEW k \in accesses PROVE InVector(Access(k)) <=> Led(k)
  <2>1. Access(k) \in T => Led(k)
    <3> HIDE DEF C, Led
    <3> QED
      BY <1>2, Kinds
  <2>2. prog.access[k].data => Access(k) \in UsersOf(Argument, code, conditionals, Unguarded)
    BY UsersByKind
  <2>3. ASSUME prog.access[k].loop \in prog.first PROVE InVector(Access(k))
    <3>1. PICK l \in prog.first : l = prog.access[k].loop
      BY <2>3
    <3>2. Gep(k) \in UsersOf(Index(l), code, conditionals, Unguarded)
      BY <3>1, UsersByKind
    <3>3. Access(k) \in UsersOf(Gep(k), code, conditionals, Unguarded)
      BY UsersByKind
    <3>4. InVector(Gep(k))
      BY <1>7, <1>9, <3>2
    <3> QED
      BY <1>1, <1>7, <3>3, <3>4
  <2> QED
    BY <1>1, <1>6, <1>7, <2>1, <2>2, <2>3
<1> QED
  BY <1>8, <1>11, <1>12

-----------------------------------------------------------------------------
(* The branches of a supported function after the replacement.              *)

\* Only a latch's branch keeps a condition, and a second target.
Plain ==
  Supported(g) => \A b \in DOMAIN serializedCode \ latches :
                    serializedCode[b].cond = Null /\ serializedCode[b].els = Null

\* No step gives a block other than a latch a condition.
LEMMA PlainNext == IInv /\ LInv /\ Plain /\ [Next]_vars => Plain'
<1> SUFFICES ASSUME IInv, LInv, Plain, [Next]_vars, Supported(g)' PROVE
             (\A b \in DOMAIN serializedCode \ latches :
                serializedCode[b].cond = Null /\ serializedCode[b].els = Null)'
  BY DEF Plain
<1>1. g' = g
  BY DEF Next, Visit, Unwind, Search, Halt, vars, VisitUnconditional, VisitLatch,
     VisitConditional, VisitOther, VisitJoined, UnwindNoPostDominator, UnwindEmptyThen,
     UnwindRedirect, UnwindSearch, SearchFollow, SearchSplit, ReplaceTerminators
<1>2. latches' = latches /\ Supported(g) /\ pc # "search"
  BY <1>1 DEF latches, LInv, Smooth
<1>3. \A b \in DOMAIN serializedCode \ latches :
        serializedCode[b].cond = Null /\ serializedCode[b].els = Null
  BY <1>2 DEF Plain
<1>4. ASSUME NEW b, NEW br, serializedCode' = Record(b, br),
             b \in latches \/ (br.cond = Null /\ br.els = Null)
      PROVE  (\A x \in DOMAIN serializedCode \ latches :
                serializedCode[x].cond = Null /\ serializedCode[x].els = Null)'
  <2> DEFINE m == Record(b, br)
  <2>1. /\ DOMAIN m = DOMAIN serializedCode \cup {b} /\ m[b] = br
        /\ \A x \in DOMAIN serializedCode \ {b} : m[x] = serializedCode[x]
    BY RecordIs
  <2> HIDE DEF m
  <2>2. ASSUME NEW x \in DOMAIN m, x \notin latches PROVE m[x].cond = Null /\ m[x].els = Null
    BY <1>3, <1>4, <2>1, <2>2
  <2>3. serializedCode' = m
    BY <1>4 DEF m
  <2> QED
    BY <1>2, <2>2, <2>3
<1>5. CASE UNCHANGED serializedCode
  BY <1>2, <1>3, <1>5
<1>6. CASE VisitUnconditional
  <2>1. serializedCode' = Record(bb, newBranch(Null, g.succ[bb][1], Null))
    BY <1>6 DEF VisitUnconditional
  <2> QED
    BY <1>4, <2>1 DEF newBranch
<1>7. CASE VisitLatch
  <2>1. /\ serializedCode' = Record(bb, newBranch(bb, g.succ[bb][1], g.succ[bb][2]))
        /\ bb \in latches
    BY <1>7 DEF VisitLatch, latches
  <2> QED
    BY <1>4, <2>1
<1>8. CASE VisitConditional
  <2>1. serializedCode' = Record(bb, newBranch(Null, g.succ[bb][2], Null))
    BY <1>8 DEF VisitConditional, ElseOnly
  <2> QED
    BY <1>4, <2>1 DEF newBranch
<1>9. CASE UnwindRedirect
  <2>1. \/ UNCHANGED serializedCode
        \/ \E p \in EntriesInto(postDom) : serializedCode' = Record(p, newBranch(Null, thenSide, Null))
    BY <1>9 DEF UnwindRedirect
  <2>2. ASSUME NEW p, serializedCode' = Record(p, newBranch(Null, thenSide, Null))
        PROVE  (\A x \in DOMAIN serializedCode \ latches :
                  serializedCode[x].cond = Null /\ serializedCode[x].els = Null)'
    BY <1>4, <2>2 DEF newBranch
  <2> QED
    BY <1>5, <2>1, <2>2
<1>10. CASE SearchFollow \/ SearchSplit
  BY <1>2, <1>10 DEF SearchFollow, SearchSplit
<1>11. CASE \/ VisitOther \/ VisitJoined \/ UnwindNoPostDominator \/ UnwindEmptyThen
            \/ UnwindSearch \/ ReplaceTerminators \/ Halt \/ UNCHANGED vars
  BY <1>5, <1>11 DEF VisitOther, VisitJoined, UnwindNoPostDominator, UnwindEmptyThen,
     UnwindSearch, ReplaceTerminators, Halt, vars
<1> QED
  BY <1>6, <1>7, <1>8, <1>9, <1>10, <1>11 DEF Next, Visit, Unwind, Search

\* Plain always holds of the serialisation.
LEMMA PlainHolds == Spec => []Plain
<1>1. Init => Plain
  BY DEF Init, Plain
<1> QED
  BY <1>1, PlainNext, SpecLine, PTL DEF Spec

\* A latch keeps its branch and its condition, and no other block has any.
LEMMA CodeIs ==
  ASSUME Compiling, IInv, LInv, Plain, Supported(g), pc = "replaced", NEW b \in g.block
  PROVE  /\ b \in latches => code[b].cond = b /\ Targets(code[b]) = SuccSet(g, b)
         /\ b \notin latches => code[b].cond = Null /\ code[b].els = Null
<1>1. /\ Fit(g, End) /\ Null \notin g.block /\ WellFormed(g) /\ End \in g.ret
      /\ b = End \/ b \in DOMAIN serializedCode
  BY SupportedIs, FunctionIs, AllPlaced DEF IInv
<1>2. code[b] = IF b \in DOMAIN serializedCode THEN serializedCode[b] ELSE OriginalBranch(g, b)
  BY DEF LInv, OwnBranches
<1>3. CASE b = End
  <2>1. g.succ[End] = <<>> /\ SuccSet(g, End) = {}
    BY <1>1, Successors DEF WellFormed, SuccSet
  <2>2. b \notin latches
    BY <1>1, <1>3, <2>1, LatchIs DEF latches
  <2>3. code[b] = newBranch(Null, Null, Null)
    <3>1. b \notin DOMAIN serializedCode
      BY <1>3 DEF LInv, Kept
    <3> QED
      BY <1>2, <1>3, <2>1, <3>1 DEF OriginalBranch
  <2> QED
    BY <2>2, <2>3 DEF newBranch
<1>4. CASE b \in DOMAIN serializedCode /\ b \in latches
  <2>1. code[b] = newBranch(b, g.succ[b][1], g.succ[b][2])
    BY <1>2, <1>4 DEF LInv, Kept, latches
  <2>2. PICK x \in g.block \ LoopBlocks(g, b) :
          /\ SuccSet(g, b) = {g.header[b], x}
          /\ g.succ[b][1] = g.header[b] => g.succ[b][2] = x
          /\ g.succ[b][1] # g.header[b] => g.succ[b][1] = x /\ g.succ[b][2] = g.header[b]
    BY <1>1, <1>4, LatchLeaves DEF latches
  <2>3. g.header[b] \in g.block
    BY <1>1, <1>4, LatchIs DEF latches
  <2>4. Targets(code[b]) = {g.succ[b][1], g.succ[b][2]} \ {Null}
    BY <2>1, TargetsAre
  <2>5. code[b].cond = b
    BY <2>1 DEF newBranch
  <2> QED
    BY <1>1, <1>4, <2>2, <2>3, <2>4, <2>5
<1>5. CASE b \in DOMAIN serializedCode /\ b \notin latches
  BY <1>2, <1>5 DEF Plain
<1> QED
  BY <1>1, <1>3, <1>4, <1>5

\* The loops' blocks: what the latches in them lead to.
LEMMA LatchInside ==
  ASSUME Fit(g, End), NEW m \in latches, NEW l \in latches, l \in Body(m)
  PROVE  \E s \in SuccSet(g, l) : s \in Body(m)
<1>1. m \in g.block /\ l \in g.block
  BY DEF Fit, WellFormed, latches
<1>2. g.header[l] \in SuccSet(g, l) /\ g.header[m] \in SuccSet(g, m)
  BY <1>1, LatchIs DEF latches
<1>3. g.header[m] \in Body(m)
  BY <1>1, LoopIs DEF Body, latches
<1>4. \A b \in LoopBlocks(g, m) : b # m => \A s \in SuccSet(g, b) : s \in LoopBlocks(g, m)
  BY <1>1, LatchIs DEF latches
<1> QED
  BY <1>2, <1>3, <1>4 DEF Body

\* The input branches of a loop are the latches in it that compare a secret, as
\* their bound or as their first index.
LEMMA InputsAre ==
  ASSUME Compiling, IInv, LInv, Plain, Supported(g), pc = "replaced",
         SearchOf(conditionals), SearchInv, Searched, loop \in latches
  PROVE  InputBranches = (prog.secret \cup prog.first) \cap latches \cap Body(loop)
<1>1. Fit(g, End) /\ Null \notin g.block /\ latches \subseteq g.block
  BY SupportedIs, FunctionIs DEF IInv, Fit, WellFormed, latches
<1>2. /\ prog.secret \subseteq conditionals /\ conditionals \subseteq g.block
      /\ latches \subseteq conditionals
  BY <1>1, ProgramIs DEF conditionals, Supported, Rotated, latches
<1>3. Body(loop) \subseteq g.block
  BY DEF Body, LoopBlocks
<1>4. ASSUME NEW b \in Body(loop)
      PROVE  /\ InVector(Br(b)) <=> b \in latches /\ b \in prog.secret \cup prog.first
             /\ b \in latches => ~(Targets(code[b]) \subseteq exitBlocks)
  <2>1. /\ b \in g.block
        /\ b \in latches => code[b].cond = b /\ Targets(code[b]) = SuccSet(g, b)
        /\ b \notin latches => code[b].cond = Null
    BY <1>3, CodeIs
  <2>2. InVector(Br(b)) <=> code[b].cond \in prog.secret \cup (prog.first \cap conditionals)
    BY <2>1, VectorIs
  <2>3. ASSUME b \in latches PROVE ~(Targets(code[b]) \subseteq exitBlocks)
    <3>1. PICK s \in SuccSet(g, b) : s \in Body(loop)
      BY <1>1, <2>3, LatchInside
    <3>2. s \notin exitBlocks
      BY <3>1 DEF exitBlocks
    <3> QED
      BY <2>1, <2>3, <3>1, <3>2
  <2> QED
    BY <1>1, <1>2, <2>1, <2>2, <2>3
<1> QED
  BY <1>4 DEF InputBranches

\* The block before a loop leads to nothing else when the branches are replaced,
\* and no other block outside leads to the loop.
LEMMA PreheaderStays ==
  ASSUME Compiling, IInv, LInv, Plain, Supported(g), pc = "replaced", NEW l \in latches
  PROVE  HasPreheader(l)
<1>1. /\ Fit(g, End) /\ Null \notin g.block /\ WellFormed(g) /\ latches \subseteq g.block
      /\ LoopSimplifyForm(g)
  BY SupportedIs, FunctionIs DEF IInv, Fit, WellFormed, latches
<1>2. PICK p \in g.block \ Body(l) : Preds(g, g.header[l]) = {p, l} /\ Len(g.succ[p]) = 1
  BY <1>1 DEF LoopSimplifyForm, Body, latches
<1>3. g.header[l] \in SuccSet(g, l) /\ g.header[l] \in g.block
  BY <1>1, LatchIs DEF latches
<1>4. Preds(output, g.header[l]) = {p, l}
  BY <1>2, <1>3, MeetingsKept DEF latches
<1>5. ASSUME NEW q \in g.block PROVE g.header[l] \in Targets(code[q]) <=> q \in {p, l}
  <2>1. CASE q \in latches
    <3>1. Targets(code[q]) = SuccSet(g, q)
      BY <2>1, CodeIs
    <3> QED
      BY <1>2, <3>1 DEF Preds
  <2>2. CASE q \notin latches
    <3>1. code[q].els = Null
      BY <2>2, CodeIs
    <3>2. \/ code[q].then = Null /\ output.succ[q] = <<>>
          \/ code[q].then # Null /\ output.succ[q] = <<code[q].then>>
      BY <3>1 DEF output
    <3>3. SuccSet(output, q) = Targets(code[q])
      <4>1. CASE code[q].then = Null /\ output.succ[q] = <<>>
        BY <3>1, <4>1 DEF SuccSet, Targets
      <4>2. CASE code[q].then # Null /\ output.succ[q] = <<code[q].then>>
        <5>1. PICK t : t = code[q].then
          OBVIOUS
        <5>2. SuccSet(output, q) = {t}
          BY <4>2, <5>1 DEF SuccSet
        <5> QED
          BY <3>1, <4>2, <5>1, <5>2 DEF Targets
      <4> QED
        BY <3>2, <4>1, <4>2
    <3>4. output.block = g.block
      BY DEF output
    <3> QED
      BY <1>4, <3>3, <3>4 DEF Preds
  <2> QED
    BY <2>1, <2>2
<1>6. l \in Body(l)
  BY <1>1, LoopIs DEF Body, latches
<1>7. p \notin latches
  BY <1>2 DEF Supported, Rotated, IsConditional, latches
<1>8. code[p].els = Null
  BY <1>2, <1>7, CodeIs
<1>9. Targets(code[p]) = {g.header[l]}
  BY <1>2, <1>5, <1>8 DEF Targets
<1> QED
  BY <1>2, <1>5, <1>6, <1>9 DEF HasPreheader

-----------------------------------------------------------------------------
(* The turns of the loops. A turn pads the latches of Pads, and guards and  *)
(* replaces what GuardedAt and StoresAt say of each of them.                *)

\* The accesses that are found for the latch l, of which GuardedFor takes those
\* that can be guarded.
Listed(m, l, by) ==
  LET first == Min({k \in accesses : l \in PadsBy(m, k)})
  IN  {k \in accesses : Access(k) \in Depends(Index(prog.access[first].loop), by)}

ListedAt(i, l) == Listed(allLoopsVector[i], l, GuardsBefore[i])

\* What the turns before the i-th have padded; the branches that guard the
\* access k for it; and whether it was replaced.
Earlier(i) == UNION {Pads(allLoopsVector[j]) : j \in 1..(i - 1)}

GuardedBefore(i, k) ==
  {l \in latches : \E j \in 1..(i - 1) : l \in Pads(allLoopsVector[j]) /\ k \in GuardedAt(j, l)}

ReplacedBefore(i, k) ==
  \E j \in 1..(i - 1) : \E l \in Pads(allLoopsVector[j]) : k \in StoresAt(j, l)

\* The loops whose first index the i-th turn, and those before it, replace.
Starts(i) == {l \in latches : l = allLoopsVector[i] /\ StartFound(l)}

StartsBefore(i) == {l \in latches : \E j \in 1..(i - 1) : l = allLoopsVector[j] /\ StartFound(l)}

\* No store is replaced twice for the latches of S in the i-th turn, and they
\* are compared, with something that is there if anything is to be guarded.
Harmless(i, S) ==
  /\ \A l \in S : prog.cond[l] = 0
  /\ \A l \in S : GuardFound(i, l) \/ GuardedAt(i, l) = {}
  /\ \A k, l \in S : k # l => StoresAt(i, k) \cap StoresAt(i, l) = {}

\* The turns before the i-th could be taken.
Clean(i) == \A j \in 1..(i - 1) : Harmless(j, Pads(allLoopsVector[j]))

\* The access is one of the values found before the turns.
Found(k) == prog.access[k].data \/ prog.access[k].loop \in prog.first

\* The turns before the i-th have replaced no store that was found.
NoneFound(i) == \A k \in accesses : ReplacedBefore(i, k) => ~Found(k)

\* The guards are those of the turns before this one.
GuardsAt == GuardsBefore[at] = [k \in accesses |-> GuardedBefore(at, k)]

\* The turns before this one are over, and nothing of this one is applied yet.
Applied ==
  /\ at \in 1..(Len(allLoopsVector) + 1) /\ Clean(at)
  /\ guards = [k \in accesses |-> GuardedBefore(at, k)] /\ GuardsAt
  /\ version \in [accesses -> Nat]
  /\ \A k \in accesses : version[k] > 0 <=> ReplacedBefore(at, k)

BetweenTurns ==
  /\ Applied
  /\ bounds = conditionals \ (prog.secret \cap Earlier(at))
  /\ inits = prog.first \ StartsBefore(at)
  /\ NoneFound(at - 1)

InTurn == at <= Len(allLoopsVector) /\ NoneFound(at)

\* The latches whose conditions compare with a secret, in the loop.
Inputs == (prog.secret \cup prog.first) \cap latches \cap Body(loop)

\* The first index of the loop that the accesses of S replace.
SeenIn(S) ==
  {l \in prog.first : l = loop /\ \E k \in S : prog.access[k].direct /\ prog.access[k].loop = l}

\* The array accesses looked at, which are before the others, have recorded
\* the latches they pad, each with the accesses of the first that does.
Collecting ==
  /\ InTurn /\ Applied
  /\ InputBrs = Inputs
  /\ indexes \subseteq ArraysLoop
  /\ \A k \in ArraysLoop \ indexes : \A i \in indexes : k < i
  /\ DOMAIN applyBranchLS = UNION {PadsBy(loop, k) : k \in ArraysLoop \ indexes}
  /\ \A b \in DOMAIN applyBranchLS :
       applyBranchLS[b] = {<<k, version[k]>> : k \in ListedAt(at, b)}
  /\ \A b \in DOMAIN applyBranchLS : prog.cond[b] = 0
  /\ applyBranchEnd = (prog.secret \cap DOMAIN applyBranchLS) \ Earlier(at)
  /\ bounds = conditionals \ (prog.secret \cap (Earlier(at) \cup DOMAIN applyBranchLS))
  /\ applyBranchInit = SeenIn(ArraysLoop \ indexes)
  /\ inits = (prog.first \ StartsBefore(at)) \ SeenIn(ArraysLoop \ indexes)

\* The latches of this turn whose guards are in place.
Done == Pads(loop) \ DOMAIN applyBranchLS

Applying ==
  /\ InTurn /\ at \in 1..(Len(allLoopsVector) + 1) /\ Clean(at) /\ GuardsAt
  /\ DOMAIN applyBranchLS # {} /\ DOMAIN applyBranchLS \subseteq Pads(loop)
  /\ applyBranchEnd = (prog.secret \cap Pads(loop)) \ Earlier(at)
  /\ bounds = conditionals \ (prog.secret \cap (Earlier(at) \cup Pads(loop)))
  /\ applyBranchInit = Starts(at)
  /\ inits = (prog.first \ StartsBefore(at)) \ Starts(at)
  /\ Harmless(at, Done)
  /\ \A b \in Pads(loop) : prog.cond[b] = 0
  /\ guards = [k \in accesses |-> GuardedBefore(at, k) \cup {l \in Done : k \in GuardedAt(at, l)}]
  /\ version \in [accesses -> Nat]
  /\ \A k \in accesses :
       version[k] > 0 <=> ReplacedBefore(at, k) \/ \E l \in Done : k \in StoresAt(at, l)
  /\ \E base \in [accesses -> Nat] :
       /\ \A b \in DOMAIN applyBranchLS :
            applyBranchLS[b] = {<<k, base[k]>> : k \in ListedAt(at, b)}
       /\ \A k \in accesses :
            base[k] <= version[k] /\ (base[k] < version[k] <=> \E l \in Done : k \in StoresAt(at, l))

\* The turns, phase by phase.
TurnsRight ==
  /\ phase \in Before \cup {"taint"} => at = 1
  /\ phase \in Before \cup {"taint", "loop", "end"} => BetweenTurns
  /\ phase = "end" => at > Len(allLoopsVector)
  /\ phase = "collect" => Collecting
  /\ phase = "apply" => Applying

\* What the phases before the turns have established.
Prepared ==
  /\ phase \in {"terminators", "taint", "loop", "collect", "apply", "end"} => ~PhiAlone
  /\ phase \in {"taint", "loop", "collect", "apply", "end"} =>
       pc = "replaced" /\ SearchOf(conditionals) /\ ~PhiErased
  /\ phase \in {"loop", "collect", "apply", "end"} => Searched
  /\ phase \in {"crashed", "undefined"} => Hazard

\* What is known of the program and the order of its loops.
Listing == Compiling /\ allLoopsVector \in AllLoops(g)

TurnInv == allLoopsVector \in AllLoops(g) /\ (Supported(g) => TurnsRight /\ Prepared)

-----------------------------------------------------------------------------
(* What is known of the definitions the turns are built from.               *)

\* The accesses, and the loops whose indexes they use.
LEMMA AccessesAre ==
  ASSUME Compiling
  PROVE  /\ accesses \subseteq Nat /\ latches \subseteq g.block
         /\ \A k \in accesses :
              /\ prog.access[k].loop \in latches /\ prog.access[k].store \in BOOLEAN
              /\ prog.access[k].phis \subseteq prog.phi
<1>1. WellFormedProgram(prog) /\ g = prog.f /\ WellFormed(g)
  BY ProgramsAssumption, FunctionsAssumption DEF Compiling, WellFormedProgram
<1> DEFINE E == [block : g.block, loop : latches, local : BOOLEAN, direct : BOOLEAN,
                 store : BOOLEAN, data : BOOLEAN, phis : SUBSET prog.phi]
<1>2. prog.access \in Seq(E)
  BY <1>1 DEF WellFormedProgram, latches
<1>3. accesses = 1..Len(prog.access) /\ Len(prog.access) \in Nat
  BY <1>2, LenProperties DEF accesses
<1>4. \A k \in accesses : prog.access[k] \in E
  BY <1>2, <1>3, ElementOfSeq
<1> QED
  BY <1>1, <1>3, <1>4 DEF WellFormed, latches

\* The comparisons and accesses that getAllUsers of an index finds are the same
\* at any time, for the same guards: those of the program as it is written.
LEMMA IndexFinds ==
  ASSUME Compiling, NEW l \in latches, NEW by
  PROVE  /\ \A x : Cmp(x) \in UsersVectorOf(Index(l)) <=> Cmp(x) \in Depends(Index(l), by)
         /\ \A x : Access(x) \in UsersVectorOf(Index(l)) <=> Access(x) \in Depends(Index(l), guards)
<1> DEFINE br == [b \in g.block |-> OriginalBranch(g, b)]
<1>1. ASSUME NEW x, NEW by2, x[1] # "br", x[1] = "access" => by2 = guards
      PROVE  x \in AllUsers(Index(l), code, bounds, guards)
               <=> x \in AllUsers(Index(l), br, conditionals, by2)
  <2> HIDE DEF br
  <2>1. x \in AllUsers(Index(l), code, bounds, guards) => x \in AllUsers(Index(l), br, conditionals, by2)
    BY <1>1, IndexLeadsTo
  <2>2. x \in AllUsers(Index(l), br, conditionals, by2) => x \in AllUsers(Index(l), code, bounds, guards)
    BY <1>1, IndexLeadsTo
  <2> QED
    BY <2>1, <2>2
<1>2. \A x : Cmp(x)[1] = "cmp" /\ Access(x)[1] = "access"
  BY Kinds
<1> HIDE DEF br
<1>3. ASSUME NEW x
      PROVE  /\ Cmp(x) \in AllUsers(Index(l), code, bounds, guards)
                  <=> Cmp(x) \in AllUsers(Index(l), br, conditionals, by)
             /\ Access(x) \in AllUsers(Index(l), code, bounds, guards)
                  <=> Access(x) \in AllUsers(Index(l), br, conditionals, guards)
  <2>1. PICK c : c = Cmp(x)
    OBVIOUS
  <2>2. PICK a : a = Access(x)
    OBVIOUS
  <2>3. c[1] = "cmp" /\ a[1] = "access"
    BY <1>2, <2>1, <2>2
  <2>4. c \in AllUsers(Index(l), code, bounds, guards) <=> c \in AllUsers(Index(l), br, conditionals, by)
    BY <1>1, <2>3
  <2>5. a \in AllUsers(Index(l), code, bounds, guards) <=> a \in AllUsers(Index(l), br, conditionals, guards)
    BY <1>1, <2>3
  <2> QED
    BY <2>1, <2>2, <2>4, <2>5
<1> QED
  BY <1>3 DEF UsersVectorOf, Depends, br

\* The loops are listed once each.
LEMMA LoopsAre ==
  ASSUME Compiling, allLoopsVector \in AllLoops(g)
  PROVE  /\ Len(allLoopsVector) \in Nat /\ DOMAIN allLoopsVector = 1..Len(allLoopsVector)
         /\ \A i \in 1..Len(allLoopsVector) : allLoopsVector[i] \in latches
         /\ \A i, j \in 1..Len(allLoopsVector) : allLoopsVector[i] = allLoopsVector[j] => i = j
         /\ \A m \in latches : \E i \in 1..Len(allLoopsVector) : allLoopsVector[i] = m
<1> DEFINE n == Cardinality(latches)
<1>1. IsFiniteSet(latches) /\ n \in Nat
  BY ProgramIs, FS_CardinalityType
<1>2. /\ allLoopsVector \in [1..n -> latches]
      /\ \A i, j \in 1..n : i < j => allLoopsVector[i] # allLoopsVector[j]
  BY DEF AllLoops, latches
<1>3. Len(allLoopsVector) = n
  BY <1>1, <1>2
<1> HIDE DEF n
<1>4. \A i, j \in 1..n : allLoopsVector[i] = allLoopsVector[j] => i = j
  BY <1>1, <1>2
<1>5. ASSUME NEW m \in latches, \A i \in 1..n : allLoopsVector[i] # m PROVE FALSE
  <2>1. allLoopsVector \in Injection(1..n, latches \ {m})
    <3>1. allLoopsVector \in [1..n -> latches \ {m}]
      BY <1>2, <1>5
    <3> QED
      BY <1>4, <3>1 DEF Injection, IsInjective
  <2>2. IsFiniteSet(latches \ {m}) /\ Cardinality(latches \ {m}) = n - 1
    BY <1>1, FS_RemoveElement DEF n
  <2>3. IsFiniteSet(1..n) /\ Cardinality(1..n) = n
    BY <1>1, FS_Interval
  <2>4. n <= n - 1
    BY <2>1, <2>2, <2>3, FS_Injection
  <2> QED
    BY <1>1, <2>4
<1> QED
  BY <1>1, <1>2, <1>3, <1>4, <1>5

\* What is guarded is what is listed and can be.
LEMMA GuardedIs ==
  /\ \A m, l, by : GuardedFor(m, l, by) = {k \in Listed(m, l, by) : Guardable(m, k)}
  /\ \A m, l, by : Listed(m, l, by) \subseteq accesses
  /\ \A i, l : GuardedAt(i, l) = {k \in ListedAt(i, l) : Guardable(allLoopsVector[i], k)}
  /\ \A i, l : ListedAt(i, l) \subseteq accesses
  /\ \A i, l : StoresAt(i, l) = {k \in ListedAt(i, l) : prog.access[k].store}
<1>1. \A m, l, by : GuardedFor(m, l, by) = {k \in Listed(m, l, by) : Guardable(m, k)}
  BY DEF GuardedFor, Listed
<1>2. \A m, l, by : Listed(m, l, by) \subseteq accesses
  BY DEF Listed
<1>3. \A m, k : prog.access[k].store => Guardable(m, k)
  BY DEF Guardable
<1> QED
  BY <1>1, <1>2, <1>3 DEF GuardedAt, ListedAt, StoresAt

\* A latch that is padded in a loop's turn has a first access that pads it,
\* whose index decides what is listed.
LEMMA FirstIs ==
  ASSUME Compiling, NEW m, NEW l \in Pads(m)
  PROVE  \E k \in accesses :
           /\ l \in PadsBy(m, k)
           /\ \A j \in accesses : l \in PadsBy(m, j) => k <= j
           /\ \A by, s : s \in Listed(m, l, by) <=>
                s \in accesses /\ Access(s) \in Depends(Index(prog.access[k].loop), by)
<1> DEFINE T == {k \in accesses : l \in PadsBy(m, k)}
<1>1. T \in SUBSET Nat /\ T # {}
  BY AccessesAre DEF Pads
<1> HIDE DEF T
<1>2. \E k \in T : \A j \in T : k <= j
  BY <1>1, LeastNat
<1>3. PICK k : k = Min(T)
  OBVIOUS
<1>4. k \in T /\ \A j \in T : k <= j
  BY <1>2, <1>3 DEF Min
<1>5. k \in accesses /\ l \in PadsBy(m, k)
      /\ \A j \in accesses : l \in PadsBy(m, j) => k <= j
  BY <1>4 DEF T
<1>6. \A by, s : s \in Listed(m, l, by) <=>
        s \in accesses /\ Access(s) \in Depends(Index(prog.access[k].loop), by)
  BY <1>3 DEF Listed, T
<1> QED
  BY <1>5, <1>6

\* An access with an index that starts from a secret pads the latch that compares
\* the index, and no other: no other index starts from it.
LEMMA StartPads ==
  ASSUME Compiling, IInv, Supported(g), NEW m \in latches, m \in prog.first, NEW k \in accesses,
         prog.access[k].local, prog.access[k].block \in Body(m), prog.access[k].loop = m
  PROVE  PadsBy(m, k) = {m}
<1>1. Fit(g, End) /\ m \in g.block /\ m \in conditionals
  BY SupportedIs, AccessesAre DEF IInv, Supported, Rotated, latches, conditionals
<1>2. m \in Body(m)
  BY <1>1, LoopIs DEF Body, latches
<1> DEFINE br == [b \in g.block |-> OriginalBranch(g, b)]
           A == AllUsers(Index(m), br, conditionals, Unguarded)
           T == {y \in AllValues : y = Index(m) \/ y = Cmp(m) \/ y[1] \in {"br", "gep", "access"}}
<1>3. Index(m) \in AllValues /\ Cmp(m) \in AllValues
  BY <1>1, ValueCases
<1> HIDE DEF br
<1>4. /\ Index(m) \in A /\ UsersStay(A, br, conditionals, Unguarded)
      /\ \A S \in SUBSET AllValues :
           Index(m) \in S /\ UsersStay(S, br, conditionals, Unguarded) => A \subseteq S
  BY <1>3, AllUsersIs
<1>5. Cmp(m) \in UsersOf(Index(m), br, conditionals, Unguarded)
  BY <1>1, UsersByKind
<1> HIDE DEF A
<1>6. Cmp(m) \in A
  BY <1>4, <1>5 DEF UsersStay
<1>7. \A y : y \in T <=> y \in AllValues /\ (y = Index(m) \/ y = Cmp(m) \/ y[1] \in {"br", "gep", "access"})
  OBVIOUS
<1> HIDE DEF T
<1>8. ASSUME NEW y \in T, NEW u \in UsersOf(y, br, conditionals, Unguarded) PROVE u \in T
  <2>1. u \in AllValues /\ y \in AllValues
    BY <1>7, UsersAreValues
  <2>2. CASE y = Index(m)
    <3>1. u \in UsersOf(Index(m), br, conditionals, Unguarded)
      BY <2>2
    <3>2. ~(\E e \in prog.starts : e[1] = m)
      BY ProgramIs
    <3>3. \/ u = Cmp(m) \/ \E j \in accesses : u = Gep(j) \/ u = Access(j)
      BY <3>1, <3>2, UsersByKind
    <3> QED
      BY <1>7, <2>1, <3>3, Kinds
  <2>3. CASE y = Cmp(m)
    <3>1. u \in UsersOf(Cmp(m), br, conditionals, Unguarded)
      BY <2>3
    <3>2. \E c \in g.block : u = Br(c)
      BY <3>1, UsersByKind
    <3> QED
      BY <1>7, <2>1, <3>2, Kinds
  <2>4. ASSUME NEW j, y = Gep(j) PROVE u \in T
    <3>1. u \in UsersOf(Gep(j), br, conditionals, Unguarded)
      BY <2>4
    <3>2. u = Access(j)
      BY <3>1, UsersByKind
    <3> QED
      BY <1>7, <2>1, <3>2, Kinds
  <2>5. ASSUME NEW c, y = Br(c) \/ y = Access(c) PROVE FALSE
    <3>1. \/ u \in UsersOf(Br(c), br, conditionals, Unguarded)
          \/ u \in UsersOf(Access(c), br, conditionals, Unguarded)
      BY <2>5
    <3> QED
      BY <3>1, UsersByKind
  <2>6. \/ y = Argument \/ \E j \in latches : y = Index(j)
        \/ \E b \in conditionals : y = Bound(b) \/ y = Cmp(b)
        \/ \E b \in g.block : y = Br(b)
        \/ \E j \in accesses : y = Gep(j) \/ y = Access(j)
    BY <2>1, ValueCases, Zenon
  <2>7. y = Index(m) \/ y = Cmp(m) \/ (\E c : y = Br(c) \/ y = Gep(c) \/ y = Access(c))
    BY <1>7, <2>6, Kinds
  <2> QED
    BY <2>2, <2>3, <2>4, <2>5, <2>7
<1>9. A \subseteq T
  <2>1. UsersStay(T, br, conditionals, Unguarded)
    BY <1>8 DEF UsersStay
  <2>2. T \in SUBSET AllValues /\ Index(m) \in T
    BY <1>3, <1>7
  <2> QED
    BY <1>4, <2>1, <2>2
<1>10. \A l : Cmp(l) \in A <=> l = m
  BY <1>6, <1>7, <1>9, Kinds
<1>11. Depends(Index(m), Unguarded) = A
  BY DEF Depends, A, br
<1> QED
  BY <1>1, <1>2, <1>10, <1>11 DEF PadsBy

\* The guards before the first turn, and what each turn adds to them.
GuardedMore(i, by) ==
  [k \in accesses |->
     by[k] \cup {l \in Pads(allLoopsVector[i]) : k \in GuardedFor(allLoopsVector[i], l, by)}]

GuardsRecur ==
  /\ GuardsBefore[1] = Unguarded
  /\ \A i \in 1..Len(allLoopsVector) : GuardsBefore[i + 1] = GuardedMore(i, GuardsBefore[i])

LEMMA GuardsAre == Listing => GuardsRecur
<1> SUFFICES ASSUME Listing PROVE GuardsRecur
  OBVIOUS
<1> DEFINE n == Len(allLoopsVector)
           V == [accesses -> SUBSET latches]
           G == [p \in Nat \X V |-> GuardedMore(p[1], p[2])]
<1>1. n \in Nat
  BY LoopsAre DEF Listing
<1>2. Unguarded \in V
  BY DEF Unguarded
<1>3. \A m : Pads(m) \subseteq latches
  BY DEF Pads, PadsBy
<1>4. \A i : \A by \in V : GuardedMore(i, by) \in V
  BY <1>3 DEF GuardedMore
<1>5. G \in [Nat \X V -> V]
  <2> HIDE DEF V
  <2> QED
    BY <1>4
<1>6. PICK h : Recursion(h, V, Unguarded, G)
  <2> HIDE DEF V, G
  <2> QED
    BY <1>2, <1>5, RecursiveFunction
<1>7. /\ h \in [Nat -> V] /\ h[0] = Unguarded
      /\ \A i \in Nat \ {0} : h[i] = GuardedMore(i, h[i - 1])
  <2>1. h \in [Nat -> V] /\ h[0] = Unguarded /\ \A i \in Nat \ {0} : h[i] = G[<<i, h[i - 1]>>]
    BY <1>6 DEF Recursion
  <2> HIDE DEF V
  <2>2. \A i \in Nat : \A by \in V : G[<<i, by>>] = GuardedMore(i, by)
    OBVIOUS
  <2> HIDE DEF G
  <2>3. ASSUME NEW i \in Nat \ {0} PROVE h[i] = GuardedMore(i, h[i - 1])
    <3>1. i - 1 \in Nat
      OBVIOUS
    <3>2. h[i - 1] \in V
      BY <2>1, <3>1
    <3> QED
      BY <2>1, <2>2, <3>2
  <2> QED
    BY <2>1, <2>3
<1> HIDE DEF V, G
<1> DEFINE f == [i \in 1..(n + 1) |-> h[i - 1]]
           body(a) == [i \in 1..(n + 1) |-> IF i = 1 THEN Unguarded ELSE GuardedMore(i - 1, a[i - 1])]
<1>8. f = body(f)
  <2>1. ASSUME NEW i \in 1..(n + 1), i # 1 PROVE h[i - 1] = GuardedMore(i - 1, f[i - 1])
    <3>1. i - 1 \in Nat \ {0} /\ i - 1 \in 1..(n + 1)
      BY <1>1, <2>1
    <3>2. f[i - 1] = h[(i - 1) - 1]
      BY <3>1
    <3> HIDE DEF f
    <3> QED
      BY <1>7, <3>1, <3>2
  <2>2. ASSUME NEW i \in 1..(n + 1) PROVE f[i] = body(f)[i]
    <3>1. CASE i = 1
      BY <1>7, <3>1
    <3>2. CASE i # 1
      <4>1. f[i] = h[i - 1] /\ body(f)[i] = GuardedMore(i - 1, f[i - 1])
        BY <3>2
      <4> HIDE DEF f, body
      <4> QED
        BY <2>1, <3>2, <4>1
    <3> QED
      BY <3>1, <3>2
  <2>3. f = [i \in 1..(n + 1) |-> f[i]] /\ body(f) = [i \in 1..(n + 1) |-> body(f)[i]]
    OBVIOUS
  <2> HIDE DEF f, body
  <2> QED
    BY <2>2, <2>3
<1>9. GuardsBefore = body(GuardsBefore)
  <2>1. GuardsBefore = CHOOSE a : a = body(a)
    BY DEF GuardsBefore, GuardedMore
  <2> HIDE DEF f, body
  <2> QED
    BY <1>8, <2>1
<1>10. GuardsBefore[1] = Unguarded
  <2>1. 1 \in 1..(n + 1)
    BY <1>1
  <2>2. body(GuardsBefore)[1] = Unguarded
    BY <2>1
  <2> HIDE DEF body
  <2> QED
    BY <1>9, <2>2
<1>11. ASSUME NEW i \in 1..n PROVE GuardsBefore[i + 1] = GuardedMore(i, GuardsBefore[i])
  <2>1. i + 1 \in 1..(n + 1) /\ i + 1 # 1 /\ (i + 1) - 1 = i
    BY <1>1
  <2>2. body(GuardsBefore)[i + 1] = GuardedMore(i, GuardsBefore[i])
    BY <2>1
  <2> HIDE DEF body
  <2> QED
    BY <1>9, <2>2
<1> QED
  BY <1>10, <1>11 DEF GuardsRecur


-----------------------------------------------------------------------------
(* The turns' definitions depend on the function and the program only,      *)
(* which stay what they are.                                                *)

Same == UNCHANGED <<g, prog, allLoopsVector>>

\* What is pushed for a value is the least set AllUsersIs speaks of.
UsersLeast ==
  \A br, own, by : \A v \in AllValues :
    /\ v \in AllUsers(v, br, own, by) /\ AllUsers(v, br, own, by) \subseteq AllValues
    /\ UsersStay(AllUsers(v, br, own, by), br, own, by)
    /\ \A T \in SUBSET AllValues :
         v \in T /\ UsersStay(T, br, own, by) => AllUsers(v, br, own, by) \subseteq T

\* AllUsersIs for every value at once.
LEMMA AllUsersAlways == Compiling => UsersLeast
BY AllUsersIs DEF UsersLeast

\* The sets a program is described with stay what they are.
LEMMA SetsStay ==
  ASSUME Compiling, Same
  PROVE  /\ latches' = latches /\ conditionals' = conditionals /\ accesses' = accesses
         /\ \A m : Body(m)' = Body(m)
         /\ \A k : prog.access[k]' = prog.access[k]
         /\ AllValues' = AllValues /\ Compiling'
         /\ \A b : OriginalBranch(g, b)' = OriginalBranch(g, b)
         /\ LoopPhis' = LoopPhis
<1>1. g' = g /\ prog' = prog
  BY DEF Same
<1>2. latches' = latches /\ conditionals' = conditionals /\ accesses' = accesses
  BY <1>1 DEF latches, conditionals, accesses
<1>3. AllValues' = AllValues /\ LoopPhis' = LoopPhis
  BY <1>1, <1>2 DEF AllValues, LoopPhis
<1> QED
  BY <1>1, <1>2, <1>3 DEF Body, Compiling

\* What getAllUsers pushes for given branches and guards stays what it is.
LEMMA UsersStaySame ==
  ASSUME Compiling, Same, NEW br, NEW own, NEW by, NEW v \in AllValues
  PROVE  AllUsers(v, br, own, by)' = AllUsers(v, br, own, by)
<1> DEFINE A == AllUsers(v, br, own, by)
<1>1. g' = g /\ prog' = prog /\ AllValues' = AllValues /\ Compiling' /\ accesses' = accesses
  BY SetsStay DEF Same
<1>2. \A x : UsersOf(x, br, own, by)' = UsersOf(x, br, own, by)
  BY <1>1 DEF UsersOf
<1>3. \A T : UsersStay(T, br, own, by)' <=> UsersStay(T, br, own, by)
  BY <1>2 DEF UsersStay
<1>4. /\ v \in A /\ A \subseteq AllValues /\ UsersStay(A, br, own, by)
      /\ \A T \in SUBSET AllValues : v \in T /\ UsersStay(T, br, own, by) => A \subseteq T
  BY AllUsersAlways DEF UsersLeast
<1>5. UsersLeast'
  <2>1. (Compiling => UsersLeast)'
    BY AllUsersAlways, PTL
  <2> QED
    BY <1>1, <2>1
<1>6. PICK B : B = A'
  OBVIOUS
<1>7. /\ v \in B /\ B \subseteq AllValues /\ UsersStay(B, br, own, by)
      /\ \A T \in SUBSET AllValues : v \in T /\ UsersStay(T, br, own, by) => B \subseteq T
  <2>1. /\ v \in B /\ B \subseteq AllValues' /\ UsersStay(B, br, own, by)'
        /\ \A T \in SUBSET AllValues' : v \in T /\ UsersStay(T, br, own, by)' => B \subseteq T
    BY <1>1, <1>5, <1>6 DEF UsersLeast
  <2> QED
    BY <1>1, <1>3, <2>1
<1> HIDE DEF A
<1>8. A \subseteq B /\ B \subseteq A
  BY <1>4, <1>7
<1> QED
  BY <1>6, <1>8 DEF A

\* What the index of a latch leads to in the original function, for given
\* guards, stays what it is.
LEMMA DependsStay ==
  ASSUME Compiling, Same, NEW l \in latches, NEW by
  PROVE  Depends(Index(l), by)' = Depends(Index(l), by)
<1>1. \A br, own : \A v \in AllValues : AllUsers(v, br, own, by)' = AllUsers(v, br, own, by)
  BY UsersStaySame
<1>2. Index(l) \in AllValues
  BY ValueCases
<1>3. PICK v : v = Index(l)
  OBVIOUS
<1>4. PICK br : br = [b \in g.block |-> OriginalBranch(g, b)]
  OBVIOUS
<1>5. PICK own : own = conditionals
  OBVIOUS
<1>6. g' = g /\ conditionals' = own
  BY <1>5, SetsStay DEF Same
<1>7. br = [b \in g.block |-> OriginalBranch(g, b)]'
  BY <1>4, <1>6
<1>8. AllUsers(v, br, own, by)' = AllUsers(v, br, own, by)
  BY <1>1, <1>2, <1>3
<1>9. Depends(v, by) = AllUsers(v, br, own, by)
  BY <1>4, <1>5 DEF Depends
<1>10. Depends(v, by)' = AllUsers(v, br, own, by)'
  BY <1>6, <1>7 DEF Depends
<1>11. Depends(v, by)' = Depends(v, by)
  BY <1>8, <1>9, <1>10
<1>12. Index(l)' = Index(l)
  BY DEF Index
<1> QED
  BY <1>3, <1>11, <1>12

\* What a loop pads, and guards when given guards are there, stays what it is.
LEMMA PadsStay ==
  ASSUME Compiling, Same
  PROVE  /\ \A m : \A k \in accesses : PadsBy(m, k)' = PadsBy(m, k)
         /\ \A m : Pads(m)' = Pads(m)
         /\ \A m : \A l \in Pads(m) : \A by :
              Listed(m, l, by)' = Listed(m, l, by) /\ GuardedFor(m, l, by)' = GuardedFor(m, l, by)
<1> DEFINE K == accesses
<1>0. /\ g' = g /\ prog' = prog /\ latches' = latches /\ K' = K /\ LoopPhis' = LoopPhis
      /\ \A m : Body(m)' = Body(m)
  BY SetsStay DEF Same
<1>1. ASSUME NEW k \in K, NEW by
      PROVE  Depends(Index(prog.access[k].loop), by)' = Depends(Index(prog.access[k].loop), by)
  <2>1. PICK l : l = prog.access[k].loop
    OBVIOUS
  <2>2. l \in latches
    BY <2>1, AccessesAre
  <2>3. PICK v : v = Index(l)
    OBVIOUS
  <2>4. Depends(v, by)' = Depends(v, by)
    BY <2>2, <2>3, DependsStay
  <2>5. v = Index(prog.access[k].loop) /\ v = Index(prog.access[k].loop)'
    BY <1>0, <2>1, <2>3 DEF Index
  <2> QED
    BY <2>4, <2>5
<1>2. ASSUME NEW k \in K, NEW m PROVE PadsBy(m, k)' = PadsBy(m, k)
  <2>1. PICK by : by = Unguarded
    OBVIOUS
  <2>2. Unguarded' = by
    BY <1>0, <2>1 DEF Unguarded
  <2>3. Depends(Index(prog.access[k].loop), by)' = Depends(Index(prog.access[k].loop), by)
    BY <1>1
  <2>4. Depends(Index(prog.access[k].loop), Unguarded)' = Depends(Index(prog.access[k].loop), Unguarded)
    BY <2>1, <2>2, <2>3
  <2> QED
    BY <1>0, <2>4 DEF PadsBy, Cmp
<1>3. ASSUME NEW m PROVE Pads(m)' = Pads(m)
  BY <1>0, <1>2 DEF Pads
<1>4. ASSUME NEW m, NEW l \in Pads(m), NEW by PROVE Listed(m, l, by)' = Listed(m, l, by)
  <2>1. PICK T : T = {k \in K : l \in PadsBy(m, k)}
    OBVIOUS
  <2>2. T = {k \in K : l \in PadsBy(m, k)}'
    BY <1>0, <1>2, <2>1
  <2>3. PICK k : k = Min(T)
    OBVIOUS
  <2>4. k \in K
    <3>1. T \in SUBSET Nat /\ T # {}
      BY <2>1, AccessesAre DEF Pads
    <3>2. \E i \in T : \A j \in T : i <= j
      BY <3>1, LeastNat
    <3>3. k \in T
      BY <2>3, <3>2 DEF Min
    <3> QED
      BY <2>1, <3>3
  <2>5. Listed(m, l, by) = {s \in K : Access(s) \in Depends(Index(prog.access[k].loop), by)}
    BY <2>1, <2>3 DEF Listed
  <2>6. Listed(m, l, by)' = {s \in K' : Access(s)' \in Depends(Index(prog.access[k].loop), by)'}
    <3>1. k = Min({i \in accesses : l \in PadsBy(m, i)})'
      BY <2>2, <2>3 DEF Min
    <3> QED
      BY <3>1 DEF Listed
  <2>7. \A s : Access(s)' = Access(s)
    BY DEF Access
  <2>8. Depends(Index(prog.access[k].loop), by)' = Depends(Index(prog.access[k].loop), by)
    BY <1>1, <2>4
  <2> QED
    BY <1>0, <2>5, <2>6, <2>7, <2>8
<1>5. ASSUME NEW m, NEW k PROVE Guardable(m, k)' <=> Guardable(m, k)
  BY <1>0 DEF Guardable
<1>6. ASSUME NEW m, NEW l \in Pads(m), NEW by PROVE GuardedFor(m, l, by)' = GuardedFor(m, l, by)
  <2>1. GuardedFor(m, l, by) = {k \in Listed(m, l, by) : Guardable(m, k)}
    BY GuardedIs
  <2>2. GuardedFor(m, l, by)' = {k \in Listed(m, l, by)' : Guardable(m, k)'}
    BY DEF GuardedFor, Listed
  <2> QED
    BY <1>4, <1>5, <2>1, <2>2
<1> QED
  BY <1>2, <1>3, <1>4, <1>6

\* The guards after each of the turns stay what they are.
LEMMA GuardsStay ==
  ASSUME Listing, Same, NEW i \in 1..(Len(allLoopsVector) + 1)
  PROVE  GuardsBefore'[i] = GuardsBefore[i]
<1>0. /\ g' = g /\ prog' = prog /\ allLoopsVector' = allLoopsVector /\ latches' = latches
      /\ accesses' = accesses /\ Compiling' /\ Len(allLoopsVector) \in Nat
  BY SetsStay, LoopsAre DEF Same, Listing
<1>1. GuardsRecur /\ GuardsRecur'
  <2>1. Listing'
    BY <1>0 DEF Listing
  <2>2. (Listing => GuardsRecur)'
    BY GuardsAre, PTL
  <2> QED
    BY <2>1, <2>2, GuardsAre
<1>2. PICK f : f = GuardsBefore
  OBVIOUS
<1>3. PICK h : h = GuardsBefore'
  OBVIOUS
<1>4. h[1] = f[1]
  BY <1>0, <1>1, <1>2, <1>3 DEF GuardsRecur, Unguarded
<1>5. ASSUME NEW j \in 1..Len(allLoopsVector), h[j] = f[j] PROVE h[j + 1] = f[j + 1]
  <2>1. PICK by : by = f[j]
    OBVIOUS
  <2>2. PICK m : m = allLoopsVector[j]
    OBVIOUS
  <2>3. f[j + 1] = [k \in accesses |-> by[k] \cup {l \in Pads(m) : k \in GuardedFor(m, l, by)}]
    BY <1>1, <1>2, <2>1, <2>2 DEF GuardsRecur, GuardedMore
  <2>4. h[j + 1] = [k \in accesses' |-> by[k] \cup {l \in Pads(m)' : k \in GuardedFor(m, l, by)'}]
    <3>1. allLoopsVector'[j] = m /\ GuardsBefore'[j] = by /\ j \in 1..Len(allLoopsVector')
      BY <1>0, <1>3, <1>5, <2>1, <2>2
    <3>2. GuardsBefore'[j + 1] = GuardedMore(j, GuardsBefore[j])'
      BY <1>1, <3>1 DEF GuardsRecur
    <3>3. GuardedMore(j, GuardsBefore[j])' = GuardedMore(j, by)'
      BY <3>1
    <3>4. GuardedMore(j, by)'
            = [k \in accesses' |-> by[k] \cup {l \in Pads(m)' : k \in GuardedFor(m, l, by)'}]
      BY <3>1 DEF GuardedMore
    <3> QED
      BY <1>3, <3>2, <3>3, <3>4
  <2>5. Pads(m)' = Pads(m) /\ \A l \in Pads(m) : GuardedFor(m, l, by)' = GuardedFor(m, l, by)
    BY PadsStay DEF Listing
  <2> QED
    BY <1>0, <2>3, <2>4, <2>5
<1> DEFINE S == {j \in Nat : j + 1 \in 1..(Len(allLoopsVector) + 1) => h[j + 1] = f[j + 1]}
<1>6. 0 \in S
  BY <1>4
<1>7. ASSUME NEW j \in S PROVE j + 1 \in S
  <2>1. ASSUME (j + 1) + 1 \in 1..(Len(allLoopsVector) + 1)
        PROVE  j + 1 \in 1..Len(allLoopsVector) /\ j + 1 \in 1..(Len(allLoopsVector) + 1)
    BY <1>0, <2>1
  <2>2. ASSUME (j + 1) + 1 \in 1..(Len(allLoopsVector) + 1) PROVE h[(j + 1) + 1] = f[(j + 1) + 1]
    BY <1>5, <2>1, <2>2
  <2> QED
    BY <2>2
<1>8. S = Nat
  <2> HIDE DEF S
  <2>1. S \subseteq Nat
    BY DEF S
  <2> QED
    BY <1>6, <1>7, <2>1, NatInd
<1>9. i - 1 \in Nat /\ (i - 1) + 1 = i
  BY <1>0
<1> QED
  BY <1>2, <1>3, <1>8, <1>9

\* What a turn lists, guards and replaces stays what it is, and what its guards
\* are built from.
LEMMA AtStay ==
  ASSUME Listing, Same, NEW i \in 1..Len(allLoopsVector)
  PROVE  /\ Pads(allLoopsVector[i])' = Pads(allLoopsVector[i])
         /\ \A l \in Pads(allLoopsVector[i]) :
              /\ ListedAt(i, l)' = ListedAt(i, l) /\ GuardedAt(i, l)' = GuardedAt(i, l)
              /\ StoresAt(i, l)' = StoresAt(i, l)
              /\ GuardFound(i, l)' <=> GuardFound(i, l)
         /\ \A S \in SUBSET Pads(allLoopsVector[i]) : Harmless(i, S)' <=> Harmless(i, S)
         /\ Starts(i)' = Starts(i)
<1>0. /\ prog' = prog /\ allLoopsVector' = allLoopsVector /\ latches' = latches
      /\ accesses' = accesses /\ Len(allLoopsVector) \in Nat /\ \A m : Body(m)' = Body(m)
  BY SetsStay, LoopsAre DEF Same, Listing
<1>1. PICK m : m = allLoopsVector[i]
  OBVIOUS
<1>2. PICK by : by = GuardsBefore[i]
  OBVIOUS
<1>3. GuardsBefore[i]' = by
  <2>1. i \in 1..(Len(allLoopsVector) + 1)
    BY <1>0
  <2>2. GuardsBefore'[i] = GuardsBefore[i]
    BY <2>1, GuardsStay
  <2> QED
    BY <1>2, <2>2
<1>4. allLoopsVector[i]' = m
  BY <1>0, <1>1
<1>5. /\ \A n : Pads(n)' = Pads(n)
      /\ \A l \in Pads(m) : Listed(m, l, by)' = Listed(m, l, by) /\ GuardedFor(m, l, by)' = GuardedFor(m, l, by)
  BY PadsStay DEF Listing
<1>6. Pads(allLoopsVector[i])' = Pads(m)
  BY <1>4, <1>5
<1>7. ASSUME NEW l \in Pads(m)
      PROVE  ListedAt(i, l)' = ListedAt(i, l) /\ GuardedAt(i, l)' = GuardedAt(i, l)
  <2>1. ListedAt(i, l) = Listed(m, l, by) /\ GuardedAt(i, l) = GuardedFor(m, l, by)
    BY <1>1, <1>2 DEF ListedAt, GuardedAt
  <2>2. /\ ListedAt(i, l)' = Listed(allLoopsVector[i], l, GuardsBefore[i])'
        /\ GuardedAt(i, l)' = GuardedFor(allLoopsVector[i], l, GuardsBefore[i])'
    BY DEF ListedAt, GuardedAt
  <2>3. /\ Listed(allLoopsVector[i], l, GuardsBefore[i])' = Listed(m, l, by)'
        /\ GuardedFor(allLoopsVector[i], l, GuardsBefore[i])' = GuardedFor(m, l, by)'
    BY <1>3, <1>4
  <2> QED
    BY <1>5, <2>1, <2>2, <2>3
<1>8. ASSUME NEW l \in Pads(m) PROVE StoresAt(i, l)' = StoresAt(i, l)
  BY <1>0, <1>7 DEF StoresAt
<1>9. ASSUME NEW l PROVE StartFound(l)' <=> StartFound(l)
  BY <1>0 DEF StartFound
<1>10. ASSUME NEW l PROVE GuardFound(i, l)' <=> GuardFound(i, l)
  <2>1. \A j : Pads(allLoopsVector[j])' = Pads(allLoopsVector[j])
    <3> TAKE j
    <3>1. PICK n : n = allLoopsVector[j]
      OBVIOUS
    <3>2. allLoopsVector[j]' = n
      BY <1>0, <3>1
    <3>3. Pads(allLoopsVector[j])' = Pads(n)'
      BY <3>2
    <3> QED
      BY <1>5, <3>1, <3>3
  <2> QED
    BY <1>0, <1>9, <2>1 DEF GuardFound
<1>11. ASSUME NEW S \in SUBSET Pads(m) PROVE Harmless(i, S)' <=> Harmless(i, S)
  BY <1>0, <1>7, <1>8, <1>10, <1>11 DEF Harmless
<1>12. Starts(i)' = Starts(i)
  BY <1>0, <1>9 DEF Starts
<1> QED
  BY <1>1, <1>6, <1>7, <1>8, <1>10, <1>11, <1>12

\* What the earlier turns have done, as a function of the program, stays what it is.
LEMMA TurnsStay ==
  ASSUME Listing, Same, NEW i \in Nat, i <= Len(allLoopsVector) + 1
  PROVE  /\ Earlier(i)' = Earlier(i)
         /\ \A k : GuardedBefore(i, k)' = GuardedBefore(i, k)
         /\ \A k : ReplacedBefore(i, k)' <=> ReplacedBefore(i, k)
         /\ Clean(i)' <=> Clean(i)
         /\ NoneFound(i)' <=> NoneFound(i)
         /\ StartsBefore(i)' = StartsBefore(i)
<1>0. /\ prog' = prog /\ allLoopsVector' = allLoopsVector /\ latches' = latches
      /\ accesses' = accesses /\ Len(allLoopsVector) \in Nat /\ \A m : Body(m)' = Body(m)
  BY SetsStay, LoopsAre DEF Same, Listing
<1>1. \A j \in 1..(i - 1) : j \in 1..Len(allLoopsVector)
  BY <1>0
<1>2. ASSUME NEW j \in 1..(i - 1)
      PROVE  /\ Pads(allLoopsVector[j])' = Pads(allLoopsVector[j])
             /\ \A l \in Pads(allLoopsVector[j]) :
                  GuardedAt(j, l)' = GuardedAt(j, l) /\ StoresAt(j, l)' = StoresAt(j, l)
             /\ \A S \in SUBSET Pads(allLoopsVector[j]) : Harmless(j, S)' <=> Harmless(j, S)
  BY <1>1, AtStay
<1>3. Earlier(i)' = Earlier(i)
  BY <1>2 DEF Earlier
<1>4. ASSUME NEW k PROVE GuardedBefore(i, k)' = GuardedBefore(i, k)
  BY <1>0, <1>2 DEF GuardedBefore
<1>5. ASSUME NEW k PROVE ReplacedBefore(i, k)' <=> ReplacedBefore(i, k)
  BY <1>2 DEF ReplacedBefore
<1>6. Clean(i)' <=> Clean(i)
  <2>1. ASSUME NEW j \in 1..(i - 1)
        PROVE  Harmless(j, Pads(allLoopsVector[j]))' <=> Harmless(j, Pads(allLoopsVector[j]))
    <3>1. PICK S : S = Pads(allLoopsVector[j])
      OBVIOUS
    <3>2. Pads(allLoopsVector[j])' = S /\ (Harmless(j, S)' <=> Harmless(j, S))
      BY <1>2, <3>1
    <3>3. Harmless(j, Pads(allLoopsVector[j]))' <=> Harmless(j, S)'
      BY <3>2
    <3> QED
      BY <3>1, <3>2, <3>3
  <2> QED
    BY <2>1 DEF Clean
<1>7. NoneFound(i)' <=> NoneFound(i)
  BY <1>0, <1>5 DEF NoneFound, Found
<1>8. StartsBefore(i)' = StartsBefore(i)
  BY <1>0 DEF StartsBefore, StartFound
<1> QED
  BY <1>3, <1>4, <1>5, <1>6, <1>7, <1>8

\* What the i-th turn adds to the turns before it.
LEMMA TurnAdded ==
  ASSUME NEW i \in Nat \ {0}
  PROVE  /\ Earlier(i + 1) = Earlier(i) \cup Pads(allLoopsVector[i])
         /\ \A k : GuardedBefore(i + 1, k) =
              GuardedBefore(i, k) \cup {l \in Pads(allLoopsVector[i]) : k \in GuardedAt(i, l)}
         /\ \A k : ReplacedBefore(i + 1, k) <=>
              ReplacedBefore(i, k) \/ \E l \in Pads(allLoopsVector[i]) : k \in StoresAt(i, l)
         /\ Clean(i + 1) <=> Clean(i) /\ Harmless(i, Pads(allLoopsVector[i]))
         /\ StartsBefore(i + 1) = StartsBefore(i) \cup Starts(i)
<1> DEFINE m == allLoopsVector[i]
<1>1. \A j : j \in 1..((i + 1) - 1) <=> j \in 1..(i - 1) \/ j = i
  OBVIOUS
<1>2. Pads(m) \subseteq latches
  BY DEF Pads, PadsBy
<1>3. Earlier(i + 1) = Earlier(i) \cup Pads(m)
  BY <1>1 DEF Earlier
<1>4. ASSUME NEW k
      PROVE  GuardedBefore(i + 1, k) = GuardedBefore(i, k) \cup {l \in Pads(m) : k \in GuardedAt(i, l)}
  BY <1>1, <1>2 DEF GuardedBefore
<1>5. ASSUME NEW k
      PROVE  ReplacedBefore(i + 1, k) <=> ReplacedBefore(i, k) \/ \E l \in Pads(m) : k \in StoresAt(i, l)
  BY <1>1 DEF ReplacedBefore
<1>6. Clean(i + 1) <=> Clean(i) /\ Harmless(i, Pads(m))
  BY <1>1 DEF Clean
<1>7. StartsBefore(i + 1) = StartsBefore(i) \cup Starts(i)
  BY <1>1 DEF StartsBefore, Starts
<1> QED
  BY <1>3, <1>4, <1>5, <1>6, <1>7

\* Before the first turn.
LEMMA NoTurnYet ==
  /\ Earlier(1) = {} /\ Clean(1) /\ NoneFound(1) /\ NoneFound(0) /\ StartsBefore(1) = {}
  /\ \A k : GuardedBefore(1, k) = {} /\ ~ReplacedBefore(1, k)
<1>1. 1..(1 - 1) = {} /\ 1..(0 - 1) = {}
  OBVIOUS
<1>2. /\ Earlier(1) = {} /\ Clean(1) /\ StartsBefore(1) = {}
      /\ \A k : GuardedBefore(1, k) = {} /\ ~ReplacedBefore(1, k) /\ ~ReplacedBefore(0, k)
  BY <1>1 DEF Earlier, Clean, GuardedBefore, ReplacedBefore, StartsBefore
<1> QED
  BY <1>2 DEF NoneFound

\* The guards of the turns so far are still those of the turn before this one.
LEMMA GuardsAtStay ==
  ASSUME Listing, Same, NEW n \in 1..(Len(allLoopsVector) + 1), at' = n,
         GuardsBefore[n] = [k \in accesses |-> GuardedBefore(n, k)]
  PROVE  GuardsAt'
<1>1. Len(allLoopsVector) \in Nat
  BY LoopsAre DEF Listing
<1>2. GuardsBefore'[n] = GuardsBefore[n]
  BY GuardsStay
<1>3. \A k : GuardedBefore(n, k)' = GuardedBefore(n, k)
  BY <1>1, TurnsStay
<1>4. accesses' = accesses
  BY SetsStay DEF Listing
<1>5. \A k : GuardedBefore(at, k)' = GuardedBefore(n, k)
  <2> TAKE k
  <2>1. GuardedBefore(at, k)' = GuardedBefore(n, k)'
    OBVIOUS
  <2> QED
    BY <1>3, <2>1
<1> QED
  BY <1>2, <1>4, <1>5 DEF GuardsAt

\* A step between the turns that leaves the loops alone.
LEMMA BetweenStay ==
  ASSUME Listing, Same, UNCHANGED <<at, bounds, inits, version, guards>>, BetweenTurns
  PROVE  BetweenTurns'
<1>0. PICK n : n = at
  OBVIOUS
<1>1. Len(allLoopsVector) \in Nat /\ n \in 1..(Len(allLoopsVector) + 1)
  BY <1>0, LoopsAre DEF Listing, BetweenTurns, Applied
<1>2. /\ Earlier(n)' = Earlier(n)
      /\ \A k : GuardedBefore(n, k)' = GuardedBefore(n, k)
      /\ \A k : ReplacedBefore(n, k)' <=> ReplacedBefore(n, k)
      /\ Clean(n)' <=> Clean(n)
      /\ StartsBefore(n)' = StartsBefore(n)
  BY <1>1, TurnsStay
<1>3. /\ conditionals' = conditionals /\ allLoopsVector' = allLoopsVector
      /\ accesses' = accesses /\ prog' = prog
  BY SetsStay DEF Same, Listing
<1>4. GuardsAt'
  BY <1>0, <1>1, GuardsAtStay DEF BetweenTurns, Applied, GuardsAt
<1>5. Applied'
  BY <1>0, <1>1, <1>2, <1>3, <1>4 DEF BetweenTurns, Applied
<1>6. NoneFound(at - 1)'
  <2>1. PICK o : o = n - 1
    OBVIOUS
  <2>2. o \in Nat /\ o <= Len(allLoopsVector) + 1
    BY <1>1, <2>1
  <2>3. NoneFound(o)' <=> NoneFound(o)
    BY <2>2, TurnsStay
  <2>4. NoneFound(o)
    BY <1>0, <2>1 DEF BetweenTurns
  <2>5. NoneFound(at - 1)' <=> NoneFound(o)'
    BY <1>0, <2>1
  <2> QED
    BY <2>3, <2>4, <2>5
<1> QED
  BY <1>0, <1>2, <1>3, <1>5, <1>6 DEF BetweenTurns

\* The end of a turn that has guarded, and replaced, all it should.
LEMMA NextTurn ==
  ASSUME Listing, Same, at \in 1..Len(allLoopsVector), Len(allLoopsVector) \in Nat,
         at' = at + 1, Clean(at), NoneFound(at), GuardsAt, Harmless(at, Pads(loop)),
         bounds' = conditionals \ (prog.secret \cap (Earlier(at) \cup Pads(loop))),
         inits' = (prog.first \ StartsBefore(at)) \ Starts(at),
         guards' = [k \in accesses |->
                     GuardedBefore(at, k) \cup {l \in Pads(loop) : k \in GuardedAt(at, l)}],
         version' \in [accesses -> Nat],
         \A k \in accesses :
           version'[k] > 0 <=> ReplacedBefore(at, k) \/ \E l \in Pads(loop) : k \in StoresAt(at, l)
  PROVE  BetweenTurns'
<1>1. PICK n : n = at + 1
  OBVIOUS
<1>2. PICK i \in Nat \ {0} : i = at
  OBVIOUS
<1>3. PICK m : m = loop
  OBVIOUS
<1>4. m = allLoopsVector[i] /\ n = i + 1 /\ i \in 1..Len(allLoopsVector)
  BY <1>1, <1>2, <1>3 DEF loop
<1>5. /\ Earlier(n) = Earlier(at) \cup Pads(m)
      /\ \A k : GuardedBefore(n, k) = GuardedBefore(at, k) \cup {l \in Pads(m) : k \in GuardedAt(at, l)}
      /\ \A k : ReplacedBefore(n, k) <=>
                  ReplacedBefore(at, k) \/ \E l \in Pads(m) : k \in StoresAt(at, l)
      /\ Clean(n)
      /\ StartsBefore(n) = StartsBefore(at) \cup Starts(at)
  <2>1. /\ Earlier(i + 1) = Earlier(i) \cup Pads(m)
        /\ \A k : GuardedBefore(i + 1, k) =
              GuardedBefore(i, k) \cup {l \in Pads(m) : k \in GuardedAt(i, l)}
        /\ \A k : ReplacedBefore(i + 1, k) <=>
              ReplacedBefore(i, k) \/ \E l \in Pads(m) : k \in StoresAt(i, l)
        /\ Clean(i + 1) <=> Clean(i) /\ Harmless(i, Pads(m))
        /\ StartsBefore(i + 1) = StartsBefore(i) \cup Starts(i)
    BY <1>4, TurnAdded
  <2> QED
    BY <1>2, <1>3, <1>4, <2>1
<1>6. /\ Earlier(n)' = Earlier(n)
      /\ \A k : GuardedBefore(n, k)' = GuardedBefore(n, k)
      /\ \A k : ReplacedBefore(n, k)' <=> ReplacedBefore(n, k)
      /\ Clean(n)' <=> Clean(n)
      /\ StartsBefore(n)' = StartsBefore(n)
  <2>1. n \in Nat /\ n <= Len(allLoopsVector) + 1
    BY <1>4
  <2> QED
    BY <2>1, TurnsStay
<1>7. /\ conditionals' = conditionals /\ allLoopsVector' = allLoopsVector
      /\ accesses' = accesses /\ prog' = prog
  BY SetsStay DEF Same, Listing
<1>8. at' = n /\ n \in 1..(Len(allLoopsVector) + 1)
  BY <1>1
<1>9. /\ Earlier(at)' = Earlier(n)
      /\ \A k : GuardedBefore(at, k)' = GuardedBefore(n, k)
      /\ \A k : ReplacedBefore(at, k)' <=> ReplacedBefore(n, k)
      /\ Clean(at)'
      /\ StartsBefore(at)' = StartsBefore(n)
  <2>1. /\ Earlier(at)' = Earlier(n)' /\ (Clean(at)' <=> Clean(n)')
        /\ StartsBefore(at)' = StartsBefore(n)'
    BY <1>8
  <2>2. ASSUME NEW k
        PROVE  /\ GuardedBefore(at, k)' = GuardedBefore(n, k)'
               /\ ReplacedBefore(at, k)' <=> ReplacedBefore(n, k)'
    BY <1>8
  <2> QED
    BY <1>5, <1>6, <2>1, <2>2
<1>10. NoneFound(at - 1)'
  <2>1. PICK o : o = n - 1
    OBVIOUS
  <2>2. o = at /\ o \in Nat /\ o <= Len(allLoopsVector) + 1
    BY <1>1, <2>1
  <2>3. NoneFound(o)' <=> NoneFound(o)
    BY <2>2, TurnsStay
  <2>4. NoneFound(at - 1)' <=> NoneFound(o)'
    BY <1>8, <2>1
  <2> QED
    BY <2>2, <2>3, <2>4
<1>11. guards' = [k \in accesses |-> GuardedBefore(n, k)]
  BY <1>3, <1>5
<1>12. GuardsBefore[n] = [k \in accesses |-> GuardedBefore(n, k)]
  <2>1. GuardsRecur
    BY GuardsAre
  <2>2. PICK by : by = GuardsBefore[i]
    OBVIOUS
  <2>3. GuardsBefore[n] = [k \in accesses |-> by[k] \cup {l \in Pads(m) : k \in GuardedFor(m, l, by)}]
    BY <1>4, <2>1, <2>2 DEF GuardsRecur, GuardedMore
  <2>4. by = [k \in accesses |-> GuardedBefore(at, k)]
    BY <1>2, <2>2 DEF GuardsAt
  <2>5. \A l : GuardedFor(m, l, by) = GuardedAt(at, l)
    BY <1>2, <1>4, <2>2 DEF GuardedAt
  <2>6. ASSUME NEW k \in accesses
        PROVE  by[k] \cup {l \in Pads(m) : k \in GuardedFor(m, l, by)} = GuardedBefore(n, k)
    BY <1>5, <2>4, <2>5
  <2> QED
    BY <2>3, <2>6
<1>13. GuardsAt'
  BY <1>8, <1>12, GuardsAtStay
<1>14. guards' = [k \in accesses |-> GuardedBefore(at, k)]'
  BY <1>7, <1>9, <1>11
<1>15. \A k \in accesses' : version'[k] > 0 <=> ReplacedBefore(at, k)'
  BY <1>3, <1>5, <1>7, <1>9
<1>16. bounds' = conditionals' \ (prog'.secret \cap Earlier(at)')
  BY <1>3, <1>5, <1>7, <1>9
<1>17. inits' = prog'.first \ StartsBefore(at)'
  BY <1>5, <1>7, <1>9
<1> QED
  BY <1>7, <1>8, <1>9, <1>10, <1>13, <1>14, <1>15, <1>16, <1>17 DEF BetweenTurns, Applied

\* A step within a turn.
LEMMA TurnStays ==
  ASSUME Listing, Same, at' = at, at \in 1..Len(allLoopsVector)
  PROVE  /\ loop' = loop /\ ArraysLoop' = ArraysLoop /\ Inputs' = Inputs
         /\ latches' = latches /\ conditionals' = conditionals /\ accesses' = accesses
         /\ prog' = prog /\ allLoopsVector' = allLoopsVector
         /\ Pads(loop)' = Pads(loop) /\ Earlier(at)' = Earlier(at)
         /\ StartsBefore(at)' = StartsBefore(at) /\ Starts(at)' = Starts(at)
         /\ Clean(at)' <=> Clean(at)
         /\ NoneFound(at)' <=> NoneFound(at)
         /\ GuardsAt' <=> GuardsAt
         /\ \A k \in accesses : PadsBy(loop, k)' = PadsBy(loop, k)
         /\ \A b \in Pads(loop) :
              /\ ListedAt(at, b)' = ListedAt(at, b) /\ GuardedAt(at, b)' = GuardedAt(at, b)
              /\ StoresAt(at, b)' = StoresAt(at, b)
         /\ \A k : GuardedBefore(at, k)' = GuardedBefore(at, k)
         /\ \A k : ReplacedBefore(at, k)' <=> ReplacedBefore(at, k)
         /\ \A S \in SUBSET Pads(loop) : Harmless(at, S)' <=> Harmless(at, S)
<1>1. PICK n : n = at
  OBVIOUS
<1>2. at' = n /\ n \in 1..Len(allLoopsVector) /\ Len(allLoopsVector) \in Nat
  BY <1>1, LoopsAre DEF Listing
<1>3. PICK m : m = loop
  OBVIOUS
<1>4. /\ latches' = latches /\ conditionals' = conditionals /\ prog' = prog
      /\ allLoopsVector' = allLoopsVector /\ accesses' = accesses /\ \A l : Body(l)' = Body(l)
  BY SetsStay DEF Same, Listing
<1>5. loop' = m /\ m = allLoopsVector[n]
  BY <1>1, <1>2, <1>3, <1>4 DEF loop
<1>6. Body(loop)' = Body(loop)
  BY <1>3, <1>4, <1>5
<1>7. ArraysLoop' = ArraysLoop /\ Inputs' = Inputs
  BY <1>4, <1>6 DEF ArraysLoop, Inputs
<1>8. /\ Pads(m)' = Pads(m)
      /\ \A k \in accesses : PadsBy(m, k)' = PadsBy(m, k)
  BY PadsStay DEF Listing
<1>9. /\ \A b \in Pads(m) :
           /\ ListedAt(n, b)' = ListedAt(n, b) /\ GuardedAt(n, b)' = GuardedAt(n, b)
           /\ StoresAt(n, b)' = StoresAt(n, b)
      /\ \A S \in SUBSET Pads(m) : Harmless(n, S)' <=> Harmless(n, S)
      /\ Starts(n)' = Starts(n)
  BY <1>2, <1>5, AtStay
<1>10. /\ Earlier(n)' = Earlier(n)
       /\ Clean(n)' <=> Clean(n)
       /\ NoneFound(n)' <=> NoneFound(n)
       /\ \A k : GuardedBefore(n, k)' = GuardedBefore(n, k)
       /\ \A k : ReplacedBefore(n, k)' <=> ReplacedBefore(n, k)
       /\ StartsBefore(n)' = StartsBefore(n)
  <2>1. n \in Nat /\ n <= Len(allLoopsVector) + 1
    BY <1>2
  <2> QED
    BY <2>1, TurnsStay
<1>11. /\ Pads(loop)' = Pads(loop)
       /\ \A k \in accesses : PadsBy(loop, k)' = PadsBy(loop, k)
  BY <1>3, <1>5, <1>8
<1>12. ASSUME NEW b \in Pads(loop)
       PROVE  /\ ListedAt(at, b)' = ListedAt(at, b) /\ GuardedAt(at, b)' = GuardedAt(at, b)
              /\ StoresAt(at, b)' = StoresAt(at, b)
  <2>1. /\ ListedAt(at, b)' = ListedAt(n, b)' /\ GuardedAt(at, b)' = GuardedAt(n, b)'
        /\ StoresAt(at, b)' = StoresAt(n, b)'
    BY <1>2
  <2> QED
    BY <1>1, <1>3, <1>9, <2>1
<1>13. ASSUME NEW S \in SUBSET Pads(loop) PROVE Harmless(at, S)' <=> Harmless(at, S)
  <2>1. Harmless(at, S)' <=> Harmless(n, S)'
    BY <1>2
  <2> QED
    BY <1>1, <1>3, <1>9, <1>13, <2>1
<1>14. ASSUME NEW k
       PROVE  /\ GuardedBefore(at, k)' = GuardedBefore(at, k)
              /\ ReplacedBefore(at, k)' <=> ReplacedBefore(at, k)
  <2>1. /\ GuardedBefore(at, k)' = GuardedBefore(n, k)'
        /\ ReplacedBefore(at, k)' <=> ReplacedBefore(n, k)'
    BY <1>2
  <2> QED
    BY <1>1, <1>10, <2>1
<1>15. /\ Earlier(at)' = Earlier(at) /\ Starts(at)' = Starts(at) /\ StartsBefore(at)' = StartsBefore(at)
       /\ Clean(at)' <=> Clean(at)
       /\ NoneFound(at)' <=> NoneFound(at)
  BY <1>1, <1>2, <1>9, <1>10
<1>16. GuardsAt' <=> GuardsAt
  <2>1. n \in 1..(Len(allLoopsVector) + 1)
    BY <1>2
  <2>2. GuardsBefore'[n] = GuardsBefore[n]
    BY <2>1, GuardsStay
  <2> QED
    BY <1>1, <1>2, <1>4, <1>14, <2>2 DEF GuardsAt
<1> QED
  BY <1>3, <1>4, <1>5, <1>7, <1>11, <1>12, <1>13, <1>14, <1>15, <1>16

-----------------------------------------------------------------------------
(* The steps of a turn.                                                     *)

\* What holds during all the turns.
Ready ==
  /\ Listing /\ IInv /\ LInv /\ Plain /\ SearchInv /\ Supported(g)
  /\ pc = "replaced" /\ SearchOf(conditionals) /\ Searched
  /\ replaced = prog.phi \ LoopPhis

\* What can be guarded is what is selected.
LEMMA SelectsIs ==
  ASSUME Ready, NEW k \in accesses
  PROVE  Selects(k) <=> Guardable(loop, k)
<1>1. prog.access[k].phis \subseteq prog.phi
  BY AccessesAre DEF Ready, Listing
<1>2. prog.access[k].phis \ replaced = prog.access[k].phis \cap LoopPhis
  BY <1>1 DEF Ready, LoopPhis
<1> QED
  BY <1>2 DEF Selects, Guardable

\* A loop without secret latches, or without local arrays, pads nothing and
\* keeps its first index.
LEMMA NothingToPad ==
  ASSUME Ready, at \in 1..Len(allLoopsVector), Inputs = {} \/ ArraysLoop = {}
  PROVE  Pads(loop) = {} /\ Starts(at) = {}
<1>1. loop \in latches /\ loop = allLoopsVector[at]
  BY LoopsAre DEF Ready, Listing, loop
<1>2. loop \in Body(loop)
  <2>1. loop \in g.block /\ Fit(g, End)
    BY <1>1, AccessesAre, SupportedIs DEF Ready, Listing, IInv
  <2> QED
    BY <1>1, <2>1, LoopIs DEF Body, latches
<1>3. ASSUME NEW k \in accesses, NEW l \in PadsBy(loop, k) PROVE FALSE
  BY <1>3 DEF PadsBy, Inputs, ArraysLoop
<1>4. ASSUME NEW l \in Starts(at) PROVE FALSE
  <2>1. l = loop /\ StartFound(l)
    BY <1>1 DEF Starts
  <2> QED
    BY <1>1, <1>2, <2>1 DEF StartFound, Inputs, ArraysLoop
<1> QED
  BY <1>3, <1>4 DEF Pads

\* Taking the next loop leads from between two turns into a turn, or past it.
LEMMA StartStep ==
  ASSUME Ready, Same, StartLoop, BetweenTurns
  PROVE  \/ phase' = "undefined" /\ StoreStale
         \/ phase' = "loop" /\ BetweenTurns'
         \/ phase' = "collect" /\ Collecting'
<1>1. /\ at \in 1..Len(allLoopsVector) /\ Len(allLoopsVector) \in Nat /\ loop \in latches
      /\ DOMAIN allLoopsVector = 1..Len(allLoopsVector)
  BY LoopsAre DEF Ready, Listing, StartLoop, BetweenTurns, Applied, loop
<1>2. /\ Clean(at) /\ GuardsAt
      /\ bounds = conditionals \ (prog.secret \cap Earlier(at))
      /\ inits = prog.first \ StartsBefore(at)
      /\ guards = [k \in accesses |-> GuardedBefore(at, k)]
      /\ version \in [accesses -> Nat]
      /\ \A k \in accesses : version[k] > 0 <=> ReplacedBefore(at, k)
  BY DEF BetweenTurns, Applied
<1>3. \A k \in accesses : InVector(Access(k)) <=> Found(k)
  BY VectorIs DEF Ready, Listing, Found
<1>4. CASE ReadsFreedInput
  <2>1. PICK k \in accesses : Found(k) /\ ReplacedBefore(at, k)
    BY <1>2, <1>3, <1>4 DEF ReadsFreedInput
  <2>2. PICK j \in 1..(at - 1) : \E l \in Pads(allLoopsVector[j]) : k \in StoresAt(j, l)
    BY <2>1 DEF ReplacedBefore
  <2>3. j \in DOMAIN allLoopsVector /\ j < Len(allLoopsVector)
    BY <1>1
  <2>4. StoreStale
    BY <2>1, <2>2, <2>3 DEF StoreStale, Turns, Found
  <2>5. phase' = "undefined"
    BY <1>4 DEF StartLoop
  <2> QED
    BY <2>4, <2>5
<1>5. CASE ~ReadsFreedInput
  <2>1. NoneFound(at)
    BY <1>2, <1>3, <1>5 DEF ReadsFreedInput, NoneFound
  <2>2. InputBranches = Inputs
    BY <1>1, InputsAre DEF Ready, Listing, Inputs
  <2>3. /\ InputBrs' = InputBranches /\ indexes' = ArraysLoop
        /\ IF InputBrs' = {} \/ indexes' = {}
           THEN NextLoop ELSE phase' = "collect" /\ UNCHANGED at
        /\ applyBranchLS' = <<>> /\ applyBranchEnd' = {} /\ applyBranchInit' = {}
        /\ UNCHANGED <<bounds, inits, version, guards>>
    BY <1>5 DEF StartLoop
  <2>4. CASE InputBrs' = {} \/ indexes' = {}
    <3>1. Pads(loop) = {} /\ Starts(at) = {}
      BY <1>1, <2>2, <2>3, <2>4, NothingToPad
    <3>2. Harmless(at, {})
      BY DEF Harmless
    <3>3. phase' = "loop" /\ at' = at + 1
      BY <2>3, <2>4 DEF NextLoop
    <3>4. Harmless(at, Pads(loop))
      BY <3>1, <3>2
    <3>5. /\ bounds' = conditionals \ (prog.secret \cap (Earlier(at) \cup Pads(loop)))
          /\ inits' = (prog.first \ StartsBefore(at)) \ Starts(at)
          /\ guards' = [k \in accesses |->
                          GuardedBefore(at, k) \cup {l \in Pads(loop) : k \in GuardedAt(at, l)}]
          /\ version' \in [accesses -> Nat]
          /\ \A k \in accesses :
               version'[k] > 0 <=> ReplacedBefore(at, k) \/ \E l \in Pads(loop) : k \in StoresAt(at, l)
      BY <1>2, <2>3, <3>1
    <3>6. BetweenTurns'
      BY <1>1, <1>2, <2>1, <3>3, <3>4, <3>5, NextTurn DEF Ready
    <3> QED
      BY <3>3, <3>6
  <2>5. CASE ~(InputBrs' = {} \/ indexes' = {})
    <3>1. phase' = "collect" /\ at' = at
      BY <2>3, <2>5
    <3>2. /\ loop' = loop /\ ArraysLoop' = ArraysLoop /\ Inputs' = Inputs
          /\ conditionals' = conditionals /\ accesses' = accesses
          /\ prog' = prog /\ allLoopsVector' = allLoopsVector
          /\ Earlier(at)' = Earlier(at) /\ StartsBefore(at)' = StartsBefore(at)
          /\ Clean(at)' /\ NoneFound(at)' /\ GuardsAt'
          /\ \A k : GuardedBefore(at, k)' = GuardedBefore(at, k)
          /\ \A k : ReplacedBefore(at, k)' <=> ReplacedBefore(at, k)
      BY <1>1, <1>2, <2>1, <3>1, TurnStays DEF Ready
    <3>3. Applied'
      BY <1>1, <1>2, <2>3, <3>1, <3>2 DEF Applied
    <3>4. InTurn'
      BY <1>1, <3>1, <3>2 DEF InTurn
    <3>5. /\ DOMAIN applyBranchLS' = {} /\ applyBranchEnd' = {} /\ applyBranchInit' = {}
          /\ (ArraysLoop \ indexes)' = {}
      BY <2>3, <3>2
    <3>6. InputBrs' = Inputs'
      BY <2>2, <2>3, <3>2
    <3>7. (UNION {PadsBy(loop, k) : k \in ArraysLoop \ indexes})' = {}
      BY <3>5
    <3>8. SeenIn(ArraysLoop \ indexes)' = {}
      BY <3>5 DEF SeenIn
    <3>9. /\ bounds' = (conditionals \ (prog.secret \cap (Earlier(at) \cup DOMAIN applyBranchLS)))'
          /\ inits' = ((prog.first \ StartsBefore(at)) \ SeenIn(ArraysLoop \ indexes))'
          /\ applyBranchEnd' = ((prog.secret \cap DOMAIN applyBranchLS) \ Earlier(at))'
      BY <1>2, <2>3, <3>2, <3>5, <3>8
    <3>10. Collecting'
      BY <2>3, <3>2, <3>3, <3>4, <3>5, <3>6, <3>7, <3>8, <3>9 DEF Collecting
    <3> QED
      BY <3>1, <3>10
  <2> QED
    BY <2>4, <2>5
<1> QED
  BY <1>4, <1>5

\* What the index of one array access leads to: the branches it pads, of those
\* the ones with secret bounds, and what is listed for them.
LEMMA IndexPads ==
  ASSUME Ready, Collecting, NEW k \in indexes,
         NEW usersOf, usersOf = UsersVectorOf(Index(prog.access[k].loop))
  PROVE  /\ {b \in InputBrs : Cmp(code[b].cond) \in usersOf} = PadsBy(loop, k)
         /\ \A b \in PadsBy(loop, k) :
              code[b].cond = b /\ b \in conditionals /\ (InVector(Bound(b)) <=> b \in prog.secret)
         /\ \A s : Access(s) \in usersOf <=>
                     Access(s) \in Depends(Index(prog.access[k].loop), GuardsBefore[at])
<1>1. /\ InputBrs = (prog.secret \cup prog.first) \cap latches \cap Body(loop)
      /\ k \in accesses /\ prog.access[k].local /\ prog.access[k].block \in Body(loop)
  BY DEF Collecting, ArraysLoop, Inputs
<1>2. /\ prog.access[k].loop \in latches /\ latches \subseteq g.block
      /\ latches \subseteq conditionals
  BY <1>1, AccessesAre DEF Ready, Listing, Supported, Rotated, latches, conditionals
<1>3. guards = GuardsBefore[at]
  BY DEF Collecting, Applied, GuardsAt
<1>4. /\ \A x : Cmp(x) \in usersOf <=> Cmp(x) \in Depends(Index(prog.access[k].loop), Unguarded)
      /\ \A x : Access(x) \in usersOf <=>
                  Access(x) \in Depends(Index(prog.access[k].loop), GuardsBefore[at])
  <2>1. PICK l \in latches : l = prog.access[k].loop
    BY <1>2
  <2>2. PICK by : by = Unguarded
    OBVIOUS
  <2>3. /\ \A x : Cmp(x) \in UsersVectorOf(Index(l)) <=> Cmp(x) \in Depends(Index(l), by)
        /\ \A x : Access(x) \in UsersVectorOf(Index(l)) <=> Access(x) \in Depends(Index(l), guards)
    BY IndexFinds DEF Ready, Listing
  <2> QED
    BY <1>3, <2>1, <2>2, <2>3
<1>5. ASSUME NEW b \in latches
      PROVE  code[b].cond = b /\ b \in conditionals /\ (InVector(Bound(b)) <=> b \in prog.secret)
  <2>1. b \in g.block /\ b \in conditionals
    BY <1>2
  <2> QED
    BY <2>1, CodeIs, VectorIs DEF Ready, Listing
<1>6. \A b : b \in PadsBy(loop, k) <=>
               /\ b \in (prog.secret \cup prog.first) \cap latches \cap Body(loop)
               /\ Cmp(b) \in Depends(Index(prog.access[k].loop), Unguarded)
  BY <1>1 DEF PadsBy
<1> QED
  BY <1>1, <1>4, <1>5, <1>6

\* The first index of the loop is found through the accesses that are indexed
\* with its phi, once; it is compared by the loop's own latch.
LEMMA IndexStarts ==
  ASSUME Ready, Collecting, NEW k \in indexes,
         NEW firsts, firsts = IF PhiIndexFound(prog.access[k]) THEN PadsBy(loop, k) ELSE {}
  PROVE  /\ firsts = {} \/ firsts = {loop}
         /\ applyBranchInit \cup firsts = SeenIn((ArraysLoop \ indexes) \cup {k})
         /\ (IF firsts = {} THEN inits ELSE inits \ {loop})
              = (prog.first \ StartsBefore(at)) \ SeenIn((ArraysLoop \ indexes) \cup {k})
<1> DEFINE a == prog.access[k]
           S == ArraysLoop \ indexes
<1>1. /\ at \in 1..Len(allLoopsVector) /\ Len(allLoopsVector) \in Nat
      /\ k \in accesses /\ a.local /\ a.block \in Body(loop)
      /\ applyBranchInit = SeenIn(S)
      /\ inits = (prog.first \ StartsBefore(at)) \ SeenIn(S)
  BY LoopsAre DEF Ready, Listing, Collecting, InTurn, Applied, ArraysLoop
<1>2. /\ loop \in latches /\ loop = allLoopsVector[at]
      /\ \A i, j \in 1..Len(allLoopsVector) : allLoopsVector[i] = allLoopsVector[j] => i = j
  BY <1>1, LoopsAre DEF Ready, Listing, loop
<1>3. loop \notin StartsBefore(at)
  BY <1>1, <1>2 DEF StartsBefore
<1>4. HasPreheader(loop)
  BY <1>2, PreheaderStays DEF Ready, Listing
<1>5. PhiIndexFound(a) <=> a.direct /\ a.loop = loop /\ loop \in prog.first /\ loop \notin SeenIn(S)
  BY <1>1, <1>3, <1>4 DEF PhiIndexFound
<1>6. a.loop = loop /\ loop \in prog.first => PadsBy(loop, k) = {loop}
  BY <1>1, <1>2, StartPads DEF Ready, Listing
<1>7. SeenIn(S \cup {k})
        = SeenIn(S) \cup (IF a.direct /\ a.loop = loop /\ loop \in prog.first THEN {loop} ELSE {})
  BY DEF SeenIn
<1>8. SeenIn(S) = {} \/ SeenIn(S) = {loop}
  BY DEF SeenIn
<1> HIDE DEF S
<1>9. CASE PhiIndexFound(a)
  BY <1>1, <1>5, <1>6, <1>7, <1>8, <1>9 DEF S
<1>10. CASE ~PhiIndexFound(a)
  BY <1>1, <1>5, <1>7, <1>8, <1>10 DEF S
<1> QED
  BY <1>9, <1>10

\* Handling an index keeps what a turn has collected right, or crashes.
LEMMA CollectStep ==
  ASSUME Ready, Same, CollectIndex, Collecting
  PROVE  \/ phase' = "crashed" /\ NotCompared
         \/ phase' = "collect" /\ Collecting'
<1> DEFINE K == accesses
           LS == DOMAIN applyBranchLS
           E == Earlier(at)
<1>1. /\ indexes # {} /\ indexes \subseteq ArraysLoop /\ ArraysLoop \subseteq K /\ K \subseteq Nat
      /\ \A j \in ArraysLoop \ indexes : \A i \in indexes : j < i
      /\ LS = UNION {PadsBy(loop, j) : j \in ArraysLoop \ indexes}
      /\ at \in 1..Len(allLoopsVector)
  BY AccessesAre, LoopsAre DEF CollectIndex, Collecting, InTurn, Applied, ArraysLoop, Ready, Listing
<1>2. PICK k : k = Min(indexes)
  OBVIOUS
<1>3. k \in indexes /\ \A i \in indexes : k <= i
  <2>1. \E i \in indexes : \A j \in indexes : i <= j
    <3>1. indexes \in SUBSET Nat
      BY <1>1
    <3> QED
      BY <1>1, <3>1, LeastNat
  <2> QED
    BY <1>2, <2>1 DEF Min
<1>4. PICK usersOf : usersOf = UsersVectorOf(Index(prog.access[k].loop))
  OBVIOUS
<1>5. PICK brs : brs = PadsBy(loop, k)
  OBVIOUS
<1>6. /\ {b \in InputBrs : Cmp(code[b].cond) \in usersOf} = brs
      /\ \A b \in brs : code[b].cond = b /\ b \in conditionals /\ (InVector(Bound(b)) <=> b \in prog.secret)
      /\ \A s : Access(s) \in usersOf <=>
                  Access(s) \in Depends(Index(prog.access[k].loop), GuardsBefore[at])
  BY <1>3, <1>4, <1>5, IndexPads
<1>7. PICK used : used = {<<s, version[s]>> : s \in {s \in accesses : Access(s) \in usersOf}}
  OBVIOUS
<1>8. PICK firsts : firsts = IF PhiIndexFound(prog.access[k]) THEN PadsBy(loop, k) ELSE {}
  OBVIOUS
<1>9. /\ applyBranchLS' = [b \in LS \cup brs |-> IF b \in LS THEN applyBranchLS[b] ELSE used]
      /\ applyBranchEnd' = applyBranchEnd \cup
           {b \in brs : code[b].cond \in bounds /\ InVector(Bound(code[b].cond))}
      /\ bounds' = bounds \
           {code[b].cond : b \in {b \in brs : code[b].cond \in bounds /\ InVector(Bound(code[b].cond))}}
      /\ applyBranchInit' = applyBranchInit \cup firsts
      /\ inits' = IF firsts = {} THEN inits ELSE inits \ {loop}
      /\ phase' = IF \E b \in brs : prog.cond[code[b].cond] # 0 THEN "crashed" ELSE "collect"
      /\ indexes' = indexes \ {k}
      /\ UNCHANGED <<at, version, InputBrs, guards>>
  BY <1>2, <1>4, <1>5, <1>6, <1>7, <1>8 DEF CollectIndex
<1>10. PICK ends : ends = {b \in brs : b \in bounds /\ b \in prog.secret}
  OBVIOUS
<1>11. /\ {b \in brs : code[b].cond \in bounds /\ InVector(Bound(code[b].cond))} = ends
       /\ {code[b].cond : b \in ends} = ends
  BY <1>6, <1>10
<1>12. /\ applyBranchEnd' = applyBranchEnd \cup ends /\ bounds' = bounds \ ends
       /\ phase' = IF \E b \in brs : prog.cond[b] # 0 THEN "crashed" ELSE "collect"
  BY <1>6, <1>9, <1>11
<1>13. brs \subseteq Pads(loop)
  BY <1>1, <1>3, <1>5 DEF Pads
<1>14. LS \subseteq Pads(loop)
  BY <1>1 DEF Pads
<1>15. CASE \E b \in brs : prog.cond[b] # 0
  <2>1. loop \in latches
    BY <1>1, LoopsAre DEF Ready, Listing, loop
  <2> QED
    BY <1>12, <1>13, <1>15, <2>1 DEF NotCompared
<1>16. CASE \A b \in brs : prog.cond[b] = 0
  <2>1. /\ loop' = loop /\ ArraysLoop' = ArraysLoop /\ Inputs' = Inputs
        /\ conditionals' = conditionals /\ K' = K
        /\ prog' = prog /\ allLoopsVector' = allLoopsVector
        /\ Earlier(at)' = E /\ StartsBefore(at)' = StartsBefore(at)
        /\ Clean(at)' <=> Clean(at)
        /\ NoneFound(at)' <=> NoneFound(at)
        /\ GuardsAt' <=> GuardsAt
        /\ \A j \in K : PadsBy(loop, j)' = PadsBy(loop, j)
        /\ \A b \in Pads(loop) : ListedAt(at, b)' = ListedAt(at, b)
        /\ \A j : GuardedBefore(at, j)' = GuardedBefore(at, j)
        /\ \A j : ReplacedBefore(at, j)' <=> ReplacedBefore(at, j)
    BY <1>1, <1>9, TurnStays DEF Ready
  <2>2. Applied'
    BY <1>9, <2>1 DEF Collecting, Applied
  <2>3. InTurn'
    BY <1>9, <2>1 DEF Collecting, InTurn
  <2>4. InputBrs' = Inputs'
    BY <1>9, <2>1 DEF Collecting
  <2>5. indexes' \subseteq ArraysLoop' /\ \A x : x \in ArraysLoop \ indexes' <=> x \in ArraysLoop \ indexes \/ x = k
    BY <1>1, <1>3, <1>9, <2>1
  <2>6. \A x \in (ArraysLoop \ indexes)' : \A i \in indexes' : x < i
    <3>1. \A i \in indexes' : k < i /\ i \in indexes
      BY <1>1, <1>3, <1>9
    <3> QED
      BY <1>1, <2>1, <2>5, <3>1
  <2>7. DOMAIN applyBranchLS' = LS \cup brs
    BY <1>9
  <2>8. LS \cup brs = UNION {PadsBy(loop, j) : j \in ArraysLoop \ indexes'}
    BY <1>1, <1>5, <2>5
  <2>9. UNION {PadsBy(loop, j) : j \in ArraysLoop \ indexes'} = (UNION {PadsBy(loop, j) : j \in ArraysLoop \ indexes})'
    BY <1>1, <2>1
  <2>10. ASSUME NEW b \in brs \ LS PROVE used = {<<s, version[s]>> : s \in ListedAt(at, b)}
    <3>1. PICK f \in K :
           /\ b \in PadsBy(loop, f)
           /\ \A j \in K : b \in PadsBy(loop, j) => f <= j
           /\ \A by, s : s \in Listed(loop, b, by) <=>
                s \in K /\ Access(s) \in Depends(Index(prog.access[f].loop), by)
      BY <1>13, FirstIs DEF Ready, Listing
    <3>2. f \in ArraysLoop
      BY <3>1 DEF PadsBy, ArraysLoop
    <3>3. f \in indexes
      BY <1>1, <2>10, <3>1, <3>2
    <3>4. f = k
      BY <1>1, <1>3, <1>5, <3>1, <3>3
    <3>5. ListedAt(at, b) = Listed(loop, b, GuardsBefore[at])
      BY DEF ListedAt, loop
    <3>6. {s \in K : Access(s) \in usersOf} = ListedAt(at, b)
      <4>1. PICK by : by = GuardsBefore[at]
        OBVIOUS
      <4>2. \A s : s \in Listed(loop, b, by) <=>
              s \in K /\ Access(s) \in Depends(Index(prog.access[k].loop), by)
        BY <3>1, <3>4
      <4> QED
        BY <1>6, <3>5, <4>1, <4>2
    <3> QED
      BY <1>7, <3>6
  <2>11. \A b \in LS : applyBranchLS[b] = {<<s, version[s]>> : s \in ListedAt(at, b)} /\ prog.cond[b] = 0
    BY DEF Collecting
  <2>12. ASSUME NEW b \in LS \cup brs
         PROVE  /\ applyBranchLS'[b] = {<<s, version[s]>> : s \in ListedAt(at, b)}
                /\ prog.cond[b] = 0
    BY <1>9, <1>16, <2>10, <2>11
  <2>13. \A b \in LS \cup brs : ListedAt(at, b)' = ListedAt(at, b)
    BY <1>13, <1>14, <2>1
  <2>14. ASSUME NEW b \in DOMAIN applyBranchLS'
         PROVE  applyBranchLS'[b] = {<<s, version[s]>> : s \in ListedAt(at, b)}'
    <3>1. PICK G : G = ListedAt(at, b)
      OBVIOUS
    <3>2. PICK v : v = version
      OBVIOUS
    <3>3. ListedAt(at, b)' = G /\ version' = v
      BY <1>9, <2>7, <2>13, <3>1, <3>2
    <3>4. {<<s, version[s]>> : s \in ListedAt(at, b)}' = {<<s, v[s]>> : s \in G}
      BY <3>3
    <3>5. applyBranchLS'[b] = {<<s, v[s]>> : s \in G}
      BY <2>7, <2>12, <3>1, <3>2
    <3> QED
      BY <3>4, <3>5
  <2>15. /\ applyBranchEnd = (prog.secret \cap LS) \ E
         /\ bounds = conditionals \ (prog.secret \cap (E \cup LS))
    BY DEF Collecting
  <2>16. /\ applyBranchEnd' = (prog.secret \cap (LS \cup brs)) \ E
         /\ bounds' = conditionals \ (prog.secret \cap (E \cup LS \cup brs))
    BY <1>6, <1>10, <1>12, <2>15
  <2>17. /\ applyBranchEnd' = ((prog.secret \cap DOMAIN applyBranchLS) \ Earlier(at))'
         /\ bounds' = (conditionals \ (prog.secret \cap (Earlier(at) \cup DOMAIN applyBranchLS)))'
    BY <2>1, <2>7, <2>16
  <2>18. /\ applyBranchInit' = SeenIn(ArraysLoop \ indexes)'
         /\ inits' = ((prog.first \ StartsBefore(at)) \ SeenIn(ArraysLoop \ indexes))'
    <3>1. PICK S : S = (ArraysLoop \ indexes) \cup {k}
      OBVIOUS
    <3>2. (ArraysLoop \ indexes)' = S
      BY <2>1, <2>5, <3>1
    <3>3. SeenIn(S)' = SeenIn(S)
      BY <2>1 DEF SeenIn
    <3>4. SeenIn(ArraysLoop \ indexes)' = SeenIn(S)
      <4>1. SeenIn(ArraysLoop \ indexes)' = SeenIn(S)'
        BY <3>2
      <4> QED
        BY <3>3, <4>1
    <3>5. /\ applyBranchInit \cup firsts = SeenIn(S)
          /\ (IF firsts = {} THEN inits ELSE inits \ {loop}) = (prog.first \ StartsBefore(at)) \ SeenIn(S)
      BY <1>3, <1>8, <3>1, IndexStarts
    <3> QED
      BY <1>9, <2>1, <3>4, <3>5
  <2>19. Collecting'
    BY <2>1, <2>2, <2>3, <2>4, <2>5, <2>6, <2>7, <2>8, <2>9, <2>12, <2>14, <2>17, <2>18
       DEF Collecting
  <2> QED
    BY <1>12, <1>16, <2>19
<1> QED
  BY <1>15, <1>16

\* When all accesses were looked at, the latches found are those of the turn,
\* and the first index is replaced if the turn replaces it.
LEMMA AllCollected ==
  ASSUME Ready, Collecting, indexes = {}
  PROVE  DOMAIN applyBranchLS = Pads(loop) /\ SeenIn(ArraysLoop \ indexes) = Starts(at)
<1>1. DOMAIN applyBranchLS = UNION {PadsBy(loop, k) : k \in ArraysLoop}
  BY DEF Collecting
<1>2. ArraysLoop \subseteq accesses /\ ArraysLoop \ indexes = ArraysLoop
  BY DEF ArraysLoop
<1>3. \A k \in accesses : \A l \in PadsBy(loop, k) : k \in ArraysLoop
  BY DEF PadsBy, ArraysLoop
<1>4. DOMAIN applyBranchLS = Pads(loop)
  BY <1>1, <1>2, <1>3 DEF Pads
<1>5. prog.first \subseteq latches
  BY ProgramIs DEF Ready, Listing
<1>6. SeenIn(ArraysLoop) = Starts(at)
  BY <1>5 DEF SeenIn, Starts, StartFound, ArraysLoop, loop
<1> QED
  BY <1>2, <1>4, <1>6

\* Once all indexes are handled the turn applies what it collected, or ends.
LEMMA CollectedStep ==
  ASSUME Ready, Same, Collected, Collecting
  PROVE  \/ phase' = "loop" /\ BetweenTurns'
         \/ phase' = "apply" /\ Applying'
<1> DEFINE K == accesses
           LS == DOMAIN applyBranchLS
<1>1. /\ at \in 1..Len(allLoopsVector) /\ Len(allLoopsVector) \in Nat
  BY LoopsAre DEF Ready, Listing, Collecting, InTurn, Applied
<1>2. LS = Pads(loop) /\ SeenIn(ArraysLoop \ indexes) = Starts(at)
  BY AllCollected DEF Collected, Ready
<1>3. /\ Clean(at) /\ NoneFound(at) /\ GuardsAt
      /\ bounds = conditionals \ (prog.secret \cap (Earlier(at) \cup Pads(loop)))
      /\ applyBranchEnd = (prog.secret \cap Pads(loop)) \ Earlier(at)
      /\ applyBranchInit = Starts(at)
      /\ inits = (prog.first \ StartsBefore(at)) \ Starts(at)
      /\ guards = [k \in K |-> GuardedBefore(at, k)]
      /\ version \in [K -> Nat]
      /\ \A k \in K : version[k] > 0 <=> ReplacedBefore(at, k)
      /\ \A b \in LS : applyBranchLS[b] = {<<k, version[k]>> : k \in ListedAt(at, b)}
      /\ \A b \in LS : prog.cond[b] = 0
  BY <1>2 DEF Collecting, Applied, InTurn
<1>4. /\ IF LS = {} THEN NextLoop ELSE phase' = "apply" /\ UNCHANGED at
      /\ UNCHANGED <<bounds, inits, version, applyBranchLS, applyBranchEnd, applyBranchInit, guards>>
  BY DEF Collected
<1>5. Harmless(at, {})
  BY DEF Harmless
<1>6. CASE LS = {}
  <2>1. phase' = "loop" /\ at' = at + 1
    BY <1>4, <1>6 DEF NextLoop
  <2>2. Harmless(at, Pads(loop))
    BY <1>2, <1>5, <1>6
  <2>3. /\ bounds' = conditionals \ (prog.secret \cap (Earlier(at) \cup Pads(loop)))
        /\ inits' = (prog.first \ StartsBefore(at)) \ Starts(at)
        /\ guards' = [k \in K |->
                        GuardedBefore(at, k) \cup {l \in Pads(loop) : k \in GuardedAt(at, l)}]
        /\ version' \in [K -> Nat]
        /\ \A k \in K :
             version'[k] > 0 <=> ReplacedBefore(at, k) \/ \E l \in Pads(loop) : k \in StoresAt(at, l)
    BY <1>2, <1>3, <1>4, <1>6
  <2>4. BetweenTurns'
    BY <1>1, <1>3, <2>1, <2>2, <2>3, NextTurn DEF Ready
  <2> QED
    BY <2>1, <2>4
<1>7. CASE LS # {}
  <2>1. phase' = "apply" /\ at' = at
    BY <1>4, <1>7
  <2>2. /\ loop' = loop /\ conditionals' = conditionals /\ K' = K
        /\ prog' = prog /\ allLoopsVector' = allLoopsVector
        /\ Pads(loop)' = Pads(loop) /\ Earlier(at)' = Earlier(at)
        /\ StartsBefore(at)' = StartsBefore(at) /\ Starts(at)' = Starts(at)
        /\ Clean(at)' /\ NoneFound(at)' /\ GuardsAt'
        /\ \A b \in Pads(loop) : ListedAt(at, b)' = ListedAt(at, b)
        /\ \A k : GuardedBefore(at, k)' = GuardedBefore(at, k)
        /\ \A k : ReplacedBefore(at, k)' <=> ReplacedBefore(at, k)
        /\ \A S \in SUBSET Pads(loop) : Harmless(at, S)' <=> Harmless(at, S)
    BY <1>1, <1>3, <2>1, TurnStays DEF Ready
  <2>3. InTurn' /\ at' \in 1..(Len(allLoopsVector') + 1)
    BY <1>1, <2>1, <2>2 DEF InTurn
  <2>4. Done' = {}
    BY <1>2, <1>4, <2>2 DEF Done
  <2>5. Harmless(at, Done)'
    <3>1. Harmless(at, {})'
      BY <1>5, <2>2
    <3> QED
      BY <2>4, <3>1
  <2>6. guards' = [k \in accesses |-> GuardedBefore(at, k) \cup {l \in Done : k \in GuardedAt(at, l)}]'
    BY <1>3, <1>4, <2>2, <2>4
  <2>7. \A k \in accesses' :
          version'[k] > 0 <=> ReplacedBefore(at, k)' \/ (\E l \in Done : k \in StoresAt(at, l))'
    BY <1>3, <1>4, <2>2, <2>4
  <2>8. PICK base : base = version
    OBVIOUS
  <2>9. ASSUME NEW b \in LS
        PROVE  applyBranchLS'[b] = {<<k, base[k]>> : k \in ListedAt(at, b)}'
    <3>1. ListedAt(at, b)' = ListedAt(at, b)
      BY <1>2, <2>2
    <3> QED
      BY <1>3, <1>4, <2>8, <3>1
  <2>10. \A k \in K : base[k] <= version'[k] /\ ~(base[k] < version'[k])
    BY <1>3, <1>4, <2>8
  <2>11. (\E base1 \in [accesses -> Nat] :
            /\ \A b \in DOMAIN applyBranchLS :
                 applyBranchLS[b] = {<<k, base1[k]>> : k \in ListedAt(at, b)}
            /\ \A k \in accesses :
                 base1[k] <= version[k]
                 /\ (base1[k] < version[k] <=> \E l \in Done : k \in StoresAt(at, l)))'
    BY <1>3, <1>4, <2>2, <2>4, <2>8, <2>9, <2>10
  <2>12. /\ (DOMAIN applyBranchLS)' = Pads(loop)' /\ (DOMAIN applyBranchLS)' # {}
         /\ applyBranchEnd' = ((prog.secret \cap Pads(loop)) \ Earlier(at))'
         /\ bounds' = (conditionals \ (prog.secret \cap (Earlier(at) \cup Pads(loop))))'
         /\ applyBranchInit' = Starts(at)'
         /\ inits' = ((prog.first \ StartsBefore(at)) \ Starts(at))'
         /\ version' \in [accesses -> Nat]'
         /\ \A b \in Pads(loop)' : prog'.cond[b] = 0
    BY <1>2, <1>3, <1>4, <1>7, <2>2
  <2>13. Applying'
    BY <2>2, <2>3, <2>5, <2>6, <2>7, <2>11, <2>12 DEF Applying
  <2> QED
    BY <2>1, <2>13
<1> QED
  BY <1>6, <1>7

\* The accesses recorded for the branch of b that are selected, and the latches
\* that are done when b is.
UsedBy(b) == {k \in {e[1] : e \in applyBranchLS[b]} : Selects(k)}
With(b) == Done \cup {b}

\* The accesses that are selected for a branch of the turn are those it guards.
LEMMA UsedIs ==
  ASSUME Ready, Applying, NEW b \in DOMAIN applyBranchLS
  PROVE  UsedBy(b) = GuardedAt(at, b)
<1>1. PICK base \in [accesses -> Nat] :
        \A c \in DOMAIN applyBranchLS : applyBranchLS[c] = {<<k, base[k]>> : k \in ListedAt(at, c)}
  BY DEF Applying
<1>2. applyBranchLS[b] = {<<k, base[k]>> : k \in ListedAt(at, b)}
  BY <1>1
<1>3. PICK L : L = ListedAt(at, b)
  OBVIOUS
<1>4. {e[1] : e \in applyBranchLS[b]} = L
  <2>1. \A k : k \in {e[1] : e \in applyBranchLS[b]} <=> \E e \in applyBranchLS[b] : k = e[1]
    OBVIOUS
  <2>2. ASSUME NEW k \in {e[1] : e \in applyBranchLS[b]} PROVE k \in L
    <3>1. PICK e \in applyBranchLS[b] : k = e[1]
      BY <2>1
    <3>2. PICK s \in L : e = <<s, base[s]>>
      BY <1>2, <1>3
    <3> QED
      BY <3>1, <3>2
  <2>3. ASSUME NEW k \in L PROVE k \in {e[1] : e \in applyBranchLS[b]}
    <3>1. PICK e : e = <<k, base[k]>>
      OBVIOUS
    <3>2. e \in applyBranchLS[b] /\ k = e[1]
      BY <1>2, <1>3, <3>1
    <3> QED
      BY <2>1, <3>2
  <2> QED
    BY <2>2, <2>3
<1>5. L \subseteq accesses /\ GuardedAt(at, b) = {k \in L : Guardable(loop, k)}
  BY <1>3, GuardedIs DEF loop
<1>6. \A k \in L : Selects(k) <=> Guardable(loop, k)
  BY <1>5, SelectsIs
<1> QED
  BY <1>4, <1>5, <1>6 DEF UsedBy

\* A guard of the turn can be built if and only if something was remembered.
LEMMA FinalIs ==
  ASSUME Ready, Applying, NEW b \in Pads(loop)
  PROVE  HasFinalCmp(b) <=> GuardFound(at, b)
<1>1. b \in latches
  BY DEF Pads, PadsBy
<1> QED
  BY <1>1 DEF Applying, HasFinalCmp, GuardFound, Earlier, Starts

\* What applying the guards of one more latch adds to those of the others.
LEMMA AppliedOne ==
  ASSUME Ready, Applying, NEW b \in DOMAIN applyBranchLS, ~Freed(b),
         UsedBy(b) = {} \/ HasFinalCmp(b),
         version' = [k \in accesses |->
                       IF k \in UsedBy(b) /\ prog.access[k].store THEN version[k] + 1 ELSE version[k]],
         guards' = [k \in accesses |-> IF k \in UsedBy(b) THEN guards[k] \cup {b} ELSE guards[k]]
  PROVE  /\ With(b) = Pads(loop) \ (DOMAIN applyBranchLS \ {b})
         /\ Harmless(at, With(b))
         /\ guards' = [k \in accesses |->
                        GuardedBefore(at, k) \cup {l \in With(b) : k \in GuardedAt(at, l)}]
         /\ version' \in [accesses -> Nat]
         /\ \A k \in accesses :
              version'[k] > 0 <=>
                ReplacedBefore(at, k) \/ \E l \in With(b) : k \in StoresAt(at, l)
         /\ \E base \in [accesses -> Nat] :
              /\ \A c \in DOMAIN applyBranchLS :
                   applyBranchLS[c] = {<<k, base[k]>> : k \in ListedAt(at, c)}
              /\ \A k \in accesses :
                   /\ base[k] <= version'[k]
                   /\ base[k] < version'[k] <=> \E l \in With(b) : k \in StoresAt(at, l)
<1> DEFINE K == accesses
           LS == DOMAIN applyBranchLS
           G == GuardedAt(at, b)
<1>1. PICK used : used = UsedBy(b)
  OBVIOUS
<1>2. PICK D2 : D2 = With(b)
  OBVIOUS
<1>3. PICK v2 : v2 = version'
  OBVIOUS
<1>4. PICK g2 : g2 = guards'
  OBVIOUS
<1>5. /\ v2 = [k \in K |->
                IF k \in used /\ prog.access[k].store THEN version[k] + 1 ELSE version[k]]
      /\ g2 = [k \in K |-> IF k \in used THEN guards[k] \cup {b} ELSE guards[k]]
      /\ D2 = Done \cup {b}
  BY <1>1, <1>2, <1>3, <1>4 DEF With
<1>6. PICK base \in [K -> Nat] :
        /\ \A c \in LS : applyBranchLS[c] = {<<k, base[k]>> : k \in ListedAt(at, c)}
        /\ \A k \in K :
             base[k] <= version[k] /\ (base[k] < version[k] <=> \E l \in Done : k \in StoresAt(at, l))
  BY DEF Applying
<1>7. /\ LS \subseteq Pads(loop)
      /\ Harmless(at, Done)
      /\ \A c \in Pads(loop) : prog.cond[c] = 0
      /\ guards = [k \in K |-> GuardedBefore(at, k) \cup {l \in Done : k \in GuardedAt(at, l)}]
      /\ version \in [K -> Nat]
      /\ \A k \in K : version[k] > 0 <=> ReplacedBefore(at, k) \/ \E l \in Done : k \in StoresAt(at, l)
  BY DEF Applying
<1>8. b \in Pads(loop) /\ b \notin Done
  BY <1>7 DEF Done
<1>9. /\ ListedAt(at, b) \subseteq K /\ G \subseteq ListedAt(at, b)
      /\ \A s : s \in StoresAt(at, b) <=> s \in ListedAt(at, b) /\ prog.access[s].store
      /\ \A s : s \in StoresAt(at, b) <=> s \in G /\ prog.access[s].store
  BY GuardedIs DEF StoresAt
<1>10. applyBranchLS[b] = {<<k, base[k]>> : k \in ListedAt(at, b)}
  BY <1>6
<1>11. used = G
  BY <1>1, UsedIs
<1> HIDE DEF G
<1>12. ASSUME NEW k \in ListedAt(at, b) PROVE version[k] = base[k]
  <2>1. PICK e : e = <<k, base[k]>>
    OBVIOUS
  <2>2. e \in applyBranchLS[b] /\ k = e[1] /\ base[k] = e[2]
    BY <1>10, <2>1
  <2> QED
    BY <2>2 DEF Freed
<1>13. \A l \in Done : StoresAt(at, l) \cap StoresAt(at, b) = {}
  <2> SUFFICES ASSUME NEW l \in Done, NEW s \in StoresAt(at, l), s \in StoresAt(at, b) PROVE FALSE
    OBVIOUS
  <2>1. s \in ListedAt(at, b)
    BY <1>9
  <2>2. s \in K /\ base[s] < version[s]
    BY <1>6, <1>9, <2>1
  <2>3. version[s] = base[s] /\ base[s] \in Nat
    BY <1>6, <1>12, <2>1, <2>2
  <2> QED
    BY <2>2, <2>3
<1>14. D2 = Pads(loop) \ (LS \ {b})
  BY <1>8, <1>5 DEF Done
<1>15. Harmless(at, D2)
  <2>1. \A l \in D2 : prog.cond[l] = 0
    BY <1>7, <1>14
  <2>2. \A k, l \in D2 : k # l => StoresAt(at, k) \cap StoresAt(at, l) = {}
    BY <1>7, <1>13, <1>5 DEF Harmless
  <2>3. GuardFound(at, b) \/ GuardedAt(at, b) = {}
    BY <1>1, <1>8, <1>11, FinalIs DEF G
  <2>4. \A l \in D2 : GuardFound(at, l) \/ GuardedAt(at, l) = {}
    BY <1>5, <1>7, <2>3 DEF Harmless
  <2> QED
    BY <2>1, <2>2, <2>4 DEF Harmless
<1>16. ASSUME NEW k \in K
       PROVE  g2[k] = GuardedBefore(at, k) \cup {l \in D2 : k \in GuardedAt(at, l)}
  <2>1. k \in G <=> k \in GuardedAt(at, b)
    BY DEF G
  <2>2. {l \in D2 : k \in GuardedAt(at, l)}
          = {l \in Done : k \in GuardedAt(at, l)} \cup (IF k \in G THEN {b} ELSE {})
    BY <1>5, <2>1
  <2>3. guards[k] = GuardedBefore(at, k) \cup {l \in Done : k \in GuardedAt(at, l)}
    BY <1>7
  <2>4. g2[k] = IF k \in G THEN guards[k] \cup {b} ELSE guards[k]
    BY <1>11, <1>5
  <2> QED
    BY <2>2, <2>3, <2>4
<1>17. g2 = [k \in K |-> GuardedBefore(at, k) \cup {l \in D2 : k \in GuardedAt(at, l)}]
  <2>1. g2 = [k \in K |-> g2[k]]
    BY <1>5
  <2> QED
    BY <1>16, <2>1
<1>18. \A k \in K : v2[k] = IF k \in StoresAt(at, b) THEN version[k] + 1 ELSE version[k]
  BY <1>5, <1>9, <1>11
<1>19. v2 \in [K -> Nat]
  BY <1>5, <1>7
<1>20. \A k : (\E l \in D2 : k \in StoresAt(at, l))
                <=> (\E l \in Done : k \in StoresAt(at, l)) \/ k \in StoresAt(at, b)
  BY <1>5
<1>21. ASSUME NEW k \in K
       PROVE  /\ v2[k] > 0 <=> ReplacedBefore(at, k) \/ \E l \in D2 : k \in StoresAt(at, l)
              /\ base[k] <= v2[k]
              /\ base[k] < v2[k] <=> \E l \in D2 : k \in StoresAt(at, l)
  <2>1. version[k] \in Nat /\ base[k] \in Nat
    BY <1>6, <1>7
  <2>2. CASE k \in StoresAt(at, b)
    BY <1>6, <1>18, <1>20, <2>1, <2>2
  <2>3. CASE k \notin StoresAt(at, b)
    BY <1>6, <1>7, <1>18, <1>20, <2>1, <2>3
  <2> QED
    BY <2>2, <2>3
<1> QED
  BY <1>6, <1>14, <1>15, <1>17, <1>19, <1>21, <1>2, <1>3, <1>4

\* Padding one branch keeps a turn right, ends it, or meets a hazard.
LEMMA ApplyStep ==
  ASSUME Ready, Same, NEW b, ApplyBranch(b), Applying
  PROVE  \/ phase' = "undefined" /\ StoreShared
         \/ phase' = "crashed" /\ NullGuard
         \/ phase' = "loop" /\ BetweenTurns'
         \/ phase' = "apply" /\ Applying'
<1> DEFINE K == accesses
           LS == DOMAIN applyBranchLS
<1>1. /\ at \in 1..Len(allLoopsVector) /\ Len(allLoopsVector) \in Nat
      /\ allLoopsVector[at] = loop /\ at \in Turns
  BY LoopsAre DEF Ready, Listing, Applying, InTurn, loop, Turns
<1>2. PICK used : used = UsedBy(b)
  OBVIOUS
<1>3. b \in LS /\ LS \subseteq Pads(loop) /\ b \in Pads(loop)
  BY DEF ApplyBranch, Applying
<1>4. /\ \/ Freed(b) /\ phase' = "undefined"
         \/ used # {} /\ ~HasFinalCmp(b) /\ phase' = "crashed"
         \/ /\ ~Freed(b) /\ (used = {} \/ HasFinalCmp(b))
            /\ version' = [k \in K |->
                             IF k \in used /\ prog.access[k].store THEN version[k] + 1 ELSE version[k]]
            /\ guards' = [k \in K |-> IF k \in used THEN guards[k] \cup {b} ELSE guards[k]]
            /\ IF LS = {b} THEN NextLoop ELSE UNCHANGED <<phase, at>>
      /\ applyBranchLS' = [x \in LS \ {b} |-> applyBranchLS[x]]
      /\ UNCHANGED <<bounds, inits, applyBranchEnd, applyBranchInit>>
      /\ phase = "apply"
  BY <1>2 DEF ApplyBranch, UsedBy
<1>5. PICK base \in [K -> Nat] :
        /\ \A c \in LS : applyBranchLS[c] = {<<k, base[k]>> : k \in ListedAt(at, c)}
        /\ \A k \in K :
             base[k] <= version[k] /\ (base[k] < version[k] <=> \E l \in Done : k \in StoresAt(at, l))
  BY DEF Applying
<1>6. applyBranchLS[b] = {<<k, base[k]>> : k \in ListedAt(at, b)}
  BY <1>3, <1>5
<1>7. version \in [K -> Nat]
  BY DEF Applying
<1>8. used = GuardedAt(at, b)
  BY <1>2, <1>3, UsedIs
<1>9. CASE Freed(b) /\ phase' = "undefined"
  <2>1. PICK s \in ListedAt(at, b) : version[s] # base[s]
    BY <1>6, <1>9 DEF Freed
  <2>2. s \in K
    BY GuardedIs
  <2>3. base[s] < version[s]
    BY <1>5, <1>7, <2>1, <2>2
  <2>4. PICK l \in Done : s \in StoresAt(at, l)
    BY <1>5, <2>2, <2>3
  <2>5. s \in StoresAt(at, b)
    BY <2>1, <2>4, GuardedIs
  <2>6. l \in Pads(loop) /\ l # b
    BY <1>3 DEF Done
  <2>7. StoreShared
    BY <1>1, <1>3, <2>4, <2>5, <2>6 DEF StoreShared
  <2> QED
    BY <1>9, <2>7
<1>10. CASE used # {} /\ ~HasFinalCmp(b) /\ phase' = "crashed"
  <2>1. ~GuardFound(at, b) /\ GuardedAt(at, b) # {}
    BY <1>3, <1>8, <1>10, FinalIs
  <2>2. NullGuard
    BY <1>1, <1>3, <2>1 DEF NullGuard
  <2> QED
    BY <1>10, <2>2
<1>11. CASE /\ ~Freed(b) /\ (used = {} \/ HasFinalCmp(b))
            /\ version' = [k \in K |->
                             IF k \in used /\ prog.access[k].store THEN version[k] + 1 ELSE version[k]]
            /\ guards' = [k \in K |-> IF k \in used THEN guards[k] \cup {b} ELSE guards[k]]
            /\ IF LS = {b} THEN NextLoop ELSE UNCHANGED <<phase, at>>
  <2>1. PICK v2 : v2 = version'
    OBVIOUS
  <2>2. PICK g2 : g2 = guards'
    OBVIOUS
  <2>3. PICK D2 : D2 = With(b)
    OBVIOUS
  <2>4. /\ version' = [k \in K |->
                  IF k \in UsedBy(b) /\ prog.access[k].store THEN version[k] + 1 ELSE version[k]]
        /\ guards' = [k \in K |-> IF k \in UsedBy(b) THEN guards[k] \cup {b} ELSE guards[k]]
        /\ ~Freed(b) /\ (UsedBy(b) = {} \/ HasFinalCmp(b))
    BY <1>2, <1>11
  <2>5. /\ D2 = Pads(loop) \ (LS \ {b})
        /\ Harmless(at, D2)
        /\ g2 = [k \in K |-> GuardedBefore(at, k) \cup {l \in D2 : k \in GuardedAt(at, l)}]
        /\ v2 \in [K -> Nat]
        /\ \A k \in K : v2[k] > 0 <=> ReplacedBefore(at, k) \/ \E l \in D2 : k \in StoresAt(at, l)
        /\ \E base2 \in [K -> Nat] :
             /\ \A c \in LS : applyBranchLS[c] = {<<k, base2[k]>> : k \in ListedAt(at, c)}
             /\ \A k \in K :
                  base2[k] <= v2[k] /\ (base2[k] < v2[k] <=> \E l \in D2 : k \in StoresAt(at, l))
    BY <1>3, <2>1, <2>2, <2>3, <2>4, AppliedOne
  <2>6. /\ Clean(at) /\ NoneFound(at) /\ GuardsAt
        /\ bounds = conditionals \ (prog.secret \cap (Earlier(at) \cup Pads(loop)))
        /\ applyBranchEnd = (prog.secret \cap Pads(loop)) \ Earlier(at)
        /\ applyBranchInit = Starts(at)
        /\ inits = (prog.first \ StartsBefore(at)) \ Starts(at)
        /\ \A c \in Pads(loop) : prog.cond[c] = 0
    BY DEF Applying, InTurn
  <2>7. CASE LS = {b}
    <3>1. phase' = "loop" /\ at' = at + 1
      BY <1>11, <2>7 DEF NextLoop
    <3>2. D2 = Pads(loop)
      BY <2>5, <2>7
    <3>3. /\ bounds' = conditionals \ (prog.secret \cap (Earlier(at) \cup Pads(loop)))
          /\ inits' = (prog.first \ StartsBefore(at)) \ Starts(at)
      BY <1>4, <2>6
    <3>4. BetweenTurns'
      BY <1>1, <2>1, <2>2, <2>5, <2>6, <3>1, <3>2, <3>3, NextTurn DEF Ready
    <3> QED
      BY <3>1, <3>4
  <2>8. CASE LS # {b}
    <3>1. phase' = "apply" /\ at' = at
      BY <1>4, <1>11, <2>8
    <3>2. /\ loop' = loop /\ conditionals' = conditionals /\ K' = K
          /\ prog' = prog /\ allLoopsVector' = allLoopsVector
          /\ Pads(loop)' = Pads(loop) /\ Earlier(at)' = Earlier(at)
          /\ StartsBefore(at)' = StartsBefore(at) /\ Starts(at)' = Starts(at)
          /\ Clean(at)' /\ NoneFound(at)' /\ GuardsAt'
          /\ \A c \in Pads(loop) :
               /\ ListedAt(at, c)' = ListedAt(at, c) /\ GuardedAt(at, c)' = GuardedAt(at, c)
               /\ StoresAt(at, c)' = StoresAt(at, c)
          /\ \A k : GuardedBefore(at, k)' = GuardedBefore(at, k)
          /\ \A k : ReplacedBefore(at, k)' <=> ReplacedBefore(at, k)
          /\ \A S \in SUBSET Pads(loop) : Harmless(at, S)' <=> Harmless(at, S)
      BY <1>1, <2>6, <3>1, TurnStays DEF Ready
    <3>3. (DOMAIN applyBranchLS)' = LS \ {b} /\ D2 \subseteq Pads(loop)
      BY <1>4, <2>5
    <3>4. Done' = D2
      BY <2>5, <3>2, <3>3 DEF Done
    <3>5. InTurn' /\ at' \in 1..(Len(allLoopsVector') + 1)
      BY <1>1, <3>1, <3>2 DEF InTurn
    <3>6. Harmless(at, Done)'
      <4>1. Harmless(at, D2)'
        BY <2>5, <3>2, <3>3
      <4> QED
        BY <3>4, <4>1
    <3>7. guards' = [k \in accesses |-> GuardedBefore(at, k) \cup {l \in Done : k \in GuardedAt(at, l)}]'
      <4>1. ASSUME NEW k
            PROVE  {l \in Done : k \in GuardedAt(at, l)}' = {l \in D2 : k \in GuardedAt(at, l)}
        BY <3>2, <3>3, <3>4
      <4> QED
        BY <2>2, <2>5, <3>2, <4>1
    <3>8. ASSUME NEW k
          PROVE (\E l \in Done : k \in StoresAt(at, l))' <=> \E l \in D2 : k \in StoresAt(at, l)
      BY <3>2, <3>3, <3>4
    <3>9. \A k \in accesses' :
            version'[k] > 0 <=> ReplacedBefore(at, k)' \/ (\E l \in Done : k \in StoresAt(at, l))'
      BY <2>1, <2>5, <3>2, <3>8
    <3>10. PICK base2 \in [K -> Nat] :
             /\ \A c \in LS : applyBranchLS[c] = {<<k, base2[k]>> : k \in ListedAt(at, c)}
             /\ \A k \in K :
                  base2[k] <= v2[k] /\ (base2[k] < v2[k] <=> \E l \in D2 : k \in StoresAt(at, l))
      BY <2>5
    <3>11. ASSUME NEW c \in (DOMAIN applyBranchLS)'
           PROVE  applyBranchLS'[c] = {<<k, base2[k]>> : k \in ListedAt(at, c)}'
      <4>1. c \in LS /\ c \in Pads(loop)
        BY <1>3, <3>3
      <4>2. ListedAt(at, c)' = ListedAt(at, c)
        BY <3>2, <4>1
      <4>3. applyBranchLS'[c] = applyBranchLS[c]
        BY <1>4, <3>3
      <4> QED
        BY <3>10, <4>1, <4>2, <4>3
    <3>12. \A k \in accesses' :
             base2[k] <= version'[k]
             /\ (base2[k] < version'[k] <=> (\E l \in Done : k \in StoresAt(at, l))')
      BY <2>1, <3>2, <3>8, <3>10
    <3>13. (\E base1 \in [accesses -> Nat] :
              /\ \A c \in DOMAIN applyBranchLS :
                   applyBranchLS[c] = {<<k, base1[k]>> : k \in ListedAt(at, c)}
              /\ \A k \in accesses :
                   base1[k] <= version[k]
                   /\ (base1[k] < version[k] <=> \E l \in Done : k \in StoresAt(at, l)))'
      BY <3>2, <3>10, <3>11, <3>12
    <3>14. /\ (DOMAIN applyBranchLS)' # {} /\ (DOMAIN applyBranchLS)' \subseteq Pads(loop)'
           /\ applyBranchEnd' = ((prog.secret \cap Pads(loop)) \ Earlier(at))'
           /\ bounds' = (conditionals \ (prog.secret \cap (Earlier(at) \cup Pads(loop))))'
           /\ applyBranchInit' = Starts(at)'
           /\ inits' = ((prog.first \ StartsBefore(at)) \ Starts(at))'
           /\ version' \in [accesses -> Nat]'
           /\ \A c \in Pads(loop)' : prog'.cond[c] = 0
      BY <1>3, <1>4, <2>1, <2>5, <2>6, <2>8, <3>2, <3>3
    <3>15. Applying'
      BY <3>2, <3>5, <3>6, <3>7, <3>9, <3>13, <3>14 DEF Applying
    <3> QED
      BY <3>1, <3>15
  <2> QED
    BY <2>7, <2>8
<1> QED
  BY <1>4, <1>9, <1>10, <1>11

-----------------------------------------------------------------------------
(* The pass, step by step.                                                  *)

\* No step changes the function, the program or the order of the loops.
LEMMA PassSame == [PassNext]_passVars => Same
<1> SUFFICES ASSUME [PassNext]_passVars PROVE Same
  OBVIOUS
<1>1. g' = g
  <2>1. [Next]_vars
    BY PassStepWalks
  <2> QED
    BY <2>1 DEF Next, Visit, Unwind, Search, Halt, vars, VisitUnconditional, VisitLatch,
     VisitConditional, VisitOther, VisitJoined, UnwindNoPostDominator, UnwindEmptyThen,
     UnwindRedirect, UnwindSearch, SearchFollow, SearchSplit, ReplaceTerminators
<1>2. CASE Serialize \/ ModifyPhis \/ RebuildTerminators \/ CollectInputs \/ Return
  BY <1>1, <1>2 DEF Serialize, ModifyPhis, RebuildTerminators, CollectInputs, Return, loopVars, Same
<1>3. CASE StartLoop \/ CollectIndex \/ Collected \/ \E b \in g.block : ApplyBranch(b)
  BY <1>1, <1>3 DEF StartLoop, CollectIndex, Collected, ApplyBranch, Same
<1>4. CASE PassHalt \/ UNCHANGED passVars
  BY <1>1, <1>4 DEF PassHalt, passVars, loopVars, Same
<1> QED
  BY <1>2, <1>3, <1>4 DEF PassNext

\* Whether a program has a hazard is fixed from the start.
LEMMA HazardStays ==
  ASSUME Listing, Same
  PROVE  /\ Hazard' <=> Hazard
         /\ PhiErased' <=> PhiErased
         /\ PhiAlone' <=> PhiAlone
         /\ LoopPhis' = LoopPhis
<1>0. /\ g' = g /\ prog' = prog /\ latches' = latches /\ allLoopsVector' = allLoopsVector
      /\ LoopPhis' = LoopPhis /\ Turns = 1..Len(allLoopsVector) /\ Turns' = Turns
  BY SetsStay, LoopsAre DEF Same, Listing, Turns
<1>1. \A m : Pads(m)' = Pads(m)
  BY PadsStay DEF Listing
<1>2. ASSUME NEW i \in Turns
      PROVE  /\ Pads(allLoopsVector[i])' = Pads(allLoopsVector[i])
             /\ \A l \in Pads(allLoopsVector[i]) :
                  /\ GuardedAt(i, l)' = GuardedAt(i, l)
                  /\ StoresAt(i, l)' = StoresAt(i, l)
                  /\ GuardFound(i, l)' <=> GuardFound(i, l)
  BY <1>0, AtStay
<1>3. NullGuard' <=> NullGuard
  BY <1>0, <1>2 DEF NullGuard
<1>4. StoreShared' <=> StoreShared
  BY <1>0, <1>2 DEF StoreShared
<1>5. StoreStale' <=> StoreStale
  BY <1>0, <1>2 DEF StoreStale
<1>6. NotCompared' <=> NotCompared
  BY <1>0, <1>1 DEF NotCompared
<1>7. PhiErased' <=> PhiErased
  BY <1>0 DEF PhiErased
<1>8. PhiAlone' <=> PhiAlone
  BY <1>0 DEF PhiAlone
<1> QED
  BY <1>0, <1>3, <1>4, <1>5, <1>6, <1>7, <1>8 DEF Hazard

\* The search's flow is the same when the function is.
LEMMA FlowStays ==
  ASSUME Compiling, Same, NEW br, NEW own, NEW by
  PROVE  FlowFrom(<<Argument>>, br, own, by)' = FlowFrom(<<Argument>>, br, own, by)
<1>1. g' = g /\ prog' = prog /\ AllValues' = AllValues /\ accesses' = accesses
  BY SetsStay DEF Same
<1>2. \A x : UsersOf(x, br, own, by)' = UsersOf(x, br, own, by)
  BY <1>1 DEF UsersOf
<1>3. Argument' = Argument
  BY DEF Argument
<1> QED
  BY <1>1, <1>2, <1>3 DEF FlowFrom, InSomeOrder

\* When the terminators are built anew, the condition of some branch is freed
\* if and only if a latch's is a phi that was replaced.
LEMMA ErasedIs ==
  ASSUME Compiling, IInv, LInv, Plain, Supported(g), pc = "done", replaced = prog.phi \ LoopPhis
  PROVE  (\E b \in DOMAIN serializedCode : FreedCondition(b)) <=> PhiErased
<1>1. /\ Fit(g, End) /\ Null \notin g.block /\ WellFormed(g) /\ End \in g.ret
      /\ \A b \in g.block : b = End \/ b \in DOMAIN serializedCode
  BY SupportedIs, FunctionIs, AllPlaced DEF IInv
<1>2. latches \subseteq g.block
  BY AccessesAre
<1>3. End \notin latches
  <2>1. g.succ[End] = <<>> /\ SuccSet(g, End) = {}
    BY <1>1, Successors DEF WellFormed, SuccSet
  <2> QED
    BY <1>1, <1>2, <2>1, LatchIs DEF latches
<1>4. ASSUME NEW l \in latches PROVE l \in DOMAIN serializedCode /\ serializedCode[l].cond = l /\ l # Null
  <2>1. l \in DOMAIN serializedCode /\ l # Null
    BY <1>1, <1>2, <1>3
  <2>2. serializedCode[l] = newBranch(l, g.succ[l][1], g.succ[l][2])
    BY <2>1 DEF LInv, Kept, latches
  <2> QED
    BY <2>1, <2>2 DEF newBranch
<1>5. \A x : x \in replaced <=> x \in prog.phi /\ Preds(g, x) \cap latches = {}
  BY DEF LoopPhis
<1>6. ASSUME NEW b \in DOMAIN serializedCode, FreedCondition(b) PROVE PhiErased
  <2>1. b \in latches
    BY <1>6 DEF FreedCondition, Plain
  <2> QED
    BY <1>4, <1>5, <1>6, <2>1 DEF FreedCondition, PhiErased
<1>7. ASSUME PhiErased PROVE \E b \in DOMAIN serializedCode : FreedCondition(b)
  BY <1>4, <1>5, <1>7 DEF FreedCondition, PhiErased
<1> QED
  BY <1>6, <1>7

\* What the search is on stays, when the branches do.
LEMMA SearchStays ==
  ASSUME Compiling, Same, UNCHANGED <<code, flow>>, SearchOf(conditionals)
  PROVE  SearchOf(conditionals)'
<1>1. PICK br : br = code
  OBVIOUS
<1>2. PICK own : own = conditionals
  OBVIOUS
<1>3. PICK by : by = Unguarded
  OBVIOUS
<1>4. code' = br /\ conditionals' = own /\ Unguarded' = by
  BY <1>1, <1>2, <1>3, SetsStay DEF Unguarded
<1>5. FlowFrom(<<Argument>>, br, own, by)' = FlowFrom(<<Argument>>, br, own, by)
  BY FlowStays
<1>6. FlowFrom(<<Argument>>, code, conditionals, Unguarded)' = FlowFrom(<<Argument>>, br, own, by)'
  BY <1>4 DEF FlowFrom
<1>7. flow = FlowFrom(<<Argument>>, br, own, by)
  BY <1>1, <1>2, <1>3 DEF SearchOf
<1> QED
  BY <1>5, <1>6, <1>7 DEF SearchOf

\* Before the first turn nothing has been done.
LEMMA InitTurns == PassInit => TurnInv
<1> SUFFICES ASSUME PassInit, Supported(g) PROVE TurnsRight /\ Prepared
  BY DEF PassInit, TurnInv
<1>1. Listing /\ Compiling /\ allLoopsVector \in AllLoops(g) /\ phase = "serialize"
  BY DEF PassInit, Compiling, Listing
<1>2. Len(allLoopsVector) \in Nat
  BY <1>1, LoopsAre
<1>3. /\ at = 1 /\ bounds = conditionals /\ inits = prog.first
      /\ version = [k \in accesses |-> 0] /\ guards = [k \in accesses |-> {}]
  BY DEF PassInit
<1>4. GuardsAt
  <2>1. GuardsBefore[1] = [k \in accesses |-> {}]
    BY <1>1, GuardsAre DEF GuardsRecur, Unguarded
  <2> QED
    BY <1>3, <2>1, NoTurnYet DEF GuardsAt
<1>5. Applied
  BY <1>2, <1>3, <1>4, NoTurnYet DEF Applied
<1>6. BetweenTurns
  <2>1. at - 1 = 0
    BY <1>3
  <2>2. NoneFound(at - 1)
    BY <2>1, NoTurnYet
  <2> QED
    BY <1>3, <1>5, <2>2, NoTurnYet DEF BetweenTurns
<1> QED
  BY <1>1, <1>3, <1>6 DEF TurnsRight, Prepared, Before

\* The steps before the turns.
LEMMA EarlyStep ==
  ASSUME Phases, IInv, LInv, LInv', Plain, Supported(g), TurnInv, Same,
         Serialize \/ ModifyPhis \/ RebuildTerminators \/ CollectInputs \/ Return
  PROVE  TurnsRight' /\ Prepared'
<1>1. Listing /\ Compiling /\ TurnsRight /\ Prepared
  BY DEF Phases, Compiling, Listing, TurnInv
<1>2. /\ Hazard' <=> Hazard
      /\ PhiErased' <=> PhiErased
      /\ PhiAlone' <=> PhiAlone
      /\ LoopPhis' = LoopPhis /\ conditionals' = conditionals /\ accesses' = accesses
  BY <1>1, HazardStays, SetsStay
<1>3. UNCHANGED <<at, bounds, inits, version, guards, allLoopsVector>> /\ g' = g /\ prog' = prog
  BY DEF Serialize, ModifyPhis, RebuildTerminators, CollectInputs, Return, loopVars, Same
<1>4. phase \in Before \cup {"taint", "loop"} /\ BetweenTurns'
  <2>1. phase \in Before \cup {"taint", "loop"}
    BY DEF Serialize, ModifyPhis, RebuildTerminators, CollectInputs, Return, Before
  <2>2. BetweenTurns
    BY <1>1, <2>1 DEF TurnsRight
  <2> QED
    BY <1>1, <1>3, <2>1, <2>2, BetweenStay
<1>5. CASE Serialize
  <2>1. phase = "serialize" /\ at = 1
    BY <1>1, <1>5 DEF Serialize, TurnsRight, Before
  <2>2. pc' # "crashed"
    BY <1>3 DEF LInv, Smooth
  <2>3. phase' \in {"serialize", "phis"}
    BY <1>5, <2>1, <2>2 DEF Serialize
  <2> QED
    BY <1>3, <1>4, <2>1, <2>3 DEF TurnsRight, Prepared, Before
<1>6. CASE ModifyPhis
  <2>1. phase = "phis" /\ at = 1
    BY <1>1, <1>6 DEF ModifyPhis, TurnsRight, Before
  <2>2. phase' = IF PhiAlone THEN "crashed" ELSE "terminators"
    BY <1>6 DEF ModifyPhis, PhiAlone
  <2> QED
    BY <1>2, <1>3, <1>4, <2>1, <2>2 DEF TurnsRight, Prepared, Before, Hazard
<1>7. CASE RebuildTerminators
  <2>1. phase = "terminators" /\ at = 1 /\ ~PhiAlone
    BY <1>1, <1>7 DEF RebuildTerminators, TurnsRight, Prepared, Before
  <2>2. /\ pc = "done" /\ pc' = "replaced" /\ replaced = prog.phi \ LoopPhis /\ bounds = conditionals
    BY <1>7, <2>1 DEF RebuildTerminators, ReplaceTerminators, Phases, Before
  <2>3. (\E b \in DOMAIN serializedCode : FreedCondition(b)) <=> PhiErased
    BY <1>1, <2>2, ErasedIs
  <2>4. IF PhiErased THEN phase' = "undefined"
                     ELSE phase' = "taint" /\ flow' = FlowFrom(<<Argument>>, code', conditionals, Unguarded)
    <3>1. BetweenTurns
      BY <1>1, <2>1 DEF TurnsRight, Before
    <3>2. guards = Unguarded
      BY <2>1, <3>1, NoTurnYet DEF BetweenTurns, Applied, Unguarded
    <3> QED
      BY <1>7, <2>2, <2>3, <3>2 DEF RebuildTerminators
  <2>5. ASSUME ~PhiErased PROVE SearchOf(conditionals)'
    <3>1. PICK br : br = code'
      OBVIOUS
    <3>2. PICK own : own = conditionals
      OBVIOUS
    <3>3. PICK by : by = Unguarded
      OBVIOUS
    <3>4. FlowFrom(<<Argument>>, br, own, by)' = FlowFrom(<<Argument>>, br, own, by)
      BY <1>1, FlowStays
    <3>5. Unguarded' = by
      BY <1>2, <3>3 DEF Unguarded
    <3>6. FlowFrom(<<Argument>>, code, conditionals, Unguarded)' = FlowFrom(<<Argument>>, br, own, by)'
      BY <1>2, <3>1, <3>2, <3>5 DEF FlowFrom
    <3>7. flow' = FlowFrom(<<Argument>>, br, own, by)
      BY <2>4, <2>5, <3>1, <3>2, <3>3
    <3> QED
      BY <3>4, <3>6, <3>7 DEF SearchOf
  <2> QED
    BY <1>2, <1>3, <1>4, <2>1, <2>2, <2>4, <2>5 DEF TurnsRight, Prepared, Before, Hazard
<1>8. CASE CollectInputs
  <2>1. phase = "taint" /\ at = 1 /\ ~PhiAlone /\ ~PhiErased /\ pc = "replaced" /\ SearchOf(conditionals)
    BY <1>1, <1>8 DEF CollectInputs, TurnsRight, Prepared, Before
  <2>2. UNCHANGED vars /\ flow' = flow
    BY <1>8 DEF CollectInputs, Searching, CallRoot, CallUser, SkipUser, ReturnUser, taintVars
  <2>3. SearchOf(conditionals)' /\ pc' = "replaced"
    BY <1>1, <2>1, <2>2, SearchStays DEF vars
  <2>4. phase' = "taint" \/ (phase' = "loop" /\ Searched')
    <3>1. CASE Searched
      BY <1>8, <3>1 DEF CollectInputs, Searched, taintVars
    <3>2. CASE ~Searched
      BY <1>8, <2>1, <3>2 DEF CollectInputs
    <3> QED
      BY <3>1, <3>2
  <2> QED
    BY <1>2, <1>3, <1>4, <2>1, <2>3, <2>4 DEF TurnsRight, Prepared, Before
<1>9. CASE Return
  <2>1. /\ phase = "loop" /\ ~PhiAlone /\ ~PhiErased /\ pc = "replaced" /\ SearchOf(conditionals)
        /\ Searched /\ phase' = "end" /\ at > Len(allLoopsVector)
        /\ UNCHANGED <<vars, taintVars>>
    BY <1>1, <1>9 DEF Return, TurnsRight, Prepared, Before
  <2>2. SearchOf(conditionals)' /\ pc' = "replaced" /\ Searched'
    BY <1>1, <2>1, SearchStays DEF vars, taintVars, Searched
  <2> QED
    BY <1>2, <1>3, <1>4, <2>1, <2>2 DEF TurnsRight, Prepared, Before
<1> QED
  BY <1>5, <1>6, <1>7, <1>8, <1>9

\* The steps of the turns.
LEMMA TurnStep ==
  ASSUME Phases, IInv, LInv, Plain, SearchInv, Supported(g), TurnInv, Same,
         StartLoop \/ CollectIndex \/ Collected \/ \E b \in g.block : ApplyBranch(b)
  PROVE  TurnsRight' /\ Prepared'
<1>1. Listing /\ Compiling /\ TurnsRight /\ Prepared
  BY DEF Phases, Compiling, Listing, TurnInv
<1>2. /\ Hazard' <=> Hazard
      /\ PhiErased' <=> PhiErased
      /\ PhiAlone' <=> PhiAlone
  BY <1>1, HazardStays
<1>3. /\ phase \in {"loop", "collect", "apply"} /\ UNCHANGED <<vars, taintVars>>
      /\ StartLoop => phase = "loop"
      /\ CollectIndex \/ Collected => phase = "collect"
      /\ (\E b \in g.block : ApplyBranch(b)) => phase = "apply"
  BY DEF StartLoop, CollectIndex, Collected, ApplyBranch
<1>4. Ready /\ ~PhiAlone /\ ~PhiErased
  BY <1>1, <1>3 DEF Prepared, Ready, Phases
<1>5. SearchOf(conditionals)' /\ pc' = "replaced" /\ Searched'
  BY <1>1, <1>3, <1>4, SearchStays DEF Ready, vars, taintVars, Searched
<1>6. \/ phase' \in {"crashed", "undefined"} /\ Hazard
      \/ phase' = "loop" /\ BetweenTurns'
      \/ phase' = "collect" /\ Collecting'
      \/ phase' = "apply" /\ Applying'
  <2>1. CASE StartLoop
    <3>1. BetweenTurns
      BY <1>1, <1>3, <2>1 DEF TurnsRight
    <3> QED
      BY <1>4, <2>1, <3>1, StartStep DEF Hazard
  <2>2. CASE CollectIndex
    <3>1. Collecting
      BY <1>1, <1>3, <2>2 DEF TurnsRight
    <3> QED
      BY <1>4, <2>2, <3>1, CollectStep DEF Hazard
  <2>3. CASE Collected
    <3>1. Collecting
      BY <1>1, <1>3, <2>3 DEF TurnsRight
    <3> QED
      BY <1>4, <2>3, <3>1, CollectedStep
  <2>4. CASE \E b \in g.block : ApplyBranch(b)
    <3>1. Applying
      BY <1>1, <1>3, <2>4 DEF TurnsRight
    <3>2. PICK b \in g.block : ApplyBranch(b)
      BY <2>4
    <3> QED
      BY <1>4, <3>1, <3>2, ApplyStep DEF Hazard
  <2> QED
    BY <2>1, <2>2, <2>3, <2>4
<1> QED
  BY <1>2, <1>4, <1>5, <1>6 DEF TurnsRight, Prepared, Before

\* A step that does nothing, in the middle of a turn.
LEMMA RestInTurn ==
  ASSUME Listing, UNCHANGED passVars
  PROVE  /\ Collecting => Collecting'
         /\ Applying => Applying'
<1> DEFINE K == accesses
           LS == DOMAIN applyBranchLS
<1>1. /\ Same /\ at' = at /\ applyBranchLS' = applyBranchLS /\ applyBranchEnd' = applyBranchEnd
      /\ applyBranchInit' = applyBranchInit /\ inits' = inits
      /\ bounds' = bounds /\ version' = version /\ guards' = guards /\ indexes' = indexes
      /\ InputBrs' = InputBrs
  BY DEF Same, passVars, vars, loopVars
<1>2. ASSUME at \in 1..Len(allLoopsVector)
      PROVE  /\ loop' = loop /\ ArraysLoop' = ArraysLoop /\ Inputs' = Inputs
             /\ conditionals' = conditionals /\ accesses' = accesses
             /\ prog' = prog /\ allLoopsVector' = allLoopsVector
             /\ Pads(loop)' = Pads(loop) /\ Earlier(at)' = Earlier(at)
             /\ StartsBefore(at)' = StartsBefore(at) /\ Starts(at)' = Starts(at)
             /\ Clean(at)' <=> Clean(at)
             /\ NoneFound(at)' <=> NoneFound(at)
             /\ GuardsAt' <=> GuardsAt
             /\ \A k \in K : PadsBy(loop, k)' = PadsBy(loop, k)
             /\ \A b \in Pads(loop) :
                  /\ ListedAt(at, b)' = ListedAt(at, b) /\ GuardedAt(at, b)' = GuardedAt(at, b)
                  /\ StoresAt(at, b)' = StoresAt(at, b)
             /\ \A k : GuardedBefore(at, k)' = GuardedBefore(at, k)
             /\ \A k : ReplacedBefore(at, k)' <=> ReplacedBefore(at, k)
             /\ \A S \in SUBSET Pads(loop) : Harmless(at, S)' <=> Harmless(at, S)
  BY <1>1, <1>2, TurnStays
<1>3. Len(allLoopsVector) \in Nat
  BY LoopsAre DEF Listing
<1>4. ASSUME Collecting PROVE Collecting'
  <2>1. at \in 1..Len(allLoopsVector)
    BY <1>3, <1>4 DEF Collecting, InTurn, Applied
  <2>2. ArraysLoop \subseteq K
    BY DEF ArraysLoop
  <2>3. (UNION {PadsBy(loop, k) : k \in ArraysLoop \ indexes})'
          = UNION {PadsBy(loop, k) : k \in ArraysLoop \ indexes}
    BY <1>1, <1>2, <2>1, <2>2
  <2>4. LS \subseteq Pads(loop)
    BY <1>4, <2>2 DEF Collecting, Pads
  <2>5. ASSUME NEW b \in LS
        PROVE  {<<k, version[k]>> : k \in ListedAt(at, b)}'
                 = {<<k, version[k]>> : k \in ListedAt(at, b)}
    <3>1. PICK G : G = ListedAt(at, b)
      OBVIOUS
    <3>2. ListedAt(at, b)' = G
      BY <1>2, <2>1, <2>4, <3>1
    <3> QED
      BY <1>1, <3>1, <3>2
  <2>6. \A b \in LS' : applyBranchLS'[b] = {<<k, version[k]>> : k \in ListedAt(at, b)}'
    BY <1>1, <1>4, <2>5 DEF Collecting
  <2>7. SeenIn(ArraysLoop \ indexes)' = SeenIn(ArraysLoop \ indexes)
    BY <1>1, <1>2, <2>1 DEF SeenIn
  <2>8. Applied' /\ InTurn'
    BY <1>1, <1>2, <1>4, <2>1 DEF Collecting, Applied, InTurn
  <2>9. /\ LS = UNION {PadsBy(loop, k) : k \in ArraysLoop \ indexes}
        /\ InputBrs = Inputs
        /\ indexes \subseteq ArraysLoop
        /\ \A k \in ArraysLoop \ indexes : \A i \in indexes : k < i
        /\ \A b \in LS : prog.cond[b] = 0
        /\ applyBranchEnd = (prog.secret \cap LS) \ Earlier(at)
        /\ bounds = conditionals \ (prog.secret \cap (Earlier(at) \cup LS))
        /\ applyBranchInit = SeenIn(ArraysLoop \ indexes)
        /\ inits = (prog.first \ StartsBefore(at)) \ SeenIn(ArraysLoop \ indexes)
    BY <1>4 DEF Collecting
  <2>10. /\ LS' = (UNION {PadsBy(loop, k) : k \in ArraysLoop \ indexes})'
         /\ InputBrs' = Inputs'
         /\ indexes' \subseteq ArraysLoop'
         /\ \A k \in (ArraysLoop \ indexes)' : \A i \in indexes' : k < i
         /\ \A b \in LS' : prog'.cond[b] = 0
         /\ applyBranchEnd' = ((prog.secret \cap LS) \ Earlier(at))'
         /\ bounds' = (conditionals \ (prog.secret \cap (Earlier(at) \cup LS)))'
         /\ applyBranchInit' = SeenIn(ArraysLoop \ indexes)'
         /\ inits' = ((prog.first \ StartsBefore(at)) \ SeenIn(ArraysLoop \ indexes))'
    BY <1>1, <1>2, <2>1, <2>3, <2>7, <2>9
  <2> QED
    BY <2>6, <2>8, <2>10 DEF Collecting
<1>5. ASSUME Applying PROVE Applying'
  <2>1. /\ at \in 1..Len(allLoopsVector) /\ at \in 1..(Len(allLoopsVector) + 1)
        /\ InTurn /\ Clean(at) /\ GuardsAt
        /\ LS # {} /\ LS \subseteq Pads(loop)
        /\ applyBranchEnd = (prog.secret \cap Pads(loop)) \ Earlier(at)
        /\ bounds = conditionals \ (prog.secret \cap (Earlier(at) \cup Pads(loop)))
        /\ applyBranchInit = Starts(at)
        /\ inits = (prog.first \ StartsBefore(at)) \ Starts(at)
        /\ Harmless(at, Done)
        /\ \A b \in Pads(loop) : prog.cond[b] = 0
        /\ guards = [k \in K |-> GuardedBefore(at, k) \cup {l \in Done : k \in GuardedAt(at, l)}]
        /\ version \in [K -> Nat]
        /\ \A k \in K : version[k] > 0 <=> ReplacedBefore(at, k) \/ \E l \in Done : k \in StoresAt(at, l)
    BY <1>3, <1>5 DEF Applying, InTurn
  <2>2. PICK base \in [K -> Nat] :
          /\ \A b \in LS : applyBranchLS[b] = {<<k, base[k]>> : k \in ListedAt(at, b)}
          /\ \A k \in K :
               base[k] <= version[k]
               /\ (base[k] < version[k] <=> \E l \in Done : k \in StoresAt(at, l))
    BY <1>5 DEF Applying
  <2>3. Done' = Done /\ Done \subseteq Pads(loop)
    BY <1>1, <1>2, <2>1 DEF Done
  <2>4. ASSUME NEW k
        PROVE  /\ {l \in Done : k \in GuardedAt(at, l)}' = {l \in Done : k \in GuardedAt(at, l)}
               /\ (\E l \in Done : k \in StoresAt(at, l))' <=> \E l \in Done : k \in StoresAt(at, l)
    BY <1>2, <2>1, <2>3
  <2>5. Harmless(at, Done)'
    <3>1. PICK S : S = Done
      OBVIOUS
    <3>2. Harmless(at, S)' /\ Done' = S
      BY <1>2, <2>1, <2>3, <3>1
    <3> QED
      BY <3>2
  <2>6. guards' = [k \in K |-> GuardedBefore(at, k) \cup {l \in Done : k \in GuardedAt(at, l)}]'
    BY <1>1, <1>2, <2>1, <2>4
  <2>7. \A k \in K' :
          version'[k] > 0 <=> ReplacedBefore(at, k)' \/ (\E l \in Done : k \in StoresAt(at, l))'
    BY <1>1, <1>2, <2>1, <2>4
  <2>8. ASSUME NEW b \in LS'
        PROVE  applyBranchLS'[b] = {<<k, base[k]>> : k \in ListedAt(at, b)}'
    <3>1. b \in LS /\ ListedAt(at, b)' = ListedAt(at, b)
      BY <1>1, <1>2, <2>1
    <3> QED
      BY <1>1, <2>2, <3>1
  <2>9. \A k \in K' :
          base[k] <= version'[k]
          /\ (base[k] < version'[k] <=> (\E l \in Done : k \in StoresAt(at, l))')
    BY <1>1, <1>2, <2>1, <2>2, <2>4
  <2>10. (\E base1 \in [accesses -> Nat] :
            /\ \A b \in DOMAIN applyBranchLS :
                 applyBranchLS[b] = {<<k, base1[k]>> : k \in ListedAt(at, b)}
            /\ \A k \in accesses :
                 base1[k] <= version[k]
                 /\ (base1[k] < version[k] <=> \E l \in Done : k \in StoresAt(at, l)))'
    BY <1>2, <2>1, <2>2, <2>8, <2>9
  <2>11. /\ InTurn' /\ at' \in 1..(Len(allLoopsVector') + 1) /\ Clean(at)' /\ GuardsAt'
         /\ LS' # {} /\ LS' \subseteq Pads(loop)'
         /\ applyBranchEnd' = ((prog.secret \cap Pads(loop)) \ Earlier(at))'
         /\ bounds' = (conditionals \ (prog.secret \cap (Earlier(at) \cup Pads(loop))))'
         /\ applyBranchInit' = Starts(at)'
         /\ inits' = ((prog.first \ StartsBefore(at)) \ Starts(at))'
         /\ \A b \in Pads(loop)' : prog'.cond[b] = 0
         /\ version' \in [K -> Nat]'
    BY <1>1, <1>2, <2>1 DEF InTurn
  <2> QED
    BY <2>5, <2>6, <2>7, <2>10, <2>11 DEF Applying
<1> QED
  BY <1>4, <1>5

\* A stuttering step keeps the turns right.
LEMMA RestStep ==
  ASSUME Listing, TurnsRight, Prepared, UNCHANGED passVars
  PROVE  TurnsRight' /\ Prepared'
<1>1. /\ Same /\ UNCHANGED <<vars, taintVars, prog, phase, replaced>>
      /\ at' = at /\ bounds' = bounds /\ inits' = inits /\ version' = version /\ guards' = guards
      /\ Compiling
  BY DEF Same, passVars, vars, loopVars, Listing
<1>2. /\ Hazard' <=> Hazard
      /\ PhiErased' <=> PhiErased
      /\ PhiAlone' <=> PhiAlone
      /\ allLoopsVector' = allLoopsVector
  BY <1>1, HazardStays DEF Same
<1>3. SearchOf(conditionals) => SearchOf(conditionals)'
  BY <1>1, SearchStays DEF vars, taintVars
<1>4. (Searched' <=> Searched) /\ pc' = pc
  BY <1>1 DEF Searched, taintVars, vars
<1>5. BetweenTurns => BetweenTurns'
  BY <1>1, BetweenStay
<1>6. (Collecting => Collecting') /\ (Applying => Applying')
  BY RestInTurn
<1> QED
  BY <1>1, <1>2, <1>3, <1>4, <1>5, <1>6 DEF TurnsRight, Prepared, Before

\* Every step of the pass keeps the turns right.
LEMMA NextTurns ==
  Phases /\ IInv /\ LInv /\ LInv' /\ Plain /\ SearchInv /\ TurnInv /\ [PassNext]_passVars => TurnInv'
<1> SUFFICES ASSUME Phases, IInv, LInv, LInv', Plain, SearchInv, TurnInv, [PassNext]_passVars
             PROVE  TurnInv'
  OBVIOUS
<1>1. Same /\ Compiling /\ g' = g
  BY PassSame DEF Same, Phases, Compiling
<1>2. (allLoopsVector \in AllLoops(g))'
  BY <1>1 DEF TurnInv, Same
<1>3. SUFFICES ASSUME Supported(g) PROVE TurnsRight' /\ Prepared'
  BY <1>1, <1>2 DEF TurnInv
<1>4. TurnsRight /\ Prepared /\ Listing
  BY <1>1, <1>3 DEF TurnInv, Listing
<1>5. CASE Serialize \/ ModifyPhis \/ RebuildTerminators \/ CollectInputs \/ Return
  BY <1>1, <1>3, <1>5, EarlyStep
<1>6. CASE StartLoop \/ CollectIndex \/ Collected \/ \E b \in g.block : ApplyBranch(b)
  BY <1>1, <1>3, <1>6, TurnStep
<1>7. CASE PassHalt \/ UNCHANGED passVars
  <2>1. UNCHANGED passVars
    BY <1>7 DEF PassHalt
  <2> QED
    BY <1>1, <1>4, <2>1, RestStep
<1> QED
  BY <1>5, <1>6, <1>7 DEF PassNext

\* All the invariants of the pass.
LEMMA PassTurns == PassSpec => [](Phases /\ TurnInv)
<1>1. PassSpec => []Phases
  BY PhasesInit, PhasesNext, PTL DEF PassSpec
<1>2. PassSpec => []SearchInv
  BY <1>1, PassSearchInit, PassSearchNext, PTL DEF PassSpec
<1>3. PassSpec => [](IInv /\ LInv /\ Plain)
  BY WalkInPass, SpecLine, PlainHolds, PTL
<1> QED
  BY <1>1, <1>2, <1>3, InitTurns, NextTurns, PTL DEF PassSpec

\* When the turns are over, all the loops had theirs.
LEMMA AllTurns ==
  ASSUME Listing, BetweenTurns, at > Len(allLoopsVector)
  PROVE  /\ \A j \in 1..(at - 1) : allLoopsVector[j] \in latches
         /\ \A m \in latches : \E j \in 1..(at - 1) : allLoopsVector[j] = m
         /\ at - 1 = Len(allLoopsVector) /\ Turns = 1..(at - 1)
         /\ at - 1 \in Nat /\ at \in Nat
<1>1. at = Len(allLoopsVector) + 1 /\ Len(allLoopsVector) \in Nat
  BY LoopsAre DEF Listing, BetweenTurns, Applied
<1>2. at - 1 = Len(allLoopsVector)
  BY <1>1
<1> QED
  BY <1>1, <1>2, LoopsAre DEF Listing, Turns

\* The latches that depend on an argument and on the index of a local array,
\* and no others, have lost their secret bounds when the pass comes to its end,
\* the loops whose phi indexes a local array, and no others, their secret first
\* indexes, and every access is guarded for exactly those it should be, a load
\* only for a phi of the loop, whatever order the branches of a turn were taken
\* in, of whatever loops in one another.
THEOREM PaddingIsExact == PassSpec => []PaddingExact
<1>1. ASSUME Phases, TurnInv PROVE PaddingExact
  <2> SUFFICES ASSUME phase = "end", Supported(g)
               PROVE  /\ latches \ bounds = prog.secret \cap UNION {Pads(m) : m \in latches}
                      /\ prog.first \ inits = {l \in latches : StartFound(l)}
                      /\ \A k \in accesses :
                           guards[k] = {l \in latches : \E i \in Turns :
                                          l \in Pads(allLoopsVector[i]) /\ k \in GuardedAt(i, l)}
    BY DEF PaddingExact
  <2>1. Listing /\ Compiling /\ BetweenTurns /\ at > Len(allLoopsVector)
    BY <1>1 DEF Phases, Compiling, Listing, TurnInv, TurnsRight
  <2>2. /\ \A j \in 1..(at - 1) : allLoopsVector[j] \in latches
        /\ \A m \in latches : \E j \in 1..(at - 1) : allLoopsVector[j] = m
        /\ Turns = 1..(at - 1)
    BY <2>1, AllTurns
  <2>3. Earlier(at) = UNION {Pads(m) : m \in latches}
    BY <2>2 DEF Earlier
  <2>4. \A k : GuardedBefore(at, k) =
                 {l \in latches : \E i \in Turns :
                    l \in Pads(allLoopsVector[i]) /\ k \in GuardedAt(i, l)}
    BY <2>2 DEF GuardedBefore
  <2>5. Earlier(at) \subseteq latches
    BY DEF Earlier, Pads, PadsBy
  <2>6. latches \subseteq conditionals
    BY <2>1, AccessesAre DEF Supported, Rotated, conditionals, latches
  <2>7. StartsBefore(at) = {l \in latches : StartFound(l)}
    BY <2>2 DEF StartsBefore
  <2>8. \A l \in latches : StartFound(l) => l \in prog.first
    BY DEF StartFound
  <2>9. /\ bounds = conditionals \ (prog.secret \cap Earlier(at))
        /\ inits = prog.first \ StartsBefore(at)
        /\ guards = [k \in accesses |-> GuardedBefore(at, k)]
    BY <2>1 DEF BetweenTurns, Applied
  <2>10. latches \ bounds = prog.secret \cap UNION {Pads(m) : m \in latches}
    BY <2>3, <2>5, <2>6, <2>9
  <2>11. prog.first \ inits = {l \in latches : StartFound(l)}
    BY <2>7, <2>8, <2>9
  <2> QED
    BY <2>4, <2>9, <2>10, <2>11
<1> QED
  BY <1>1, PassTurns, PTL

\* The pass, on any function of the supported form, reads freed memory, a null
\* guard or a comparison that is none in the six cases of Hazard, in each of
\* them whatever the addresses of its blocks are, and comes to its end without
\* in every other.
THEOREM CompilesIfAndOnlyIf == PassSpec => []CompilesExactly
<1>1. ASSUME Phases, TurnInv PROVE CompilesExactly
  <2> SUFFICES ASSUME PassStopped, Supported(g) PROVE phase = "end" <=> ~Hazard
    BY DEF CompilesExactly
  <2>1. Listing /\ TurnsRight /\ Prepared
    BY <1>1 DEF Phases, Compiling, Listing, TurnInv
  <2>2. ASSUME phase # "end" PROVE Hazard
    BY <2>1, <2>2 DEF PassStopped, Prepared
  <2>3. ASSUME phase = "end" PROVE ~Hazard
    <3>1. BetweenTurns /\ at > Len(allLoopsVector) /\ ~PhiAlone /\ ~PhiErased
      BY <2>1, <2>3 DEF TurnsRight, Prepared
    <3>2. /\ \A m \in latches : \E j \in 1..(at - 1) : allLoopsVector[j] = m
          /\ at - 1 = Len(allLoopsVector) /\ Turns = 1..(at - 1)
          /\ at - 1 \in Nat /\ at \in Nat
      BY <2>1, <3>1, AllTurns
    <3>3. Clean(at) /\ NoneFound(at - 1)
      BY <3>1 DEF BetweenTurns, Applied
    <3>4. \A i \in Turns : Harmless(i, Pads(allLoopsVector[i]))
      BY <3>2, <3>3 DEF Clean
    <3>5. ~NullGuard /\ ~StoreShared
      BY <3>4 DEF NullGuard, StoreShared, Harmless
    <3>6. ~NotCompared
      BY <3>2, <3>4 DEF NotCompared, Harmless
    <3>7. ~StoreStale
      <4> SUFFICES ASSUME NEW i \in Turns, i < Len(allLoopsVector),
                          NEW l \in Pads(allLoopsVector[i]), NEW s \in StoresAt(i, l)
                   PROVE  ~Found(s)
        BY DEF StoreStale, Found
      <4>1. i \in 1..((at - 1) - 1)
        BY <3>2
      <4>2. ReplacedBefore(at - 1, s)
        BY <4>1 DEF ReplacedBefore
      <4>3. s \in accesses
        BY GuardedIs
      <4> QED
        BY <3>3, <4>2, <4>3 DEF NoneFound
    <3> QED
      BY <3>1, <3>5, <3>6, <3>7 DEF Hazard
  <2> QED
    BY <2>2, <2>3
<1> QED
  BY <1>1, PassTurns, PTL
=============================================================================
