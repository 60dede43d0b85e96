------------------------------- MODULE Taint -------------------------------
(* getAllUsers of lib/Secret.cpp and the loop over the arguments that calls  *)
(* it (generateInputVector, and again in modifyNumCyclesLoops): a recursive  *)
(* search of the instructions that use a value. The recursion is a stack of  *)
(* frames, each with the value it was called for and the position of the     *)
(* range-for over its users; UsersVector, the result, is shared by all calls.*)
EXTENDS Naturals, Sequences, SequencesExt

VARIABLES
  flow,        \* the roots and the use lists the search runs on, see Dependence
  arg,         \* the position of the loop over the roots
  UsersVector, \* std::vector<Value*>
  stack        \* the active calls of getAllUsers, the innermost last

taintVars == <<flow, arg, UsersVector, stack>>

\* Use lists of values; a root after the first is no instruction, so it has
\* no operands: roots are a function's arguments, or a single value.
WellFormedFlow(f) ==
  LET value == DOMAIN f.users
  IN  /\ f.roots \in Seq(value)
      /\ f.users \in [value -> Seq(value)]
      /\ \A i, j \in DOMAIN f.roots : f.roots[i] = f.roots[j] => i = j
      /\ \A i \in DOMAIN f.roots : \A v \in value : i > 1 => f.roots[i] \notin ToSet(f.users[v])

Frame(v) == [inst |-> v, next |-> 1]

top == stack[Len(stack)]

users == flow.users[top.inst]

temp == users[top.next]

\* Mutant: only the calls that have not returned are looked at.
InVectorActive(v) == \E i \in DOMAIN stack : stack[i].inst = v

\* std::find over UsersVector.
InVector(v) == \E i \in DOMAIN UsersVector : UsersVector[i] = v

\* The frame goes on with the user after temp.
Advance == [stack EXCEPT ![Len(stack)].next = @ + 1]

TaintInit ==
  /\ arg = 1
  /\ UsersVector = <<>>
  /\ stack = <<>>

\* The call of getAllUsers for the next root.
CallRoot ==
  /\ stack = <<>> /\ arg <= Len(flow.roots)
  /\ UsersVector' = Append(UsersVector, flow.roots[arg])
  /\ stack' = <<Frame(flow.roots[arg])>>
  /\ arg' = arg + 1
  /\ UNCHANGED flow

\* Mutant: the user is pushed without a call that looks at its own users.
CallUserUnmarked ==
  /\ stack # <<>> /\ top.next <= Len(users) /\ ~InVector(temp)
  /\ UsersVector' = Append(UsersVector, temp)
  /\ stack' = Advance
  /\ UNCHANGED <<flow, arg>>

\* A user that is not in the vector yet: the recursive call pushes it.
CallUser ==
  /\ stack # <<>> /\ top.next <= Len(users) /\ ~InVector(temp)
  /\ UsersVector' = Append(UsersVector, temp)
  /\ stack' = Append(Advance, Frame(temp))
  /\ UNCHANGED <<flow, arg>>

SkipUser ==
  /\ stack # <<>> /\ top.next <= Len(users) /\ InVector(temp)
  /\ stack' = Advance
  /\ UNCHANGED <<flow, arg, UsersVector>>

ReturnUser ==
  /\ stack # <<>> /\ top.next > Len(users)
  /\ stack' = SubSeq(stack, 1, Len(stack) - 1)
  /\ UNCHANGED <<flow, arg, UsersVector>>

Searching == CallRoot \/ CallUser \/ SkipUser \/ ReturnUser

Searched == stack = <<>> /\ arg > Len(flow.roots)

TaintSpec == WellFormedFlow(flow) /\ TaintInit /\ [][Searching]_taintVars /\ WF_taintVars(Searching)
-----------------------------------------------------------------------------
(* Properties.                                                              *)

D == INSTANCE Dependence WITH found <- ToSet(UsersVector)

\* The values of UsersVector before position i and the roots lead to the one
\* at i: it depends on a root.
Derived(i) ==
  UsersVector[i] \in ToSet(flow.roots)
    \cup UNION {ToSet(flow.users[UsersVector[j]]) : j \in 1..(i - 1)}

\* What the search has pushed depends on a root, each value once; and once it
\* is over, everything that depends on a root has been pushed: the recursion
\* leaves no user of any value out, whatever the call was that met it first.
VectorExact ==
  /\ \A i, j \in DOMAIN UsersVector : UsersVector[i] = UsersVector[j] => i = j
  /\ \A i \in DOMAIN UsersVector : Derived(i)
  /\ Searched => D!Closed(flow, ToSet(UsersVector))

\* The search implements the abstract one: every call finds one more value
\* that depends on a root, and the search goes on while there is one.
FindsDependent == D!Spec
=============================================================================
