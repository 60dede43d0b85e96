-------------------------- MODULE MCSerialization --------------------------
(* Functions for the model checker to run the pass on.                     *)
EXTENDS Serialization, SmallFunctions

\* Functions of five blocks with loops of any form, rotated or not, entered
\* and left anywhere; the fourth block may also be a second ret or end in a
\* terminator of another kind (unreachable, after a call to abort).
AnyShape ==
  {Function(<< <<2>>, b, c, d, <<>> >>) :
     b \in Branches(2..5), c \in Branches(2..5), d \in Branches(2..5) \cup {<<>>}}
  \cup {[Function(<<a, b, c, <<>>, <<>> >>) EXCEPT !.ret = {4, 5}] :
          a \in Branches(2..5), b \in Branches(2..5), c \in Branches(3..5)}

\* if (a || b) x: both branches lead to x. No loop and no switch in it.
ShortCircuit == {Function(<< <<3, 2>>, <<3, 4>>, <<4>>, <<>> >>)}

MCFunctions == RunOn(Acyclic \cup AnyShape \cup LoopShapes \cup WhileShapes)

MCShortCircuit == RunOn(ShortCircuit)
=============================================================================
