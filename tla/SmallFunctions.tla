--------------------------- MODULE SmallFunctions ---------------------------
(* Functions for the model checker to run the passes on.                   *)
EXTENDS CFG

\* Blocks are numbered; the first is the entry and the last ends in ret.
Function(succ) ==
  [block |-> 1..Len(succ), entry |-> 1, succ |-> succ, ret |-> {Len(succ)}]

Branches(Targ) == {<<t>> : t \in Targ} \cup
                  {p \in Targ \X Targ : p[1] # p[2]}

\* Every function of five blocks without a loop.
Acyclic == {Function(<<a, b, c, d, <<>>>>) :
              a \in Branches(2..5), b \in Branches(3..5),
              c \in Branches(4..5), d \in Branches({5})}

\* Loops in the form clang -O1 and loop-simplify leave them in, with
\* branches around, inside and between them.
LoopShapes == {
  \* do-while                                       loop with an if
  Function(<< <<2>>, <<2, 3>>, <<>> >>),
  Function(<< <<2>>, <<3, 4>>, <<4>>, <<2, 5>>, <<>> >>),
  \* if/else in a loop, exit on the true side
  Function(<< <<2>>, <<3, 4>>, <<5>>, <<5>>, <<6, 2>>, <<>> >>),
  \* loop in the then side / in the else side / in both sides of a branch
  Function(<< <<2, 5>>, <<3>>, <<3, 4>>, <<5>>, <<>> >>),
  Function(<< <<5, 2>>, <<3>>, <<4, 3>>, <<5>>, <<>> >>),
  Function(<< <<2, 5>>, <<3>>, <<3, 4>>, <<8>>, <<6>>, <<6, 7>>, <<8>>, <<>> >>),
  \* nested loops, the inner one guarded
  Function(<< <<2>>, <<3, 6>>, <<4>>, <<4, 5>>, <<6>>, <<2, 7>>, <<>> >>),
  \* a loop, then a branch, then a loop with a branch
  Function(<< <<2>>, <<2, 3>>, <<4, 5>>, <<5>>, <<6>>, <<7, 8>>, <<8>>,
              <<6, 9>>, <<>> >>),
  \* else-if chain whose middle branch holds a loop
  Function(<< <<2, 3>>, <<8>>, <<4, 7>>, <<5>>, <<5, 6>>, <<8>>, <<8>>, <<>> >>),
  \* nested branches with empty sides in a loop that is itself guarded
  Function(<< <<2, 8>>, <<3>>, <<4, 6>>, <<5, 6>>, <<6>>, <<3, 7>>, <<8>>, <<>> >>),
  \* two branches in a row in a loop
  Function(<< <<2>>, <<3, 4>>, <<4>>, <<5, 6>>, <<6>>, <<2, 7>>, <<>> >>),
  \* inputs/test_elseif.c: if with a nested if, else if, else
  Function(<< <<2, 5>>, <<3, 4>>, <<4>>, <<8>>, <<6, 7>>, <<8>>, <<8>>, <<>> >>)}

\* while loops that were not rotated, most with the exit on the
\* true side.
WhileShapes == {
  Function(<< <<2>>, <<4, 3>>, <<2>>, <<5>>, <<>> >>),
  Function(<< <<2>>, <<6, 3>>, <<4, 5>>, <<5>>, <<2>>, <<7>>, <<>> >>),
  Function(<< <<2, 7>>, <<3>>, <<6, 4>>, <<5>>, <<3>>, <<7>>, <<>> >>),
  Function(<< <<2>>, <<3, 4>>, <<2>>, <<5>>, <<>> >>),
  Function(<< <<2>>, <<4, 3>>, <<2>>, <<>> >>)}

RunOn(shapes) ==
  {f \in {Analyse(x) : x \in {s \in shapes : NoneDead(s)}} : LoopSimplifyForm(f)}
=============================================================================
