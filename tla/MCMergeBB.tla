------------------------------ MODULE MCMergeBB ------------------------------
(* Functions of five or six blocks for MergeBB.                             *)
EXTENDS MergeBB

\* Blocks 1 (the entry) to n, the last ends in ret. work gives per block what
\* its instructions do, all of them without uses.
Function(succ, work) ==
  LET n == Len(succ)
  IN  [block |-> 1..n, entry |-> 1, order |-> [k \in 1..n |-> k], succ |-> succ,
       term |-> [b \in 1..n |-> CASE Len(succ[b]) = 0 -> "ret"
                                  [] Len(succ[b]) <= 2 -> "br"
                                  [] OTHER -> "switch"],
       phi  |-> [b \in 1..n |-> <<>>],
       body |-> [b \in 1..n |-> [k \in DOMAIN work[b] |->
                                   [what |-> work[b][k], uses |-> "none"]]]]

\* Every function whose entry leads to three blocks that lead to each other,
\* to a fourth and to the last in every way; they are empty or do one thing.
\* Loops, self loops and chains of duplicates are among them.
Shapes ==
  {Function(<<e, a, b, c, <<5>>, <<>> >>, <<<<>>, w[1], w[2], w[3], <<"x">>, <<>> >>) :
     e \in {<<2, 3, 4>>, <<3, 4>>, <<4>>}, a \in {<<t>> : t \in 2..6} \cup {<<3, 4>>, <<5, 6>>},
     b \in {<<t>> : t \in 2..6} \cup {<<2, 4>>, <<5, 6>>}, c \in {<<t>> : t \in 2..6} \cup {<<2, 3>>},
     w \in {<<p, q, r>> : p \in {<<>>, <<"x">>}, q \in {<<>>, <<"x">>}, r \in {<<"x">>, <<"y">>}}}

Reaches(g) ==
  LET reach[n \in Nat] == IF n = 0 THEN {g.entry}
                          ELSE LET before == reach[n - 1]
                               IN  before \cup UNION {Succs(g, b) : b \in before}
  IN  reach[Cardinality(g.block)]

Outside(n) == [at |-> 0, n |-> n]
Local(b, n) == [at |-> b, n |-> n]

\* A switch to three blocks of two instructions each, one of them used by the
\* phi of the block they lead to; test/MergeBB_*.ll are among them.
WithValues ==
  LET does(w, u, v) == <<[what |-> "x", uses |-> u], [what |-> w, uses |-> v]>>
      work == {does(w, u, v) : w \in {"y", "z"},
                 u \in {"none", "phi"}, v \in {"none"}}
                \cup {does("y", "none", "phi"), does("y", "else", "none")}
      value(b, w) == CASE w[1].uses = "phi" -> Local(b, 1)
                       [] w[2].uses = "phi" -> Local(b, 2)
                       [] OTHER             -> Outside(7)
      g == Function(<< <<2, 3, 4>>, <<5>>, <<5>>, <<5>>, <<>> >>, <<<<>>, <<>>, <<>>, <<>>, <<>> >>)
  IN  {[g EXCEPT !.body[2] = w2, !.body[3] = w3, !.body[4] = w4,
                 !.phi[5] = << [uses |-> "else",
                                entries |-> << [from |-> 2, value |-> value(2, w2)],
                                               [from |-> 3, value |-> value(3, w3)],
                                               [from |-> 4, value |-> IF w4[1].uses = "phi"
                                                                      THEN Local(4, 1) ELSE o] >>] >>] :
         w2 \in work \cup {does("uses 2", "block", "none")},
         w3 \in work \cup {does("uses 3", "block", "none")},
         w4 \in {does("y", "none", "none"), does("z", "phi", "none")}, o \in {Outside(7), Outside(8)}}

\* Blocks 4 and 5 have a phi each; they come from different blocks.
WithPhis ==
  LET g == Function(<< <<2, 3>>, <<4, 5>>, <<4, 5>>, <<6>>, <<6>>, <<>> >>,
                    <<<<>>, <<"y">>, <<>>, <<>>, <<>>, <<>> >>)
      phi(u, w, x) == << [uses |-> "phi", entries |-> << [from |-> u, value |-> Outside(w)],
                                                          [from |-> 5 - u, value |-> Outside(x)] >>] >>
  IN  {[g EXCEPT !.phi[4] = phi(2, 7, 8), !.phi[5] = phi(u, 7, 8),
                 !.phi[6] = << [uses |-> "else",
                                entries |-> << [from |-> 4, value |-> Local(4, 0)],
                                               [from |-> 5, value |-> Local(5, 0)] >>] >>] :
         u \in {2, 3}}

\* Block 2 is reached by nothing.
WithUnreachable ==
  {Function(<< <<3, 4>>, <<5>>, <<5>>, <<4>>, <<>> >>, <<<<>>, <<"x">>, <<"x">>, <<"y">>, <<>> >>)}

\* Block 3 is entered by an invoke (or another terminator that is neither
\* a branch nor a switch).
WithInvoke ==
  LET g == Function(<< <<2, 4>>, <<5>>, <<5>>, <<3, 5>>, <<>> >>,
                    <<<<>>, <<"x">>, <<"x">>, <<"y">>, <<>> >>)
  IN  {[g EXCEPT !.term[4] = "other"]}

MCFunctions ==
  {g \in Shapes \cup WithInvoke : Reaches(g) = g.block} \cup WithUnreachable \cup WithValues
=============================================================================
