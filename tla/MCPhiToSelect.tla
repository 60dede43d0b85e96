---------------------------- MODULE MCPhiToSelect ----------------------------
(* The phis of small functions without loops.                               *)
EXTENDS PhiToSelect, SmallFunctions

\* Every order of the elements of S.
Orders(S) == {s \in [1..Cardinality(S) -> S] :
                \A i, j \in DOMAIN s : s[i] = s[j] => i = j}

\* Every phi of two or three operands of every structured function of five
\* blocks, with its operands in every order.
SmallPhis ==
  LET functions == {f \in {Analyse(x) : x \in {y \in Acyclic : Reachable(y) = y.block}} :
                      Structured(f)}
      joins(f)  == {b \in f.block : Cardinality(Preds(f, b)) \in 2..3}
  IN  UNION {{[g |-> f, join |-> j, inc |-> s] : s \in Orders(Preds(f, j))} :
               <<f, j>> \in UNION {{f} \X joins(f) : f \in functions}}

\* An if/else-if chain with four arms; two nested if/elses; five arms, two on
\* one side and three on the other; and a phi with one operand. The second order
\* of the chain's operands has one from the other side between two.
LargePhis ==
  LET chain  == Function(<< <<4, 2>>, <<5, 3>>, <<6, 7>>, <<8>>, <<8>>, <<8>>, <<8>>, <<>> >>)
      nested == Function(<< <<2, 3>>, <<4, 5>>, <<6, 7>>, <<8>>, <<8>>, <<8>>, <<8>>, <<>> >>)
      five   == Function(<< <<2, 3>>, <<5, 6>>, <<4, 7>>, <<8, 9>>,
                            <<10>>, <<10>>, <<10>>, <<10>>, <<10>>, <<>> >>)
      single == Function(<< <<2>>, <<3>>, <<>> >>)
  IN  {[g |-> Analyse(chain),  join |-> 8,  inc |-> <<4, 5, 6, 7>>],
       [g |-> Analyse(chain),  join |-> 8,  inc |-> <<6, 4, 7, 5>>],
       [g |-> Analyse(nested), join |-> 8,  inc |-> <<4, 5, 6, 7>>],
       [g |-> Analyse(nested), join |-> 8,  inc |-> <<6, 4, 5, 7>>],
       [g |-> Analyse(five),   join |-> 10, inc |-> <<5, 6, 8, 9, 7>>],
       [g |-> Analyse(single), join |-> 2,  inc |-> <<1>>]}

MCPhis == SmallPhis \cup LargePhis
=============================================================================
