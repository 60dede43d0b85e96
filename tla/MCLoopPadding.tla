---------------------------- MODULE MCLoopPadding ----------------------------
(* Loops over arrays of two to four elements, in words of four bits.        *)
EXTENDS LoopPadding

\* for (k = init; k pred bound; k += step) a[k]: the branch around the loop
\* makes the same comparison with the first index.
For(step, init, pred, bound, sizes) ==
  [init |-> init, bound |-> bound, step |-> step, pred |-> pred, on |-> "next",
   leave |-> FALSE, index |-> "phi", sizes |-> sizes, access |-> "store",
   entered |-> Holds(pred, init.value, bound.value)]

Public(S) == {[secret |-> FALSE, value |-> v] : v \in S}
Secret(S) == {[secret |-> TRUE, value |-> v] : v \in S}

\* One array, and two of different sizes.
Sizes == {<<3>>, <<4, 2>>}

\* Limits a programmer writes for an array of two elements or more; a secret
\* is anything.
DownLoops ==
  {For(-1, a, p, b, s) : a \in Public({1}) \cup Secret(Word), p \in {"sgt", "sge"},
                           b \in Public({0}) \cup Secret(Word), s \in Sizes}

UpLoops ==
  {For(1, a, p, b, s) : a \in Public({0}) \cup Secret({0, 1, Modulus - 1}), p \in {"slt", "sle"},
                        b \in Secret(Word), s \in Sizes}

\* for (k = init; k < bound; k++) after indvars.
ExitLoops ==
  {[l EXCEPT !.pred = "eq", !.leave = TRUE] : l \in {u \in UpLoops : u.pred = "slt" /\ ~u.init.secret}}

\* Arrays indexed with k - 1, and with a cast of k.
OtherIndices ==
  {[l EXCEPT !.index = ix] : ix \in {"next", "cast"},
     l \in {d \in DownLoops : d.pred = "sgt" /\ d.sizes = <<3>>
                              /\ d.init.value \in {1, 2, 3} /\ d.bound.value \in {0, 1}}}

\* The same with unsigned comparisons: a public bound is not below 1, for every
\* number is at least 0, and the original loop would not end.
UnsignedLoops ==
  {For(-1, a, p, b, <<3>>) : a \in Public({1}) \cup Secret(Word), p \in {"ugt", "uge"},
                             b \in Public({1}) \cup Secret(Word)} \cup
  {For(1, a, p, b, <<3>>) : a \in Public({0}) \cup Secret({0, 1, Modulus - 1}),
                            p \in {"ult", "ule"}, b \in Secret(Word)}

StoreLoops ==
  {l \in DownLoops \cup UpLoops \cup ExitLoops \cup OtherIndices \cup UnsignedLoops :
     (l.init.secret \/ l.bound.secret) /\ InBounds(l)}

\* Loops over one array also load its elements, for a phi or for a call.
LoadLoops ==
  {[l EXCEPT !.access = ac] : ac \in {"phi", "other"}, l \in {s \in StoreLoops : s.sizes = <<3>>}}

MCLoops == StoreLoops \cup LoadLoops
=============================================================================
