---------------------------- MODULE MCDuplicateBB ----------------------------
(* Functions of three or four blocks for RIV and DuplicateBB.                *)
EXTENDS DuplicateBB

\* Work: what the instructions of a block give: an integer, another value, or
\* none. An instruction uses what was computed last, in its block or in one
\* that dominates it; so do branches and phis.
Work == {<<>>, <<"int">>, <<"void">>, <<"int", "void", "float">>, <<"float", "int">>}

FloatArgument == <<"arg", 9>>

Inst(b, k) == <<"inst", 10 * b + k>>

Make(succ, lpad, invoke, args, work) ==
  LET block == 1..Len(succ)
      g     == Analyse([block |-> block, entry |-> 1, succ |-> succ,
                        ret |-> {b \in block : succ[b] = <<>>}])
      merge == {b \in block : Cardinality(Preds(g, b)) > 1}
      preds == [b \in merge |-> SetToSeq(Preds(g, b))]
      phi(b)  == Inst(b, 0)
      term(b) == Inst(b, 9)
      values(b) == {k \in DOMAIN work[b] : work[b][k] # "void"}
      idom(b) == CHOOSE d \in g.dom[b] \ {b} : g.dom[b] \ {b} \subseteq g.dom[d]
      entering[b \in block] ==
        CASE b \in merge -> phi(b)
          [] b = 1 \/ b \notin Reachable(g) -> CHOOSE a \in args \cup {FloatArgument} : a[1] = "arg"
          [] OTHER -> LET d == idom(b)
                      IN  IF values(d) # {} THEN Inst(d, CHOOSE k \in values(d) : \A j \in values(d) : j <= k)
                                            ELSE entering[d]
      before(b, k) == {j \in values(b) : j < k}
      operand(b, k) == IF before(b, k) = {} THEN entering[b]
                       ELSE Inst(b, CHOOSE j \in before(b, k) : \A i \in before(b, k) : i <= j)
      bodies == {<<b, k>> : b \in block, k \in 1..3}
      inst   == {p \in bodies : p[2] \in DOMAIN work[p[1]]}
  IN  [block |-> g.block, entry |-> g.entry, succ |-> g.succ, ret |-> g.ret, dom |-> g.dom,
       params |-> {a \in args : a[1] = "arg"}, globals |-> {a \in args : a[1] = "global"},
       order |-> [k \in block |-> k], lpad |-> lpad,
       code |-> [b \in block |-> [phis |-> IF b \in merge THEN <<phi(b)>> ELSE <<>>,
                                  body |-> [k \in DOMAIN work[b] |-> Inst(b, k)],
                                  term |-> term(b)]],
       void |-> {Inst(p[1], p[2]) : p \in {p \in inst : work[p[1]][p[2]] = "void"}},
       ints |-> [b \in block |-> (IF b \in merge THEN {phi(b)} ELSE {})
                                 \cup {Inst(b, k) : k \in {k \in DOMAIN work[b] : work[b][k] = "int"}}
                                 \cup (IF b \in invoke THEN {term(b)} ELSE {})],
       uses |-> [v \in {Inst(p[1], p[2]) : p \in inst} |->
                   <<operand(v[2] \div 10, v[2] % 10)>>]
                @@ [v \in {phi(b) : b \in merge} |->
                      [k \in DOMAIN preds[v[2] \div 10] |->
                         operand(preds[v[2] \div 10][k], 9)]]
                @@ [v \in {term(b) : b \in block} |->
                      IF Len(succ[v[2] \div 10]) = 1 THEN <<>> ELSE <<operand(v[2] \div 10, 9)>>],
       from |-> [v \in {phi(b) : b \in merge} |-> preds[v[2] \div 10]]]

Arguments == {{<<"arg", 1>>}, {<<"arg", 1>>, <<"global", 1>>}, {<<"global", 1>>}, {}}

\* An if, a loop, blocks listed before those that dominate them, a block that
\* nothing leads to; and invokes: of a block of its own, and of a block that
\* the landing pad leads to as well.
Plain == {<< <<2, 3>>, <<3>>, <<>> >>, << <<2>>, <<2, 3>>, <<>> >>,
          << <<3>>, <<>>, <<2>> >>, << <<3>>, <<3>>, <<>> >>}

MCFunctions ==
  {Make(s, {}, {}, a, w) : s \in Plain, a \in Arguments, w \in Work \X Work \X Work}
  \cup {Make(<< <<2, 3>>, <<4>>, <<4>>, <<>> >>, {3}, {1}, {<<"arg", 1>>}, w) :
          w \in {<<u, v, <<>>, <<"int">>>> : u \in Work, v \in Work}}
  \cup {Make(<< <<2, 3>>, <<>>, <<2>> >>, {3}, {1}, a, w) :
          a \in Arguments, w \in {<<u, <<"int">>, v>> : u \in Work, v \in Work}}
=============================================================================
