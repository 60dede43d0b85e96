-------------------------- MODULE MCFunctionPasses --------------------------
(* Functions of two blocks for the function passes.                          *)
EXTENDS FunctionPasses

Arg(k)  == <<"arg", k>>
Name(k) == <<"inst", k>>

\* A difference of a difference, a comparison with each predicate of doubles
\* and of floats, one with itself, a phi, and an addition.
Make(pred, ty, optnone) ==
  [optnone |-> optnone,
   blocks |->
     << <<Instr(Name(1), "sub", "i8", None, <<Arg(1), Arg(2)>>),
          Instr(Name(2), "fcmp", ty, pred, <<Arg(3), Arg(4)>>)>>,
        <<Instr(Name(3), "phi", "i8", None, <<Name(1)>>),
          Instr(Name(4), "sub", "i8", None, <<Arg(2), Name(3)>>),
          Instr(Name(5), "add", "i8", None, <<Name(4), Arg(1)>>),
          Instr(Name(6), "fcmp", "double", "une", <<Arg(3), Arg(3)>>)>> >>]

Plain ==
  [optnone |-> FALSE,
   blocks |-> << <<Instr(Name(1), "sub", "vector", None, <<Arg(1), Arg(2)>>)>>,
                 <<Instr(Name(2), "fcmp", "double", "oge", <<Arg(3), Arg(4)>>)>> >>]

MCFunctions ==
  {Make(p, t, o) : p \in {"oeq", "ueq", "one", "une", "olt"}, t \in {"double", "float"}, o \in BOOLEAN}
  \cup {Plain, [optnone |-> FALSE, blocks |-> << <<>> >>]}
=============================================================================
