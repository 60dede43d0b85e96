---------------------------- MODULE MCCallCounter ----------------------------
(* Small programs for the passes on modules, with and without threads.       *)
EXTENDS CallCounter

Calls(f) == Instruction("call", f)

MCNames == {"main", "f", "g", "puts", Wrapper, Printf}

MCEntry == [t \in Workers |-> "f"]

\* Two calls, one of them through a pointer, next to one of a function that
\* is only declared; a chain; a function that nothing calls; no definition.
MCPrograms ==
  {("main" :> <<<<Calls("f"), Calls("puts"), Instruction("icall", "f")>>>>) @@ ("f" :> <<<<>>>>),
   ("main" :> <<<<Calls("g"), Calls("f")>>>>) @@ ("g" :> <<<<Calls("f")>>>>) @@ ("f" :> <<<<Calls("puts")>>>>),
   ("f" :> <<<<Calls("puts")>>>>),
   <<>>}
=============================================================================
