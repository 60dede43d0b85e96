--------------------------- MODULE FunctionPasses ---------------------------
(* A pipeline of function passes over one analysis manager: the printers of  *)
(* find-fcmp-eq and opcode-counter, convert-fcmp-eq, mba-sub, mba-add and    *)
(* the Secret pass; and what the function computes, in words of a width and  *)
(* in doubles counted in units of the smallest difference told apart.        *)
EXTENDS Pipeline, SequencesExt

CONSTANTS
  Functions,  \* functions: optnone, and blocks of instructions, executed one
              \*   after another
  MaxDouble,  \* the finite doubles are -MaxDouble..MaxDouble
  Epsilon     \* 2^-52 in those units

ASSUME DoubleAssumption == MaxDouble \in Nat /\ Epsilon \in 1..MaxDouble

VARIABLES
  F,          \* the function
  original,   \* history: F before the first pass
  fcmps,      \* FindFCmpEq's result in the analysis manager, if there is one
  opcodes,    \* OpcodeCounter's
  rewritten,  \* history: the Secret pass changed F since opcodes was computed
  last,       \* the pass that was run last
  crashed     \* convert-fcmp-eq casts a float to i64

functionVars == <<F, original, fcmps, opcodes, rewritten, last, passes, crashed>>

\* Operands are <<"arg", k>>, <<"const", v>> and the names of instructions.
\* A new instruction's name says what it was made for.
Instr(name, op, ty, pred, args) == [name |-> name, op |-> op, ty |-> ty, pred |-> pred, args |-> args]

Instructions(f) == FlattenSeq(f.blocks)

isEquality(ins) == ins.op = "fcmp" /\ ins.pred \in {"oeq", "ueq", "one", "une"}

\* map[x] = y.
Put(map, x, y) == [v \in DOMAIN map \cup {x} |-> IF v = x THEN y ELSE map[v]]

(***************************************************************************)
(* What a function computes.                                               *)
(***************************************************************************)
Inf == MaxDouble + 1
NaN == MaxDouble + 2

Words   == 0..(Modulus - 1)
Doubles == (-Inf)..NaN

Magnitude(d) == IF d < 0 THEN -d ELSE d

FSub(a, b) ==
  IF a = NaN \/ b = NaN \/ (a = b /\ Magnitude(a) = Inf) THEN NaN
  ELSE IF Magnitude(a) = Inf THEN a
  ELSE IF Magnitude(b) = Inf THEN -b
  ELSE IF Magnitude(a - b) <= MaxDouble THEN a - b
  ELSE IF a > b THEN Inf ELSE -Inf

Ordered(a, b) == a # NaN /\ b # NaN

FCmp(pred, a, b) ==
  CASE pred = "oeq" -> Ordered(a, b) /\ a = b
    [] pred = "one" -> Ordered(a, b) /\ a # b
    [] pred = "olt" -> Ordered(a, b) /\ a < b
    [] pred = "oge" -> Ordered(a, b) /\ a >= b
    [] pred = "ueq" -> ~Ordered(a, b) \/ a = b
    [] pred = "une" -> ~Ordered(a, b) \/ a # b
    [] pred = "ult" -> ~Ordered(a, b) \/ a < b
    [] pred = "uge" -> ~Ordered(a, b) \/ a >= b

Add(a, b) == (a + b) % Modulus
Not(b)    == (Modulus - 1) - b
Sub(a, b) == (a - b) % Modulus

\* Casts to an integer and back, and the sign bit between them.
ToBits(d)      == [sign |-> d < 0, magnitude |-> Magnitude(d)]
ClearSign(b)   == [b EXCEPT !.sign = FALSE]
FromBits(b)    == IF b.sign THEN -b.magnitude ELSE b.magnitude

ValueOf(arg, val) == IF arg[1] = "const" THEN arg[2] ELSE val[arg]

Value(ins, val) ==
  LET v(k) == ValueOf(ins.args[k], val)
  IN  CASE ins.op = "sub" -> Sub(v(1), v(2))
        [] ins.op = "add" -> Add(v(1), v(2))
        [] ins.op = "xor" -> Not(v(1))
        [] ins.op = "fsub" -> FSub(v(1), v(2))
        [] ins.op = "bitcast" /\ ins.ty = "i64" -> ToBits(v(1))
        [] ins.op = "and" -> ClearSign(v(1))
        [] ins.op = "bitcast" /\ ins.ty = "double" -> FromBits(v(1))
        [] ins.op = "fcmp" -> FCmp(ins.pred, v(1), v(2))
        [] ins.op \in {"phi", "select"} -> v(1)

Compute(val, ins) == Put(val, ins.name, Value(ins, val))

Evaluate(f, args) == FoldLeft(Compute, args, Instructions(f))

(***************************************************************************)
(* The functions that the passes start with.                               *)
(***************************************************************************)
Types      == {"i8", "i32", "vector", "float", "double"}
Predicates == {"oeq", "one", "olt", "oge", "ueq", "une", "ult", "uge"}
Floating(ty) == ty \in {"float", "double"}

Written ==
  [name : {"inst"} \X Nat, ty : Types, op : {"sub", "add", "fsub", "fcmp", "phi", "select"},
   pred : Predicates \cup {None},
   args : Seq(({"arg"} \X (1..4)) \cup ({"const"} \X (Words \cup Doubles)) \cup ({"inst"} \X Nat))]

\* Of the operand's type are two arguments, the constants, and what was
\* computed before; what uses the result of a comparison is left out.
OfType(s, k, arg) ==
  LET d == Floating(s[k].ty)
  IN  \/ arg \in {"arg"} \X (IF d THEN {3, 4} ELSE {1, 2})
      \/ arg \in {"const"} \X (IF d THEN Doubles ELSE Words)
      \/ \E j \in 1..(k - 1) : arg = s[j].name /\ s[j].op # "fcmp" /\ Floating(s[j].ty) = d

\* Every operation has its operands, of its type, and names are unique.
WellFormedFunction(f) ==
  /\ f \in [optnone : BOOLEAN, blocks : Seq(Seq(Written))]
  /\ \A k \in DOMAIN Instructions(f) :
       LET ins == Instructions(f)[k]
       IN  /\ ins.op \in {"sub", "add", "fsub", "fcmp"} =>
                Len(ins.args) = 2 /\ Floating(ins.ty) = (ins.op \in {"fsub", "fcmp"})
           /\ Len(ins.args) > 0 /\ (ins.op = "fcmp") = (ins.pred # None)
           /\ \A i \in DOMAIN ins.args : OfType(Instructions(f), k, ins.args[i])
           /\ \A j \in DOMAIN Instructions(f) : Instructions(f)[j].name = ins.name => j = k

\* None is no pass.
ASSUME NoneAssumption == None # "convert-fcmp-eq"

ASSUME PassedFunctions == \A f \in Functions : WellFormedFunction(f)

(***************************************************************************)
(* The analyses.                                                           *)
(***************************************************************************)
\* push_back, if it is a comparison for equality.
Collect(found, ins) == IF isEquality(ins) THEN Append(found, ins) ELSE found

FindFCmpEq(f) == FoldLeft(Collect, <<>>, Instructions(f))

\* find, insert with 1 if it is not there, and ++ otherwise.
CountOpcode(map, ins) == Put(map, ins.op, IF ins.op \notin DOMAIN map THEN 1 ELSE map[ins.op] + 1)

generateOpcodeMap(f) == FoldLeft(CountOpcode, <<>>, Instructions(f))

\* getResult: what is cached, or what the analysis answers.
Comparisons == IF fcmps = None THEN FindFCmpEq(F) ELSE fcmps

FindFCmpEqPrinter ==
  /\ fcmps' = Comparisons
  /\ UNCHANGED <<F, opcodes, rewritten, crashed>>

OpcodeCounterPrinter ==
  /\ opcodes' = IF opcodes = None THEN generateOpcodeMap(F) ELSE opcodes
  /\ rewritten' = (opcodes # None /\ rewritten)
  /\ UNCHANGED <<F, fcmps, crashed>>

(***************************************************************************)
(* The transformations.                                                    *)
(***************************************************************************)
\* A pass changes the function and says whether it did; if so nothing that
\* was cached is kept.
Transform(g, changed) ==
  /\ F' = g
  /\ fcmps' = IF changed THEN None ELSE fcmps
  /\ opcodes' = IF changed THEN None ELSE opcodes
  /\ rewritten' = (~changed /\ rewritten)
  /\ UNCHANGED crashed

MapBlocks(Rewrite(_)) ==
  [F EXCEPT !.blocks = [k \in DOMAIN @ |-> FlattenSeq([i \in DOMAIN @[k] |-> Rewrite(@[k][i])])]]

\* Mutant: the 1 is not added.
SubstituteWithoutOne(ins) ==
  <<Instr(<<"not", ins.name[2]>>, "xor", ins.ty, None, <<ins.args[2]>>),
    Instr(ins.name, "add", ins.ty, None, <<ins.args[1], <<"not", ins.name[2]>> >>)>>

\* (a + ~b) + 1: the last of the new instructions takes the name and the uses.
Substitute(ins) ==
  <<Instr(<<"not", ins.name[2]>>, "xor", ins.ty, None, <<ins.args[2]>>),
    Instr(<<"add", ins.name[2]>>, "add", ins.ty, None, <<ins.args[1], <<"not", ins.name[2]>> >>),
    Instr(ins.name, "add", ins.ty, None, << <<"add", ins.name[2]>>, <<"const", 1>> >>)>>

isSub(ins) == ins.op = "sub" /\ ins.ty \in {"i8", "i32"}

MBASub ==
  Transform(MapBlocks(LAMBDA ins : IF isSub(ins) THEN Substitute(ins) ELSE <<ins>>),
            \E k \in DOMAIN Instructions(F) : isSub(Instructions(F)[k]))

\* The loop over the instructions counts each and leaves it as it is.
MBAAdd == Transform(F, Instructions(F) # <<>>)

CmpPred(pred) ==
  CASE pred = "oeq" -> "olt"
    [] pred = "ueq" -> "ult"
    [] pred = "one" -> "oge"
    [] pred = "une" -> "uge"

\* The comparison itself is changed, after four new instructions.
convertFCmpEqInstruction(ins) ==
  LET new(op) == <<op, ins.name[2]>>
  IN  <<Instr(new("diff"), "fsub", "double", None, ins.args),
        Instr(new("bits"), "bitcast", "i64", None, <<new("diff")>>),
        Instr(new("abs"), "and", "i64", None, <<new("bits")>>),
        Instr(new("dist"), "bitcast", "double", None, <<new("abs")>>),
        [ins EXCEPT !.pred = CmpPred(@), !.args = <<new("dist"), <<"const", Epsilon>> >>]>>

\* Mutant: it reports that it changed nothing.
ModifiedForgotten == FALSE

Modified == ~F.optnone /\ Comparisons # <<>>

\* The result of find-fcmp-eq is asked for, and cached, before anything else.
ConvertFCmpEq ==
  IF ~F.optnone /\ \E k \in DOMAIN Comparisons : Comparisons[k].ty # "double"
  THEN crashed' = TRUE /\ UNCHANGED <<F, fcmps, opcodes, rewritten>>
  ELSE /\ F' = IF F.optnone THEN F
               ELSE MapBlocks(LAMBDA ins : IF ins \in ToSet(Comparisons)
                                           THEN convertFCmpEqInstruction(ins) ELSE <<ins>>)
       /\ fcmps'   = IF Modified THEN None ELSE Comparisons
       /\ opcodes' = IF Modified THEN None ELSE opcodes
       /\ rewritten' = (~Modified /\ rewritten)
       /\ UNCHANGED crashed

\* Of what the Secret pass rewrites, its selects in the place of phis; it
\* reports every analysis as preserved.
InputsVectorPrinter ==
  /\ F' = MapBlocks(LAMBDA ins : <<IF ins.op = "phi" THEN [ins EXCEPT !.op = "select"] ELSE ins>>)
  /\ rewritten' = (rewritten \/ (opcodes # None /\ F' # F))
  /\ UNCHANGED <<fcmps, opcodes, crashed>>

FunctionInit ==
  /\ F \in Functions /\ original = F
  /\ fcmps = None /\ opcodes = None /\ rewritten = FALSE
  /\ last = None /\ passes = 0 /\ crashed = FALSE

Run(pass, Action) == Action /\ last' = pass

FunctionNext ==
  /\ passes < MaxPasses /\ ~crashed
  /\ passes' = passes + 1 /\ original' = original
  /\ \/ Run("print<find-fcmp-eq>", FindFCmpEqPrinter)
     \/ Run("print<opcode-counter>", OpcodeCounterPrinter)
     \/ Run("convert-fcmp-eq", ConvertFCmpEq)
     \/ Run("mba-sub", MBASub)
     \/ Run("mba-add", MBAAdd)
     \/ Run("print<inputsVector>", InputsVectorPrinter)

FunctionSpec == FunctionInit /\ [][FunctionNext]_functionVars

-----------------------------------------------------------------------------
(* Properties.                                                             *)

\* The arguments: two words, and two doubles, which nothing computes from
\* words.
Arguments ==
  {[x \in {"arg"} \X (1..4) |-> p[x[2]]] :
     p \in (Words \X Words \X {0} \X {0}) \cup ({0} \X {0} \X Doubles \X Doubles)}

\* A comparison that comes out differently by difference: of two doubles less
\* than epsilon apart, and of an infinity with itself, where the difference is
\* not a number; "ueq" and "one" answer as before then.
Blurred(pred, a, b) ==
  \/ Ordered(a, b) /\ a # b /\ Magnitude(a) # Inf /\ Magnitude(b) # Inf /\ Magnitude(a - b) < Epsilon
  \/ a = b /\ Magnitude(a) = Inf /\ pred \in {"oeq", "une"}

\* Whatever passes are run in whatever order: the function computes what it
\* did, for every argument, but for the comparisons that were converted and
\* are blurred, and these do come out differently (MBASub.cpp:42-82,
\* ConvertFCmpEq.cpp:56-120).
ValuesKept ==
  \A args \in Arguments :
    LET before == Evaluate(original, args)
        now    == Evaluate(F, args)
        converted == {ins.name : ins \in {i \in ToSet(Instructions(F)) : i.op = "fcmp" /\ ~isEquality(i)}}
    IN  \A ins \in ToSet(Instructions(original)) :
          now[ins.name] # before[ins.name] <=>
            /\ isEquality(ins) /\ ins.name \in converted
            /\ Blurred(ins.pred, ValueOf(ins.args[1], before), ValueOf(ins.args[2], before))

\* What is cached is what the analysis would answer now, but for what was
\* cached when the Secret pass changed the function; and convert-fcmp-eq
\* leaves no equality in a function that it may change, or stops at one that
\* is not of doubles (ConvertFCmpEq.cpp:136-162, Secret.cpp:52).
AnalysesFresh ==
  /\ fcmps # None => fcmps = FindFCmpEq(F)
  /\ opcodes # None => (opcodes = generateOpcodeMap(F) <=> ~rewritten)
  /\ last = "convert-fcmp-eq" =>
       F.optnone \/ IF crashed THEN \E i \in ToSet(FindFCmpEq(F)) : i.ty # "double"
                               ELSE FindFCmpEq(F) = <<>>

\* "Verify that the additions in foo are correctly substituted", says the test
\* (test/MBA_add_8bit.ll:13) of mba-add.
AddsSubstituted ==
  [][last' = "mba-add" =>
       {ins \in ToSet(Instructions(F)) : ins.op = "add" /\ ins.ty = "i8"}
         \cap ToSet(Instructions(F')) = {}]_functionVars
=============================================================================
