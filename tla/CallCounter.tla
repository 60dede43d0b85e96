---------------------------- MODULE CallCounter ----------------------------
(* The passes on modules: static-cc counts a module's direct calls, dynamic- *)
(* cc and inject-func-call instrument it; then the program that they made    *)
(* is run, by threads that call, count and print.                            *)
EXTENDS Pipeline, SequencesExt

CONSTANTS
  Names,     \* functions, defined or only declared
  Programs,  \* modules to start from: per defined function, its blocks of
             \*   instructions (of which the first is the one executed)
  Main,      \* the first thread, which runs "main"
  Workers,   \* threads that the program may start, each at Entry[t]
  Entry

ASSUME CounterAssumption == Main \notin Workers

VARIABLES
  phase,     \* "compile", "run" and "over"
  blocks,    \* the module's defined functions and their blocks
  dtors,     \* llvm.global_dtors
  injected,  \* how often inject-func-call was run
  cached,    \* static-cc's result in the analysis manager, if there is one
  report,    \* what was printed, if the last pass was print<static-cc>
  cell,      \* the globals CounterFor_F
  stack,     \* per thread its frames: what is left of the functions it is in
  reg,       \* per thread the counter it has loaded and not yet stored
  exiting,   \* what is left of llvm.global_dtors at exit, or None
  calls,     \* history: per function, how often it was entered
  done,      \* history: increments of its counter that were executed
  by,        \* history: the threads that executed them
  hello,     \* printed: "Hello from" the function
  lines      \* printed: the values of the function's counter

module == <<blocks, dtors, injected, cached, report, passes>>
output == <<calls, hello, lines>>
counts == <<cell, reg, done, by>>
vars == <<phase, module, output, counts, stack, exiting>>

Wrapper == "printf_wrapper"
Printf  == "printf"

Threads == {Main} \cup Workers
Instruction(op, f) == [op |-> op, fn |-> f]
Defined == DOMAIN blocks

Code == [op : {"call", "icall", "increment", "header", "print", "hello"}, fn : Names]

\* A definition has an entry block.
WellFormedModule(B) ==
  /\ IsFiniteSet(DOMAIN B) /\ DOMAIN B \subseteq Names
  /\ B \in [DOMAIN B -> Seq(Seq(Code)) \ {<<>>}]

ASSUME ModulesAssumption ==
  {Wrapper, Printf} \subseteq Names /\ \A B \in Programs : WellFormedModule(B)

(***************************************************************************)
(* StaticCallCounter.                                                      *)
(***************************************************************************)
\* getCalledFunction: the injected calls of printf are direct calls as well.
CalledFunction(ins) ==
  CASE ins.op = "call" -> {ins.fn}
    [] ins.op \in {"header", "print", "hello"} -> {Printf}
    [] OTHER -> {}

InstructionsOf(B) ==
  FlattenSeq(FlattenSeq([k \in 1..Cardinality(DOMAIN B) |-> B[SetToSeq(DOMAIN B)[k]]]))

\* find, insert with 0 if it is not there, and ++.
Count(res, ins) ==
  [f \in DOMAIN res \cup CalledFunction(ins) |->
     (IF f \in DOMAIN res THEN res[f] ELSE 0) + Cardinality({f} \cap CalledFunction(ins))]

CountStatic(B) == FoldLeft(Count, <<>>, InstructionsOf(B))

\* print<static-cc>: getResult answers what is cached, if anything is.
StaticCallCounterPrinter ==
  /\ report' = IF cached = None THEN CountStatic(blocks) ELSE cached
  /\ cached' = report'
  /\ UNCHANGED <<blocks, dtors, injected, cell>>

\* The tool static, on the module as it is written out at this point: its
\* analysis manager is its own.
countStaticCalls ==
  /\ report' = CountStatic(blocks)
  /\ UNCHANGED <<blocks, dtors, injected, cached, cell>>

(***************************************************************************)
(* InjectFuncCall and DynamicCallCounter.                                  *)
(***************************************************************************)
\* Instrumentation goes to the first insertion point of the entry block.
InsertAtEntry(bs, instrs) == <<instrs \o bs[1]>> \o Tail(bs)

InjectFuncCall ==
  /\ blocks' = [f \in Defined |-> InsertAtEntry(blocks[f], <<Instruction("hello", f)>>)]
  /\ cached' = IF Defined = {} THEN cached ELSE None
  /\ injected' = injected + 1 /\ report' = None
  /\ UNCHANGED <<dtors, cell>>

\* Mutant: the last of the counters is not printed.
ResultsButLast(order) ==
  <<Instruction("header", Wrapper)>> \o [k \in 1..(Len(order) - 1) |-> Instruction("print", order[k])]

\* The block of printf_wrapper.
PrintResults(order) ==
  <<Instruction("header", Wrapper)>> \o [k \in DOMAIN order |-> Instruction("print", order[k])]

\* Mutant: the analyses are reported as preserved.
InstrumentedCached == cached

\* What is cached after a module was instrumented.
Invalidated == None

\* CounterFor_F for these functions: what is there already is set to 0.
CreateGlobalCounter(names) == [f \in names |-> 0]

\* A second run finds printf_wrapper defined: it is counted like any other,
\* and its new block comes after the one that returns.
DynamicCallCounter ==
  /\ injected' = injected /\ report' = None
  /\ IF Defined = {}
     THEN UNCHANGED <<blocks, dtors, cached, cell>>
     ELSE LET order   == SetToSeq(Defined)  \* of a StringMap: no order in particular
              counted == [f \in Defined |-> InsertAtEntry(blocks[f], <<Instruction("increment", f)>>)]
          IN    /\ blocks' = [f \in Defined \cup {Wrapper} |->
                                (IF f \in Defined THEN counted[f] ELSE <<>>)
                                \o (IF f = Wrapper THEN <<PrintResults(order)>> ELSE <<>>)]
                /\ dtors'  = Append(dtors, Wrapper)
                /\ cell'   = CreateGlobalCounter(Defined)
                /\ cached' = Invalidated

RunPass ==
  /\ phase = "compile" /\ passes < MaxPasses
  /\ passes' = passes + 1
  /\ StaticCallCounterPrinter \/ countStaticCalls \/ InjectFuncCall \/ DynamicCallCounter
  /\ UNCHANGED <<phase, stack, reg, exiting, done, by, output>>

(***************************************************************************)
(* The program. Functions that are not defined return at once.             *)
(***************************************************************************)
Frame(f) == IF f \in Defined THEN <<[fn |-> f, code |-> blocks[f][1]]>> ELSE <<>>

Called(f) == IF f \in Defined THEN [calls EXCEPT ![f] = @ + 1] ELSE calls

\* The tool has ended, and what it had cached with it.
Execute ==
  /\ phase = "compile" /\ "main" \in Defined
  /\ phase' = "run"
  /\ cached' = None /\ report' = None /\ passes' = 0
  /\ calls' = [[f \in Defined |-> 0] EXCEPT !["main"] = 1]
  /\ hello' = [f \in Defined |-> 0]
  /\ lines' = [f \in Defined |-> <<>>]
  /\ stack' = [stack EXCEPT ![Main] = Frame("main")]
  /\ done'  = [f \in DOMAIN cell |-> 0]
  /\ by'    = [f \in DOMAIN cell |-> {}]
  /\ UNCHANGED <<blocks, dtors, injected, cell, reg, exiting>>

\* The program starts a thread, once, before main has returned.
StartThread(t) ==
  /\ phase = "run" /\ exiting = None /\ stack[t] = None
  /\ stack' = [stack EXCEPT ![t] = Frame(Entry[t])]
  /\ calls' = Called(Entry[t])
  /\ UNCHANGED <<phase, module, counts, exiting, hello, lines>>

Top(t) == Head(stack[t])

\* t's next instruction has the operation op.
At(t, op) ==
  /\ phase = "run" /\ stack[t] \notin {None, <<>>}
  /\ Top(t).code # <<>> /\ Head(Top(t).code).op = op

\* t is past that instruction.
Past(t) == <<[Top(t) EXCEPT !.code = Tail(@)]>> \o Tail(stack[t])

Operand(t) == Head(Top(t).code).fn

Load(t) ==
  /\ At(t, "increment") /\ reg[t] = None
  /\ reg' = [reg EXCEPT ![t] = [fn |-> Operand(t), val |-> cell[Operand(t)]]]
  /\ by'  = [by EXCEPT ![Operand(t)] = @ \cup {t}]
  /\ UNCHANGED <<phase, module, output, cell, done, stack, exiting>>

\* Mutant: the counter does not wrap.
IncrementWide(r) == r.val + 1

\* The add of 1 is in the width of the counter.
Increment(r) == (r.val + 1) % Modulus

Store(t) ==
  /\ reg[t] # None /\ At(t, "increment")
  /\ cell'  = [cell EXCEPT ![reg[t].fn] = Increment(reg[t])]
  /\ done'  = [done EXCEPT ![reg[t].fn] = @ + 1]
  /\ reg'   = [reg EXCEPT ![t] = None]
  /\ stack' = [stack EXCEPT ![t] = Past(t)]
  /\ UNCHANGED <<phase, module, output, by, exiting>>

\* A direct call or one through a pointer.
Call(t) ==
  /\ At(t, "call") \/ At(t, "icall")
  /\ stack' = [stack EXCEPT ![t] = Frame(Operand(t)) \o Past(t)]
  /\ calls' = Called(Operand(t))
  /\ UNCHANGED <<phase, module, counts, exiting, hello, lines>>

\* A call of printf, with the load of the counter that it prints.
Write(t) ==
  /\ \/ /\ At(t, "header")
        /\ UNCHANGED <<hello, lines>>
     \/ /\ At(t, "hello")
        /\ hello' = [hello EXCEPT ![Operand(t)] = @ + 1] /\ lines' = lines
     \/ /\ At(t, "print")
        /\ lines' = [lines EXCEPT ![Operand(t)] = Append(@, cell[Operand(t)])] /\ hello' = hello
  /\ stack' = [stack EXCEPT ![t] = Past(t)]
  /\ UNCHANGED <<phase, module, counts, exiting, calls>>

Return(t) ==
  /\ phase = "run" /\ stack[t] \notin {None, <<>>} /\ Top(t).code = <<>>
  /\ stack' = [stack EXCEPT ![t] = Tail(@)]
  /\ UNCHANGED <<phase, module, output, counts, exiting>>

\* main has returned: the destructors run, and then the process is over,
\* wherever other threads are.
Exit ==
  /\ phase = "run" /\ stack[Main] = <<>>
  /\ LET left == IF exiting = None THEN dtors ELSE exiting
     IN  IF left = <<>>
         THEN phase' = "over" /\ UNCHANGED <<stack, exiting, calls>>
         ELSE /\ stack' = [stack EXCEPT ![Main] = Frame(Head(left))]
              /\ calls' = Called(Head(left))
              /\ exiting' = Tail(left) /\ phase' = phase
  /\ UNCHANGED <<module, counts, hello, lines>>

Step(t) == Load(t) \/ Store(t) \/ Call(t) \/ Write(t) \/ Return(t)

Init ==
  /\ phase = "compile" /\ blocks \in Programs
  /\ dtors = <<>> /\ injected = 0 /\ cached = None /\ report = None /\ passes = 0
  /\ cell = <<>> /\ done = <<>> /\ by = <<>>
  /\ reg = [t \in Threads |-> None] /\ stack = [t \in Threads |-> None]
  /\ exiting = None /\ calls = <<>> /\ hello = <<>> /\ lines = <<>>

Next ==
  \/ RunPass \/ Execute \/ Exit
  \/ \E t \in Workers : StartThread(t)
  \/ \E t \in Threads : Step(t)

\* A thread that can go on does; nothing makes the user run a pass.
Fairness == WF_vars(Step(Main) \/ Exit)

Spec == Init /\ [][Next]_vars /\ Fairness

-----------------------------------------------------------------------------
(* Properties.                                                             *)

\* The calls of f that B's instructions make directly.
DirectCalls(B, f) ==
  UNION {UNION {{<<g, b, k>> : k \in {k \in DOMAIN B[g][b] : f \in CalledFunction(B[g][b][k])}}
                : b \in DOMAIN B[g]} : g \in DOMAIN B}

\* static-cc's report is that of the module as it is when it is printed,
\* calls from blocks that nothing reaches and the calls that other passes put
\* in included, although the analysis manager may answer with an earlier
\* result (StaticCallCounter.cpp:41-82).
ReportsFresh ==
  [][report' # None =>
       \A f \in DOMAIN report' \cup Defined \cup {Printf} :
         Cardinality(DirectCalls(blocks, f)) = IF f \in DOMAIN report' THEN report'[f] ELSE 0]_vars

\* No interleaving of the injected loads and stores makes a counter larger
\* than the number of increments that were executed; and if they were all one
\* thread's, it is that number, in the counter's width
\* (DynamicCallCounter.cpp:109-113).
NeverOver ==
  \A f \in DOMAIN done :
    /\ cell[f] <= done[f]
    /\ (\E t \in Threads : by[f] \subseteq {t}) => cell[f] = done[f] % Modulus

\* The threads that the program started and that are in f without having
\* come to its increment.
BeforeCounting(f) ==
  {t \in Workers \ by[f] : stack[t] \notin {None, <<>>} /\ Top(t).fn = f}

\* Once main runs, the program ends with a line for every function of the
\* program, per run of dynamic-cc: how often it was called, times those runs.
\* The lines are printed while other threads go on: a call whose increment no
\* thread has come to is missing from the line, and where none but the main
\* thread counted, nothing else is; where others did, increments may be lost,
\* and the line is no more than the calls. inject-func-call's line was printed
\* for every call, if no thread was started (DynamicCallCounter.cpp:182-215).
ResultsPrinted ==
  phase = "run" ~>
    /\ phase = "over"
    /\ \A f \in DOMAIN cell \ {Wrapper} :
         /\ Len(lines[f]) = Len(dtors)
         /\ \A k \in DOMAIN lines[f] :
              IF by[f] \subseteq {Main}
              THEN lines[f][k] =
                     (Len(dtors) * (calls[f] - Cardinality(BeforeCounting(f)))) % Modulus
              ELSE lines[f][k] <= Len(dtors) * calls[f]
    /\ (\A t \in Workers : stack[t] = None) =>
         \A f \in Defined \ {Wrapper} : hello[f] = injected * calls[f]
=============================================================================
