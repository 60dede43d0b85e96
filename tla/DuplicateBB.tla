----------------------------- MODULE DuplicateBB -----------------------------
(* lib/DuplicateBB.cpp, run on the result of RIV: blocks are chosen with an  *)
(* integer value that reaches them, and each is replaced by a test of that   *)
(* value, two clones and a tail that merges what these compute.              *)
(*                                                                           *)
(* Values are pairs: <<"arg", n>>, <<"global", n>>, <<"inst", n>>, and those *)
(* the pass makes, <<"then", n>>, <<"else", n>>, <<"phi", n>> of instruction *)
(* n and <<"isnull", b>>. Blocks are <<"bb", b>>, and <<"then", b>>,         *)
(* <<"else", b>>, <<"tail", b>> of block b.                                  *)
EXTENDS RIV

\* The functions of RIVFunctions also have
\*   order   the blocks as the function lists them
\*   lpad    the blocks that are landing pads
\*   code    per block [phis, body, term]: two sequences of instructions and
\*           a terminator; phis have their operands in the order of Preds
\*   void    the instructions without a value
\*   uses    per instruction, its operands
\*   from    per phi, the blocks its operands come from

WellFormedCode(f) ==
  LET inst == DOMAIN f.uses
  IN  /\ f.order \in Seq(f.block) /\ IsInjective(f.order)
      /\ inst \subseteq {"inst"} \X Nat
      /\ \A v \in inst : f.uses[v] \in Seq({"arg", "global", "inst"} \X Nat)
      /\ f.code \in [f.block -> [phis : Seq(inst), body : Seq(inst), term : inst]]
      /\ f.succ \in [f.block -> Seq(f.block)]
      /\ DOMAIN f.from \subseteq inst /\ \A v \in DOMAIN f.from : f.from[v] \in Seq(f.block)
      /\ \A b \in f.block : ToSet(f.code[b].phis) \subseteq DOMAIN f.from
      \* an instruction of a body is in one place
      /\ \A b, c \in f.block : \A k \in DOMAIN f.code[b].body :
           LET v == f.code[b].body[k]
           IN  /\ v \notin ToSet(f.code[c].phis) /\ v # f.code[c].term
               /\ \A i \in DOMAIN f.code[c].body : f.code[c].body[i] = v => c = b /\ i = k

ASSUME CodeAssumption == \A f \in RIVFunctions : WellFormedCode(f)

Instructions(f, b) == ToSet(f.code[b].phis) \cup ToSet(f.code[b].body) \cup {f.code[b].term}

\* The instructions of b before v.
Earlier(f, b, v) ==
  CASE v \in ToSet(f.code[b].phis) -> {}
    [] v = f.code[b].term          -> ToSet(f.code[b].phis) \cup ToSet(f.code[b].body)
    [] OTHER -> LET body == f.code[b].body
                    k    == CHOOSE k \in DOMAIN body : body[k] = v
                IN  ToSet(f.code[b].phis) \cup {body[i] : i \in 1..(k - 1)}

\* The result of a terminator (an invoke) is there in the blocks dominated by
\* its normal destination, if that is entered from the invoke only.
AfterInvoke(f, dom, b, c) ==
  /\ f.succ[b] # <<>>
  /\ f.succ[b][1] \in dom[c] /\ Preds(f, f.succ[b][1]) = {b}

\* The value v of d is there in c.
Dominates(f, dom, v, d, c) ==
  IF v = f.code[d].term THEN AfterInvoke(f, dom, d, c) ELSE v \in Instructions(f, d)

\* The value v is computed on every way to the end of b.
ThereAtEnd(f, dom, v, b) ==
  v[1] \in {"arg", "global"} \/ \E d \in dom[b] : Dominates(f, dom, v, d, b)

\* The value v is there when u, of block b, uses it.
There(f, dom, v, b, u) ==
  v[1] \in {"arg", "global"} \/ v \in Earlier(f, b, u) \/
    \E d \in dom[b] \ {b} : Dominates(f, dom, v, d, b)

\* Every value that is used is in the function, and computed before.
UsesThere(f) ==
  LET dom == DominatorsOf(f)
  IN  \A b \in Reachable(f) : \A u \in Instructions(f, b) :
        IF u \in ToSet(f.code[b].phis)
        THEN /\ ToSet(f.from[u]) = Preds(f, b)
             /\ \A k \in DOMAIN f.uses[u] : ThereAtEnd(f, dom, f.uses[u][k], f.from[u][k])
        ELSE \A k \in DOMAIN f.uses[u] : There(f, dom, f.uses[u][k], b, u)

WellFormedValues(f) ==
  /\ f.dom = DominatorsOf(f) /\ UsesThere(f)
  /\ f.params \subseteq {"arg"} \X Nat /\ f.globals \subseteq {"global"} \X Nat
  /\ \A b \in f.block : f.ints[b] \subseteq Instructions(f, b) \ f.void
  /\ \A v \in DOMAIN f.uses : ToSet(f.uses[v]) \cap f.void = {}
  /\ \A v \in DOMAIN f.from : Len(f.from[v]) = Len(f.uses[v])
  /\ \A b, c \in f.block : f.code[b].term \notin ToSet(f.code[c].phis)
                         /\ (Instructions(f, b) \cap Instructions(f, c) # {} => b = c)

ASSUME ValuesAssumption == \A f \in RIVFunctions : WellFormedValues(f)

VARIABLES
  pc,         \* "choose", "split", "clone", "purge" or "done"
  next,       \* the position in the function's list of blocks, or in Targets
  Targets,    \* blocks to duplicate, each with its context value
  M,          \* the function as it is now: code, uses and from as in F, and
              \* the successors
  ReMapper,   \* std::map: the phi that replaced an instruction
  ThenVMap, ElseVMap, TailVMap, \* ValueMaps, which follow their keys when
              \* these are replaced everywhere
  IIT,        \* the position in the tail
  ToRemove    \* instructions of the tail without a value

duplicateVars == <<rivVars, pc, next, Targets, M, ReMapper, ThenVMap, ElseVMap, TailVMap,
                   IIT, ToRemove>>

cloneVars == <<ThenVMap, ElseVMap, TailVMap, IIT, ToRemove>>

bb(b) == <<"bb", b>>
NoMap == [v \in {} |-> v]

\* map[x] = y.
Put(map, x, y) == [v \in DOMAIN map \cup {x} |-> IF v = x THEN y ELSE map[v]]

DuplicateInit ==
  /\ RIVInit
  /\ pc = "choose" /\ next = 1 /\ Targets = <<>>
  /\ M = [code |-> [x \in {bb(b) : b \in F.block} |-> F.code[x[2]]],
          uses |-> F.uses,
          from |-> [p \in DOMAIN F.from |-> [k \in DOMAIN F.from[p] |-> bb(F.from[p][k])]],
          succ |-> [x \in {bb(b) : b \in F.block} |->
                      [k \in DOMAIN F.succ[x[2]] |-> bb(F.succ[x[2]][k])]]]
  /\ ReMapper = NoMap /\ ThenVMap = NoMap /\ ElseVMap = NoMap /\ TailVMap = NoMap
  /\ IIT = 1 /\ ToRemove = {}

BuildRIV ==
  /\ ProcessParent
  /\ UNCHANGED <<pc, next, Targets, M, ReMapper, cloneVars>>

\* RIVResult.lookup: a block without an entry has no values.
ReachableValues(b) == Before(b)

\* findBBsToDuplicate, one block: the value is chosen at random.
ChooseTarget ==
  /\ RIVBuilt /\ pc = "choose" /\ next <= Len(F.order)
  /\ LET b == F.order[next]
     IN  \/ /\ b \in F.lpad \/ ReachableValues(b) = {}
            /\ UNCHANGED Targets
         \/ /\ b \notin F.lpad
            /\ \E v \in ReachableValues(b) :
                 Targets' = IF v[1] = "global" THEN Targets ELSE Append(Targets, <<b, v>>)
  /\ next' = next + 1
  /\ UNCHANGED <<rivVars, pc, M, ReMapper, cloneVars>>

Chosen ==
  /\ RIVBuilt /\ pc = "choose" /\ next > Len(F.order)
  /\ pc' = "split" /\ next' = 1
  /\ UNCHANGED <<rivVars, Targets, M, ReMapper, cloneVars>>

-----------------------------------------------------------------------------
(* cloneBB, for the block BB with the value ContextValue.                    *)

BB == Targets[next][1]
ContextValue == Targets[next][2]

\* Mutant: the value RIV has listed, even if it was replaced since.
CurrentContextListed == ContextValue

CurrentContext ==
  IF ContextValue \in DOMAIN ReMapper THEN ReMapper[ContextValue] ELSE ContextValue

Branching == [phis |-> <<>>, body |-> <<>>, term |-> <<"br", BB>>]

\* BasicBlock::splitBasicBlock: successors' phis name the tail for the block.
Renamed(from, old, new) ==
  [p \in DOMAIN from |-> [k \in DOMAIN from[p] |-> IF from[p][k] = old THEN new ELSE from[p][k]]]

\* Lines 158-189: the test is inserted after the phis, and the rest of the
\* block goes to the tail. Unconditional branches have no operands.
Split ==
  /\ pc = "split" /\ next <= Len(Targets)
  /\ LET head == bb(BB)
         then == <<"then", BB>>
         else == <<"else", BB>>
         tail == <<"tail", BB>>
         test == <<"isnull", BB>>
         sides == Put(Put(M.code, then, Branching), else, Branching)
         whole == Put(sides, tail, [M.code[head] EXCEPT !.phis = <<>>])
     IN  M' = [code |-> Put(whole, head, [phis |-> M.code[head].phis, body |-> <<test>>,
                                          term |-> <<"test", BB>>]),
               uses |-> Put(Put(Put(M.uses, <<"br", BB>>, <<>>), <<"test", BB>>, <<test>>),
                            test, <<CurrentContext>>),
               from |-> Renamed(M.from, head, tail),
               succ |-> Put(Put(Put(Put(M.succ, tail, M.succ[head]), else, <<tail>>), then, <<tail>>),
                            head, <<then, else>>)]
  /\ ThenVMap' = NoMap /\ ElseVMap' = NoMap /\ TailVMap' = NoMap
  /\ IIT' = 1 /\ ToRemove' = {}
  /\ pc' = "clone"
  /\ UNCHANGED <<rivVars, next, Targets, ReMapper>>

Then == <<"then", BB>>
Else == <<"else", BB>>
Tail_ == <<"tail", BB>>

Instr == M.code[Tail_].body[IIT]

\* RemapInstruction with RF_IgnoreMissingLocals.
Remapped(operands, vmap) ==
  [k \in DOMAIN operands |-> IF operands[k] \in DOMAIN vmap THEN vmap[operands[k]] ELSE operands[k]]

\* Lines 206-219: a clone at the end of either side.
WithClones ==
  LET then == <<"then", Instr[2]>>
      else == <<"else", Instr[2]>>
  IN  [M EXCEPT !.code[Then].body = Append(@, then),
                !.code[Else].body = Append(@, else),
                !.uses = Put(Put(@, else, Remapped(@[Instr], ElseVMap)),
                             then, Remapped(@[Instr], ThenVMap))]

\* ValueMap: a key that is replaced everywhere is replaced in the map.
Followed(vmap, old, new) ==
  IF old \in DOMAIN vmap THEN Put([v \in DOMAIN vmap \ {old} |-> vmap[v]], new, vmap[old]) ELSE vmap

\* Mutant: the instruction stays in the tail as well.
CloneVoidStays ==
  /\ pc = "clone" /\ IIT <= Len(M.code[Tail_].body) /\ Instr \in F.void
  /\ M' = WithClones
  /\ IIT' = IIT + 1
  /\ UNCHANGED <<rivVars, pc, next, Targets, ReMapper, ThenVMap, ElseVMap, TailVMap, ToRemove>>

\* Lines 221-225.
CloneVoid ==
  /\ pc = "clone" /\ IIT <= Len(M.code[Tail_].body) /\ Instr \in F.void
  /\ M' = WithClones
  /\ ThenVMap' = Put(ThenVMap, Instr, <<"then", Instr[2]>>)
  /\ ElseVMap' = Put(ElseVMap, Instr, <<"else", Instr[2]>>)
  /\ ToRemove' = ToRemove \cup {Instr}
  /\ IIT' = IIT + 1
  /\ UNCHANGED <<rivVars, pc, next, Targets, ReMapper, TailVMap>>

\* Lines 227-239: a phi of the clones replaces the instruction, everywhere.
CloneValue ==
  /\ pc = "clone" /\ IIT <= Len(M.code[Tail_].body) /\ Instr \notin F.void
  /\ LET phi  == <<"phi", Instr[2]>>
         then == <<"then", Instr[2]>>
         else == <<"else", Instr[2]>>
         uses == Put(WithClones.uses, phi, <<then, else>>)
     IN  /\ M' = [WithClones EXCEPT
                    !.code[Tail_].body[IIT] = phi,
                    !.uses = [v \in DOMAIN uses \ {Instr} |-> Remapped(uses[v], Put(NoMap, Instr, phi))],
                    !.from = Put(@, phi, <<Then, Else>>)]
         /\ ThenVMap' = Followed(Put(ThenVMap, Instr, then), Instr, phi)
         /\ ElseVMap' = Followed(Put(ElseVMap, Instr, else), Instr, phi)
         /\ TailVMap' = Followed(Put(TailVMap, Instr, phi), Instr, phi)
         /\ ReMapper' = Put(ReMapper, Instr, phi)
  /\ IIT' = IIT + 1
  /\ UNCHANGED <<rivVars, pc, next, Targets, ToRemove>>

\* The sequence without what is erased.
Without(s, erased) ==
  LET kept[n \in Nat] ==
        IF n = 0 THEN <<>>
        ELSE IF s[n] \in erased THEN kept[n - 1] ELSE Append(kept[n - 1], s[n])
  IN  kept[Len(s)]

\* Lines 201-204 for the terminator, and 242-246: what is left of the tail's
\* instructions are phis.
Purge ==
  /\ pc = "clone" /\ IIT > Len(M.code[Tail_].body)
  /\ LET term == M.code[Tail_].term
         uses == Put(M.uses, term, Remapped(M.uses[term], TailVMap))
     IN  M' = [M EXCEPT
                 !.code[Tail_].phis = Without(M.code[Tail_].body, ToRemove),
                 !.code[Tail_].body = <<>>,
                 !.uses = [v \in DOMAIN uses \ ToRemove |-> uses[v]]]
  /\ pc' = "split" /\ next' = next + 1
  /\ UNCHANGED <<rivVars, Targets, ReMapper, cloneVars>>

Duplicated ==
  /\ pc = "split" /\ next > Len(Targets)
  /\ pc' = "done"
  /\ UNCHANGED <<rivVars, next, Targets, M, ReMapper, cloneVars>>

DuplicateHalt == pc = "done" /\ UNCHANGED duplicateVars

DuplicateNext ==
  \/ BuildRIV \/ ChooseTarget \/ Chosen
  \/ Split \/ CloneVoid \/ CloneValue \/ Purge \/ Duplicated \/ DuplicateHalt

DuplicateSpec == DuplicateInit /\ [][DuplicateNext]_duplicateVars /\ WF_duplicateVars(DuplicateNext)
-----------------------------------------------------------------------------
(* Properties.                                                              *)

\* The present function.
Now == [block |-> DOMAIN M.code, entry |-> bb(F.entry), succ |-> M.succ,
        code |-> M.code, uses |-> M.uses, from |-> M.from]

\* The result of an invoke is chosen for a block that the other way out of the
\* invoke leads to: RIV lists it, as the invoke's block dominates that block.
ChosenUnwinding ==
  \E k \in DOMAIN Targets : \E d \in F.block :
    Targets[k][2] = F.code[d].term /\ ~AfterInvoke(F, F.dom, d, Targets[k][1])

\* What the pass leaves uses only values that are still in the function and
\* that are computed before they are used, whichever blocks were duplicated
\* before the context value's own; except where an invoke's result is chosen.
ContextsThere == pc = "done" => (UsesThere(Now) <=> ~ChosenUnwinding)

\* The value of F that v of M computes again.
Means(v) == IF v[1] \in {"then", "else", "phi"} THEN <<"inst", v[2]>> ELSE v

MeanThose(vs, us) ==
  /\ [k \in DOMAIN vs |-> Means(vs[k])] = us
  /\ \A k \in DOMAIN vs : [i \in DOMAIN M.uses[vs[k]] |-> Means(M.uses[vs[k]][i])] = F.uses[us[k]]

\* The block x, or what it was split into: its end.
EndOf(b) == IF <<"tail", b>> \in DOMAIN M.code THEN <<"tail", b>> ELSE bb(b)

\* Whichever way a test goes, the instructions of the block are executed once,
\* in order, on the values they had; the tail's phis take those of the side
\* that was executed; and the block is left as before, with what follows it
\* taking its phis' values from the tail.
BehaviourKept ==
  pc = "done" => \A b \in F.block :
    LET x == bb(b)
    IN  /\ MeanThose(M.code[x].phis, F.code[b].phis)
        /\ \A k \in DOMAIN M.code[x].phis :
             M.from[M.code[x].phis[k]] = [i \in DOMAIN F.from[F.code[b].phis[k]] |->
                                            EndOf(F.from[F.code[b].phis[k]][i])]
        /\ MeanThose(<<M.code[EndOf(b)].term>>, <<F.code[b].term>>)
        /\ M.succ[EndOf(b)] = [k \in DOMAIN F.succ[b] |-> bb(F.succ[b][k])]
        /\ IF EndOf(b) = x THEN MeanThose(M.code[x].body, F.code[b].body)
           ELSE /\ M.succ[x] = <<<<"then", b>>, <<"else", b>>>>
                /\ \A side \in {"then", "else"} :
                     /\ MeanThose(M.code[<<side, b>>].body, F.code[b].body)
                     /\ M.succ[<<side, b>>] = <<<<"tail", b>>>>
                /\ ToSet(M.code[EndOf(b)].phis) \subseteq DOMAIN M.from
                /\ \A v \in ToSet(M.code[EndOf(b)].phis) :
                     \A k \in DOMAIN M.uses[v] : M.uses[v][k][1] = M.from[v][k][1]
=============================================================================
