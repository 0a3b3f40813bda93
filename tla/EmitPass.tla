------------------------------ MODULE EmitPass ------------------------------
(***************************************************************************)
(* The emission pass of the recompiler: pass_Emit hands each function of   *)
(* m_function_map to IRFunc::EmitFunction, which finds where its basic     *)
(* blocks begin, then where they end, then walks the blocks and emits each *)
(* instruction.  Addresses count instructions (four bytes in the code).    *)
(*                                                                         *)
(* An instruction is [op, to, cond]: its mnemonic, its target if it is a   *)
(* branch, and whether it is a conditional return.  "plain" stands for     *)
(* every mnemonic that neither branches nor has an emitter of its own      *)
(* here, "unknown" for one the emitter does not have.  An emitted item is  *)
(* [at, kind, to]: the instruction it comes from, its kind, and the blocks *)
(* (of a branch) or the function (of a call) it names.  LLVM runs a block  *)
(* up to its first terminator.                                             *)
(***************************************************************************)
EXTENDS Handover, SequencesExt, FiniteSetsExt

CONSTANT
  Programs   (* what the earlier passes may hand over, as Handover says    *)

(* What the flow passes are shown to establish (HandsOver in Flow).        *)
ASSUME CallAssumption == \A prg \in Programs : CallsKnown(prg)

ASSUME ProgramAssumption == \A prg \in Programs : WellMade(prg)

VARIABLES
  program,     (* the program being recompiled                             *)
  done,        (* the functions whose emission_done is set                 *)
  codeBlocks,  (* per function with a body: start of block -> [end, body]  *)
  pc,          (* the loop that runs                                       *)
  func,        (* the function being emitted                               *)
  idx,         (* idx of that loop                                         *)
  block,       (* currentBlock, then block, by its address                 *)
  at           (* blockIdx                                                 *)

vars == <<program, done, codeBlocks, pc, func, idx, block, at>>

code  == program.code
funcs == program.funcs

isIRFuncinMap(a) == a \in DOMAIN funcs

End == funcs[func]

Item(i, kind, to) == [at |-> i, kind |-> kind, to |-> to]

Terminators == {"br", "condbr", "ret", "switch"}

(* getCreateBBinMap: a new CodeBlock is zeroed. *)
GetCreate(blocks, S) ==
  [a \in DOMAIN blocks \cup S |->
     IF a \in DOMAIN blocks THEN blocks[a] ELSE [end |-> 0, body |-> <<>>]]

(* initFuncBody: a function gets its body, with its first block, once. *)
InitFuncBody(bodies, S) ==
  [f \in DOMAIN bodies \cup S |->
     IF f \in DOMAIN bodies THEN bodies[f] ELSE GetCreate(<<>>, {f})]

Init ==
  /\ program \in Programs
  /\ done = program.imports
  /\ codeBlocks = [f \in program.imports |-> <<>>]
  /\ pc = "functions"
  /\ func = 0 /\ idx = 0 /\ block = 0 /\ at = 0

Dead ==
  /\ pc' = "dead"
  /\ UNCHANGED <<program, done, codeBlocks, func, idx, block, at>>

-----------------------------------------------------------------------------
(* pass_Emit: the next function, in the order of an unordered_map. *)
NextFunction(f) ==
  /\ pc = "functions"
  /\ f \in DOMAIN funcs \ done
  /\ codeBlocks' = InitFuncBody(codeBlocks, {f})
  /\ pc' = "leaders"
  /\ func' = f /\ idx' = f
  /\ UNCHANGED <<program, done, block, at>>

AllDone ==
  /\ pc = "functions"
  /\ DOMAIN funcs \subseteq done
  /\ pc' = "written"
  /\ UNCHANGED <<program, done, codeBlocks, func, idx, block, at>>

(* The tables of the function whose span of instructions holds i. *)
TablesAt(i) == {t \in program.tables : t.owner = func /\ i \in Span(t)}

(* The blocks that the instruction at i makes begin somewhere.  Mutant: a  *)
(* bc begins none behind it.                                               *)
LeadersOfTargets(i) ==
  (IF code[i].op \in {"b", "bc"} /\ ~ isIRFuncinMap(code[i].to) THEN {code[i].to} ELSE {})
    \cup UNION {Range(t.targets) : t \in TablesAt(i)}

Leaders(i) ==
  (IF code[i].op = "b" /\ ~ isIRFuncinMap(code[i].to) THEN {code[i].to} ELSE {})
    \cup (IF code[i].op = "bc" THEN {code[i].to, i + 1} ELSE {})
    \cup UNION {Range(t.targets) : t \in TablesAt(i)}

(* "discover start basic blocks" *)
FindLeaders ==
  /\ pc = "leaders"
  /\ idx <= End
  /\ idx \in DOMAIN code
  /\ codeBlocks' = [codeBlocks EXCEPT ![func] = GetCreate(@, Leaders(idx))]
  /\ idx' = idx + 1
  /\ UNCHANGED <<program, done, pc, func, block, at>>

LeadersFound ==
  /\ pc = "leaders"
  /\ idx > End
  /\ pc' = "ends"
  /\ idx' = func /\ block' = func
  /\ UNCHANGED <<program, done, codeBlocks, func, at>>

(***************************************************************************)
(* "discover end basic blocks": the current block ends before the next     *)
(* leader.  A bclr ends the block that is current by then, the next one if *)
(* a leader follows, and the end of the function ends the last.            *)
(***************************************************************************)
(* Mutants: the leader is looked for one instruction early; the last block *)
(* is left without an end.                                                 *)
NextBlockEarly(i) == IF i \in DOMAIN codeBlocks[func] THEN i ELSE block

EndsAtReturn(i) == code[i].op = "bclr"

NextBlock(i) == IF i + 1 \in DOMAIN codeBlocks[func] THEN i + 1 ELSE block

EndsAt(i) == code[i].op = "bclr" \/ i = End

FindEnds ==
  /\ pc = "ends"
  /\ idx <= End
  /\ idx \in DOMAIN code
  /\ LET next   == NextBlock(idx)
         before == IF next = block THEN codeBlocks[func]
                   ELSE [codeBlocks[func] EXCEPT ![block].end = idx]
     IN /\ block' = next
        /\ codeBlocks' = [codeBlocks EXCEPT ![func] =
             IF EndsAt(idx) THEN [before EXCEPT ![next].end = idx] ELSE before]
  /\ idx' = idx + 1
  /\ UNCHANGED <<program, done, pc, func, at>>

EndsFound ==
  /\ pc = "ends"
  /\ idx > End
  /\ pc' = "emit"
  /\ idx' = func
  /\ UNCHANGED <<program, done, codeBlocks, func, block, at>>

(* "emit": only a leader makes this loop advance. *)
EnterBlock ==
  /\ pc = "emit"
  /\ idx <= End
  /\ idx \in DOMAIN codeBlocks[func]
  /\ pc' = "block"
  /\ block' = idx /\ at' = idx
  /\ UNCHANGED <<program, done, codeBlocks, func, idx>>

LeaveBlock ==
  /\ pc = "block"
  /\ at > codeBlocks[func][block].end
  /\ pc' = "emit"
  /\ idx' = at
  /\ UNCHANGED <<program, done, codeBlocks, func, block, at>>

FunctionDone ==
  /\ pc = "emit"
  /\ idx > End
  /\ done' = done \cup {func}
  /\ pc' = "functions"
  /\ UNCHANGED <<program, codeBlocks, func, idx, block, at>>

-----------------------------------------------------------------------------
(* Where control goes on behind a run of nops, if it is decoded at all. *)
SkipNops(i) ==
  LET rest == {j \in DOMAIN code : i <= j /\ code[j].op # "nop"}
  IN IF rest = {} THEN {} ELSE {Min(rest)}

(* bl_e calls the target; when what follows is a function, it is called too. *)
AfterCall(i) == {f \in SkipNops(i + 1) : isIRFuncinMap(f)}

(* EmitInstruction and the emitters it calls: the items for instruction i. *)
Emitted(i) ==
  LET to == code[i].to IN
  CASE code[i].op \in {"plain", "bcctrl"} -> <<Item(i, "op", <<>>)>>
    [] code[i].op = "nop" ->
         IF i = End /\ isIRFuncinMap(i + 1)
         THEN <<Item(i, "ret", <<>>)>> ELSE <<Item(i, "op", <<>>)>>
    [] code[i].op = "b" ->
         IF isIRFuncinMap(to)
         THEN <<Item(i, "call", <<to>>), Item(i, "ret", <<>>)>>
         ELSE <<Item(i, "br", <<to>>)>>
    [] code[i].op = "bc"   -> <<Item(i, "condbr", <<to, i + 1>>)>>
    [] code[i].op = "bl"   ->
         <<Item(i, "call", <<to>>)>>
           \o IF AfterCall(i) = {} THEN <<>>
              ELSE <<Item(i, "call", SetToSeq(AfterCall(i))), Item(i, "ret", <<>>)>>
    [] code[i].op = "bclr" -> <<Item(i, "ret", <<>>)>>
    [] code[i].op = "bcctr" ->
         <<Item(i, "switch", (CHOOSE t \in TablesAt(i) : TRUE).targets)>>

(* What stops the emitter: an unknown mnemonic, a bcctr outside a table or *)
(* in one without targets, whose first is the default of the switch, a bl  *)
(* with no decoded instruction behind it.                                  *)
Stops(i) ==
  \/ code[i].op = "unknown"
  \/ code[i].op = "bcctr" /\ \A t \in TablesAt(i) : t.targets = <<>>
  \/ code[i].op = "bl" /\ SkipNops(i + 1) = {}

(* The functions whose bodies the emitters of i make begin. *)
Bodies(i) ==
  (IF code[i].op \in {"b", "bl"} /\ isIRFuncinMap(code[i].to) THEN {code[i].to} ELSE {})
    \cup (IF code[i].op = "bl" THEN AfterCall(i) ELSE {})

(* The branch to the next block that the loop adds at the end of a block. *)
Closing(i) ==
  IF i # End /\ i = codeBlocks[func][block].end /\ code[i].op # "bclr"
  THEN <<Item(i, "br", <<i + 1>>)>> ELSE <<>>

EmitInstruction ==
  /\ pc = "block"
  /\ at <= codeBlocks[func][block].end
  /\ at \in DOMAIN code
  /\ ~ Stops(at)
  /\ \A item \in Range(Closing(at)) : Range(item.to) \subseteq DOMAIN codeBlocks[func]
  /\ LET blocks == GetCreate(codeBlocks[func], Leaders(at))
     IN codeBlocks' = [InitFuncBody(codeBlocks, Bodies(at)) EXCEPT ![func] =
          [blocks EXCEPT ![block].body = @ \o Emitted(at) \o Closing(at)]]
  /\ at' = at + 1
  /\ UNCHANGED <<program, done, pc, func, idx, block>>

(* An address that is not decoded, a block that is not in the map and an   *)
(* instruction that cannot be emitted all end the recompiler.              *)
Throw ==
  /\ \/ pc \in {"leaders", "ends"} /\ idx <= End /\ idx \notin DOMAIN code
     \/ /\ pc = "block"
        /\ at <= codeBlocks[func][block].end
        /\ \/ at \notin DOMAIN code
           \/ at \in DOMAIN code /\ Stops(at)
           \/ /\ at \in DOMAIN code
              /\ \E item \in Range(Closing(at)) : ~ Range(item.to) \subseteq DOMAIN codeBlocks[func]
  /\ Dead

Next ==
  \/ \E f \in DOMAIN funcs : NextFunction(f)
  \/ AllDone
  \/ FindLeaders \/ LeadersFound
  \/ FindEnds \/ EndsFound
  \/ EnterBlock \/ EmitInstruction \/ LeaveBlock \/ FunctionDone
  \/ Throw

(* One thread runs the pass to its end. *)
Spec == Init /\ [][Next]_vars /\ WF_vars(Next)
-----------------------------------------------------------------------------
(* What a function may do next at instruction a, when calls return to the  *)
(* instruction behind them: on the PowerPC, and in the emitted blocks.     *)
Return == -1

OnPPC(a) ==
  CASE code[a].op \in {"plain", "nop", "bl", "bcctrl"} -> <<a + 1>>
    [] code[a].op = "b"    -> <<code[a].to>>
    [] code[a].op = "bc"   -> <<code[a].to, a + 1>>
    [] code[a].op = "bclr" -> IF code[a].cond THEN <<Return, a + 1>> ELSE <<Return>>
    [] code[a].op = "bcctr" -> (CHOOSE t \in program.tables : a \in Span(t)).targets

(* Emitted for f: the blocks inside its bounds, and the one that holds a.  *)
Blocks(f) == {l \in DOMAIN codeBlocks[f] : l \in f .. funcs[f]}

BlockOf(f, a) == CHOOSE l \in Blocks(f) : a \in l .. codeBlocks[f][l].end

(* A block runs up to its first terminator; a ret behind a call made by    *)
(* the same instruction is a tail call.                                    *)
InIR(f, a) ==
  LET body == codeBlocks[f][BlockOf(f, a)].body
      last == {k \in DOMAIN body : body[k].kind \in Terminators}
      stop == body[Min(last)]
      tail == Min(last) > 1 /\ body[Min(last) - 1].at = stop.at
                            /\ body[Min(last) - 1].kind = "call"
  IN IF last = {} \/ a < stop.at THEN <<a + 1>>
     ELSE IF a > stop.at THEN <<>>
     ELSE IF stop.kind # "ret" THEN stop.to
     ELSE IF tail THEN body[Min(last) - 1].to ELSE <<Return>>

(* Nops between a call and what follows it make no difference. *)
PastNops(to) == [k \in DOMAIN to |-> IF SkipNops(to[k]) = {} THEN to[k] ELSE Min(SkipNops(to[k]))]

(* A tail call, or a call with a function behind it, leaves the function. *)
Leaves(a) ==
  \/ code[a].op = "b" /\ isIRFuncinMap(code[a].to)
  \/ code[a].op = "bl" /\ AfterCall(a) # {}

Stay(a) == IF Leaves(a) THEN {} ELSE Range(OnPPC(a)) \ {Return}

(* The instructions of f that control reaches from its start: the fewest   *)
(* that hold it and what may follow each of them inside the bounds of f.   *)
Reached(f) ==
  LET span == f .. funcs[f]
      all  == {f} \cup UNION {Stay(a) : a \in span}
  IN {x \in all : \A S \in SUBSET all :
        f \in S /\ (\A a \in S \cap span : Stay(a) \subseteq S) => x \in S}

(* Control stays inside the bounds the flow passes found for f. *)
Closed(f) == Reached(f) \subseteq f .. funcs[f]

ReturnsAlways(f) == \A a \in Reached(f) : ~ code[a].cond

Finished == done \ program.imports

(* The blocks emitted for a finished function do what its instructions do: *)
(* from each instruction that can be reached, control goes to the same     *)
(* places, wherever blocks were split and terminators added.               *)
FlowPreserved ==
  \A f \in Finished :
    Closed(f) /\ ReturnsAlways(f) =>
      \A a \in Reached(f) : PastNops(InIR(f, a)) = PastNops(OnPPC(a))

(* The same of every function, those with conditional returns too: what    *)
(* the comment on the emit pass says of all instructions.                  *)
EquivalentCode ==
  \A f \in Finished :
    Closed(f) => \A a \in Reached(f) : PastNops(InIR(f, a)) = PastNops(OnPPC(a))

(* The blocks of a finished function tile its bounds, and each holds its   *)
(* instructions in order: nothing is emitted twice, or left out, however   *)
(* branches cut the function up.                                           *)
EmittedOnce ==
  \A f \in Finished :
    LET body(l) == codeBlocks[f][l].body
        span(l) == l .. codeBlocks[f][l].end
    IN /\ UNION {span(l) : l \in Blocks(f)} = f .. funcs[f]
       /\ \A l, m \in Blocks(f) : l # m => span(l) \cap span(m) = {}
       /\ \A l \in Blocks(f) :
            /\ {body(l)[k].at : k \in DOMAIN body(l)} = span(l)
            /\ \A k \in DOMAIN body(l) \ {1} :
                 body(l)[k].at - body(l)[k - 1].at \in {0, 1}

(* A program the pass can take: all decoded, every mnemonic known, every   *)
(* bcctr in a table of its function that has a default at least.           *)
Acceptable ==
  /\ AllDecoded(program)
  /\ \A f \in DOMAIN funcs \ program.imports : \A a \in f .. funcs[f] :
       /\ code[a].op # "unknown"
       /\ code[a].op = "bcctr" =>
            \E t \in program.tables : t.owner = f /\ a \in Span(t) /\ t.targets # <<>>
       /\ code[a].op = "bl" => SkipNops(a + 1) # {}

(* The emit loop, which moves on only at a leader, never comes to stand    *)
(* between two; and an acceptable program is not thrown away, as no block  *)
(* that an emitter or the end of a block branches to is missing.           *)
NeverStuck ==
  /\ pc = "emit" /\ idx <= End => idx \in DOMAIN codeBlocks[func]
  /\ pc = "dead" => ~ Acceptable

(* What is left of a function: its loops, of a loop the instructions ahead *)
(* of idx, and of a block those ahead of blockIdx.                         *)
Ahead(i) == IF i > End THEN 0 ELSE End - i + 1

Left ==
  CASE pc = "functions" -> <<4, 0, 0>>
    [] pc = "leaders"   -> <<3, Ahead(idx), 0>>
    [] pc = "ends"      -> <<2, Ahead(idx), 0>>
    [] pc = "emit"      -> <<1, Ahead(idx), Ahead(idx) + 1>>
    [] pc = "block"     -> <<1, Ahead(idx), Ahead(at)>>
    [] OTHER            -> <<0, 0, 0>>

Fewer(s, t) == \E k \in 1 .. 3 : s[k] < t[k] /\ \A j \in 1 .. k - 1 : s[j] = t[j]

(* No step goes round: each finishes a function or leaves less of the one  *)
(* at work.  A block without its end would be left where it was entered,   *)
(* and entered again.                                                      *)
StepsCount ==
  [][ \/ done \subseteq done' /\ done' # done /\ done' \subseteq DOMAIN funcs
      \/ done' = done /\ Fewer(Left', Left) ]_vars

(* The pass ends, and an acceptable program is written out.                *)
PassEnds == <>(pc = "written" \/ (pc = "dead" /\ ~ Acceptable))
=============================================================================
