-------------------------------- MODULE Flow --------------------------------
(***************************************************************************)
(* pass_Flow of the recompiler: a fixed order of passes, per executable    *)
(* section, that finds where functions start ("prologue") and end          *)
(* ("epilogue") and fills m_function_map, which pass_Emit then walks.      *)
(* Each pass is an action; the passes that walk the map do the same for    *)
(* every function whatever the order, except flow_demoteInBounds, which    *)
(* erases from the map it walks and takes a step per function.             *)
(*                                                                         *)
(* Addresses count instructions from the start of the image; None stands   *)
(* for 0, the end_address of a function whose end is not known, which no   *)
(* image holds.  An instruction is [op, to, crf, imm]:                     *)
(* "stw" stores at the stack pointer, "mflr" and "mtlr" are the words      *)
(* 7d8802a6 and 7d8803a6, "savegpr" and "restgpr" the first words of       *)
(* savegprlr_14 and restgprlr_14, "savevr" those of their relatives that   *)
(* stop in DebugBreak, "addr" a word that decodes as lwz and is an address *)
(* inside a section.                                                       *)
(***************************************************************************)
EXTENDS Handover, SequencesExt, FiniteSetsExt

CONSTANTS
  Programs,     (* [code, sections, imports, pdata, data, cases]: the code  *)
                (* by address; the executable sections, <<first, last>>     *)
                (* each; the import stubs; .pdata as start -> length; the   *)
                (* words of .data; where a jump table is read, its entries  *)
  Entry,        (* the entry point, put into the map by InitLLVM            *)
  StubLength,   (* 4: instructions of an import stub                        *)
  SaveRegs,     (* 18: registers that savegprlr_14 stores                   *)
  TailDistance, (* 16: 0x40 bytes, from where a b may be a tail call        *)
  SignWrap,     (* 2^22: 24 bits, where signExtend(., 24) takes the sign    *)
  BcWrap,       (* 2^14: what a bc displacement wraps at when not extended  *)
  Pattern,      (* the mnemonics that a jump table begins with              *)
  Window        (* 10: instructions searched for its bc and cmplwi          *)

(* instr.address + signExtend(ops[0], 24), of a branch at i that says to. *)
Displaced(i, to) ==
  LET d == to - i
  IN i + IF (d \div (SignWrap \div 2)) % 2 = 1 THEN (d % SignWrap) - SignWrap ELSE d

(***************************************************************************)
(* Addresses are above 0, where no image lies, and none of its branches    *)
(* reaches.  What is decoded is what the executable sections hold.         *)
(***************************************************************************)
Addresses == Nat \ {0}

ASSUME FlowAssumption ==
  /\ SaveRegs \in Nat /\ StubLength \in Nat /\ Window \in Nat
  /\ SignWrap \in Nat /\ SignWrap > 1
  /\ Entry \in Addresses
  /\ \A prg \in Programs :
       /\ prg.sections \in Seq(Addresses \X Addresses) /\ prg.sections # <<>>
       /\ prg.data \cup prg.imports \cup DOMAIN prg.pdata \cup DOMAIN prg.code \subseteq Addresses
       /\ \A a \in DOMAIN prg.pdata : prg.pdata[a] \in Nat
       /\ \A i \in DOMAIN prg.code :
            /\ prg.code[i].to \in Int
            /\ prg.code[i].op \in {"b", "bl"} => Displaced(i, prg.code[i].to) \in Addresses
            /\ prg.code[i].op = "bl" =>
                 \E k \in DOMAIN prg.sections : i \in prg.sections[k][1] .. prg.sections[k][2]

VARIABLES
  program,  (* what is recompiled                                          *)
  funcs,    (* m_function_map: start -> [end, lr, promo, done, tables]     *)
  sec,      (* which executable section                                    *)
  pc,       (* the pass that runs next                                     *)
  todo      (* what the loop of flow_demoteInBounds has not reached        *)

vars == <<program, funcs, sec, pc, todo>>

code  == program.code
first == program.sections[sec][1]
last  == program.sections[sec][2]    (* end - 4 in the code *)

At(instrs, i, ops) == i \in DOMAIN instrs /\ instrs[i].op \in ops

Op(i, ops) == At(code, i, ops)

isIRFuncinMap(a) == a \in DOMAIN funcs

None == -1

New == [end |-> None, lr |-> FALSE, promo |-> FALSE, done |-> FALSE, tables |-> {}]

(* getCreateFuncInMap *)
GetCreate(fs, S) ==
  [a \in DOMAIN fs \cup S |-> IF a \in DOMAIN fs THEN fs[a] ELSE New]

(* Functions found together with their ends. *)
WithEnds(fs, ends) ==
  [a \in DOMAIN fs \cup DOMAIN ends |->
     [GetCreate(fs, {a})[a] EXCEPT !.end = IF a \in DOMAIN ends THEN ends[a] ELSE @]]

Target(i) == Displaced(i, code[i].to)

Init ==
  /\ program \in Programs
  /\ funcs = GetCreate(<<>>, {Entry})
  /\ sec = 1
  /\ pc = "imports"
  /\ todo = {}

Goto(p) == pc' = p /\ UNCHANGED <<program, sec, todo>>

(* out_of_range from instrsList.at, or DebugBreak, ends the recompiler. *)
Dead == Goto("dead") /\ UNCHANGED funcs
-----------------------------------------------------------------------------
PatchImportsFunctions ==
  /\ pc = "imports"
  /\ funcs' = [a \in DOMAIN funcs \cup program.imports |->
                 IF a \in program.imports
                 THEN [New EXCEPT !.end = a + StubLength, !.done = TRUE] ELSE funcs[a]]
  /\ Goto("pdata")

FlowPData ==
  /\ pc = "pdata"
  /\ funcs' = WithEnds(funcs, [a \in DOMAIN program.pdata |-> a + program.pdata[a] - 1])
  /\ Goto("section")

FirstFunction ==
  /\ pc = "section"
  /\ funcs' = GetCreate(funcs, {first})
  /\ Goto("saveRest")

(* The i-th register's entry of a save or a rest routine: it has that many *)
(* registers fewer to handle, then one or two instructions and the bclr.   *)
Routine(i, more) == [a \in i .. i + SaveRegs - 1 |-> i + SaveRegs + more]

(* The instructions that a loop from start to end - 4 looks at. *)
Walk == [k \in 1 .. last - first |-> first + k - 1]

SaveRest(fs, i) ==
  CASE Op(i, {"savegpr"}) -> WithEnds(fs, Routine(i, 1))
    [] Op(i, {"restgpr"}) -> WithEnds(fs, Routine(i, 2))
    [] OTHER              -> fs

FlowPromoteSaveRest ==
  /\ pc = "saveRest"
  /\ IF \E i \in first .. last - 1 : Op(i, {"savevr"}) THEN Dead
     ELSE /\ funcs' = FoldLeft(SaveRest, funcs, Walk)
          /\ Goto("blJumps")

FlowBlJumps ==
  /\ pc = "blJumps"
  /\ funcs' = GetCreate(funcs, {Target(i) : i \in {j \in first .. last : Op(j, {"bl"})}})
  /\ Goto("mfspr")

FlowMfsprProl ==
  /\ pc = "mfspr"
  /\ LET saves == {i \in first .. last : Op(i, {"mflr"})}
     IN funcs' = [a \in DOMAIN funcs \cup saves |->
                    [GetCreate(funcs, {a})[a] EXCEPT !.lr = @ \/ a \in saves]]
  /\ Goto("promoteTail")

(* A branch far away, or backwards: ops[0] is compared unsigned. *)
Far(i) == code[i].to - i \notin 0 .. TailDistance

(* What the branch at i makes a function of, if the map is fs by then. *)
TailTargets(fs, i) ==
  LET tail == Op(i + 1, {"nop"}) /\ Far(i)
  IN (IF Op(i, {"b"}) /\ (tail \/ i + 1 \in DOMAIN fs) THEN {Target(i)} ELSE {})
       \cup (IF Op(i, {"bc"}) /\ Op(i + 1, {"b"}) /\ code[i].to = i + 2
               THEN {Target(i + 1)} ELSE {})

(* Mutant: a target that is in the map already becomes a promotion too. *)
PromoteAll(fs, S) ==
  [a \in DOMAIN fs \cup S |-> [GetCreate(fs, {a})[a] EXCEPT !.promo = @ \/ a \in S]]

Promote(fs, S) ==
  [a \in DOMAIN fs \cup S |->
     IF a \in DOMAIN fs THEN fs[a] ELSE [New EXCEPT !.promo = TRUE]]

PromoteTail(fs, i) == Promote(fs, TailTargets(fs, i))

FlowPromoteTailProl ==
  /\ pc = "promoteTail"
  /\ funcs' = FoldLeft(PromoteTail, funcs, Walk)
  /\ Goto("stackInit")

FlowStackInitProl ==
  /\ pc = "stackInit"
  /\ funcs' = GetCreate(funcs, {i \in first .. last - 1 :
                  Op(i, {"stw"}) /\ (i = first \/ Op(i - 1, {"bclr", "nop"}))})
  /\ Goto("data")

(* The bounds of the section are both included. *)
InSection(w) == w \in first .. last + 1

FlowDataSecAdr ==
  /\ pc = "data"
  /\ funcs' = GetCreate(funcs, {w \in program.data : InSection(w)})
  /\ Goto("mtspr")
-----------------------------------------------------------------------------
FirstOf(S) == IF S = {} THEN None ELSE Min(S)

Decoded(a, b) == a .. b \subseteq DOMAIN code

(* A function that saved LR ends at the bclr behind its mtspr LR. *)
Restore(f) == FirstOf({i \in f .. last : Op(i, {"mtlr"})})

ReturnAfter(i) == FirstOf({j \in DOMAIN code : j > i /\ Op(j, {"bclr"}) /\ Decoded(i, j)})

NoEnd == {f \in DOMAIN funcs : funcs[f].end = None}

ByRestore == {f \in NoEnd : funcs[f].lr /\ Restore(f) # None}

FlowMtsprEpil ==
  /\ pc = "mtspr"
  /\ IF \/ \E f \in ByRestore : ~ Decoded(f, Restore(f)) \/ ReturnAfter(Restore(f)) = None
        \/ \E f \in NoEnd \ ByRestore : funcs[f].lr /\ ~ Decoded(f, last)
     THEN Dead
     ELSE /\ funcs' = WithEnds(funcs, [f \in ByRestore |-> ReturnAfter(Restore(f))])
          /\ Goto("bclrAndTail")

(* The scan for an end stops at a jump or a return that an address, a nop  *)
(* or a function follows, and at the last instruction of the section.      *)
(* Mutants: the last instruction stops nothing; nor does a function behind *)
(* a return.                                                               *)
StopInside(i) ==
  /\ i # last
  /\ Op(i, {"b", "bclr"})
  /\ Op(i + 1, {"addr", "nop"}) \/ isIRFuncinMap(i + 1)

StopAtNops(i) ==
  \/ i = last
  \/ Op(i, {"b", "bclr"}) /\ Op(i + 1, {"addr", "nop"})

Stop(i) ==
  \/ i = last
  \/ Op(i, {"b", "bclr"}) /\ (Op(i + 1, {"addr", "nop"}) \/ isIRFuncinMap(i + 1))

FirstStop(f) == FirstOf({i \in f .. last : Stop(i)})

(* The search for the next function, behind nops, wraps around. *)
NextStart(i) ==
  LET later == {a \in DOMAIN funcs : a >= i}
  IN IF later = {} THEN Min(DOMAIN funcs) ELSE Min(later)

ScannedEnd(f) ==
  LET s == FirstStop(f)
  IN IF s # last /\ Op(s, {"b"}) /\ Op(s + 1, {"nop"}) THEN NextStart(s + 1) - 1 ELSE s

FlowBclrAndTailEpil ==
  /\ pc = "bclrAndTail"
  /\ LET scanned == {f \in NoEnd : f <= last}
     IN IF \E f \in scanned : ~ Decoded(f, Min({last, FirstStop(f) + 1})) THEN Dead
        ELSE /\ funcs' = WithEnds(funcs, [f \in scanned |-> ScannedEnd(f)])
             /\ Goto("fixIf")

Branches == {"b", "bclr", "bc"}

(* An end that is an address goes back to the last branch before it. *)
BranchBefore(e) ==
  LET before == {i \in DOMAIN code : i < e /\ Op(i, Branches) /\ Decoded(i, e)}
  IN IF before = {} THEN None ELSE Max(before)

FixedEnd(e) == IF Op(e, {"addr"}) THEN BranchBefore(e) ELSE e

FlowFixIfAddresses ==
  /\ pc = "fixIf"
  /\ LET known == {f \in DOMAIN funcs \ NoEnd : funcs[f].end # last + 1}
     IN IF \E f \in known : funcs[f].end \notin DOMAIN code \/ FixedEnd(funcs[f].end) = None
        THEN Dead /\ UNCHANGED todo
        ELSE /\ funcs' = WithEnds(funcs, [f \in known |-> FixedEnd(funcs[f].end)])
             /\ pc' = "demote" /\ todo' = DOMAIN funcs
             /\ UNCHANGED <<program, sec>>

(* Mutant: one instruction less counts as inside. *)
isWellInFuncBound(a) == \E g \in DOMAIN funcs : g < a /\ a < funcs[g].end - 1

isInFuncBound(a) == \E g \in DOMAIN funcs : g < a /\ a < funcs[g].end

(* The range-for erases the element it stands on: the freed node may still *)
(* lead on to the next one, or the walk may end the recompiler.            *)
FlowDemoteInBounds(f) ==
  /\ pc = "demote" /\ f \in todo
  /\ IF funcs[f].promo /\ isInFuncBound(f)
     THEN \/ /\ funcs' = [a \in DOMAIN funcs \ {f} |-> funcs[a]]
             /\ todo' = todo \ {f}
             /\ UNCHANGED <<program, sec, pc>>
          \/ Dead
     ELSE /\ todo' = todo \ {f}
          /\ UNCHANGED <<program, funcs, sec, pc>>

DemotedAll ==
  /\ pc = "demote" /\ todo = {}
  /\ Goto("jumpTables") /\ UNCHANGED funcs
-----------------------------------------------------------------------------
(* findTargetsSize, from the table backwards: every bc gives a default and *)
(* the field to look for, a cmplwi of that field the size and the end.     *)
Default(instrs, i) == i + ((instrs[i].to - i) % BcWrap)

Searched(i) == [k \in 1 .. Window |-> i - (k - 1)]

Look(instrs, s, j) ==
  IF s.size > 0 THEN s
  ELSE CASE j \notin DOMAIN instrs -> [s EXCEPT !.out = TRUE]
         [] At(instrs, j, {"bc"})  ->
              [s EXCEPT !.field = instrs[j].crf, !.targets = Append(@, Default(instrs, j))]
         [] At(instrs, j, {"cmplwi"}) /\ instrs[j].crf = s.field ->
              [s EXCEPT !.size = instrs[j].imm + 1]
         [] OTHER -> s

FindTargetsSize(instrs, i) ==
  FoldLeft(LAMBDA s, j : Look(instrs, s, j),
           [field |-> -1, size |-> 0, targets |-> <<>>, out |-> FALSE], Searched(i))

(* ComputeTargets: the loop over the entries starts at index 1.  Mutant:   *)
(* it ends one entry late.                                                 *)
CasesAndOne(prg, i, n) == SubSeq(prg.cases[i], 2, n + 1)

Cases(prg, i, n) == SubSeq(prg.cases[i], 2, n)

ComputeTargets(prg, i) ==
  LET found == FindTargetsSize(prg.code, i) IN found.targets \o Cases(prg, i, found.size)

Begins(instrs, i, n) == \A k \in 1 .. n : At(instrs, i + k - 1, {Pattern[k]})

(***************************************************************************)
(* A pattern has one bcctr, its last.  A bc leads forwards by less than    *)
(* its displacement wraps at, and where a table is, there are the entries  *)
(* that its compare allows for.                                            *)
(***************************************************************************)
ASSUME TablesAssumption ==
  /\ BcWrap \in Nat \ {0}
  /\ Pattern \in Seq(STRING) /\ Len(Pattern) > 1 /\ Pattern[1] \notin {"bc", "cmplwi"}
  /\ \A k \in 1 .. Len(Pattern) : Pattern[k] = "bcctr" <=> k = Len(Pattern)
  /\ \A prg \in Programs : \A i \in DOMAIN prg.code :
       /\ At(prg.code, i, {"bc"}) => prg.code[i].to - i < BcWrap
       /\ At(prg.code, i, {"cmplwi"}) => prg.code[i].imm \in Nat
       /\ Begins(prg.code, i, Len(Pattern)) =>
            /\ i \in DOMAIN prg.cases /\ prg.cases[i] \in Seq(Addresses)
            /\ FindTargetsSize(prg.code, i).size <= Len(prg.cases[i])

Tables(f) == {i \in f .. funcs[f].end : Begins(code, i, Len(Pattern))}

TablesOf(f) ==
  {[owner |-> f, first |-> i, last |-> i + Len(Pattern), targets |-> ComputeTargets(program, i)] :
     i \in Tables(f)}

(* Mutant: an address without an instruction ends the search, and no more. *)
ReadsAhead(f) ==
  \/ \E i \in f .. funcs[f].end, n \in 1 .. Len(Pattern) - 1 :
       Begins(code, i, n) /\ i + n \notin DOMAIN code
  \/ \E i \in Tables(f) : FindTargetsSize(code, i).out

(* What the search for tables in f reads outside the code. *)
ReadsOutside(f) ==
  \/ ~ Decoded(f, funcs[f].end)
  \/ \E i \in f .. funcs[f].end, n \in 1 .. Len(Pattern) - 1 :
       Begins(code, i, n) /\ i + n \notin DOMAIN code
  \/ \E i \in Tables(f) : FindTargetsSize(code, i).out

FlowJumpTables ==
  /\ pc = "jumpTables"
  /\ LET walked == {f \in DOMAIN funcs : ~ funcs[f].done}
     IN IF \E f \in walked : ReadsOutside(f) THEN Dead
        ELSE /\ funcs' = [f \in DOMAIN funcs |->
                  [funcs[f] EXCEPT !.tables = IF f \in walked THEN TablesOf(f) ELSE @]]
             /\ Goto("detect")

FlowDetectIncomplete ==
  /\ pc = "detect"
  /\ IF NoEnd # {} THEN Goto("broken")
     ELSE IF sec < Len(program.sections)
     THEN pc' = "section" /\ sec' = sec + 1 /\ UNCHANGED <<program, todo>>
     ELSE Goto("done")
  /\ UNCHANGED funcs

Next ==
  \/ PatchImportsFunctions \/ FlowPData \/ FirstFunction
  \/ FlowPromoteSaveRest \/ FlowBlJumps \/ FlowMfsprProl
  \/ FlowPromoteTailProl \/ FlowStackInitProl \/ FlowDataSecAdr
  \/ FlowMtsprEpil \/ FlowBclrAndTailEpil
  \/ FlowFixIfAddresses
  \/ \E f \in todo : FlowDemoteInBounds(f)
  \/ DemotedAll \/ FlowJumpTables \/ FlowDetectIncomplete

Spec == Init /\ [][Next]_vars
-----------------------------------------------------------------------------
(* What pass_Emit finds in instrsList and m_function_map.  Its branches    *)
(* go where those of the passes go; which of the other mnemonics have an   *)
(* emitter, and which returns are conditional, no pass asks.               *)
Seen(i) ==
  [op |-> IF Op(i, Mnemonics) THEN code[i].op ELSE "plain",
   to |-> IF Op(i, {"b", "bl"}) THEN Target(i) ELSE code[i].to]

HandedOver ==
  [code    |-> [i \in DOMAIN code |-> Seen(i)],
   funcs   |-> [f \in DOMAIN funcs |-> funcs[f].end],
   imports |-> {f \in DOMAIN funcs : funcs[f].done},
   tables  |-> UNION {funcs[f].tables : f \in DOMAIN funcs}]

Section(k) == program.sections[k][1] .. program.sections[k][2]

Calls(k) == {i \in Section(k) : Op(i, {"bl"})}

(* The b's of section k that lead to a. *)
Jumps(k, a) == {i \in Section(k) : Op(i, {"b"}) /\ Target(i) = a}

(* An earlier section, which does not end before a, jumps to a: its round  *)
(* may have promoted a, and the flag stays set.                            *)
PromotedBefore(k, a) ==
  \E j \in 1 .. k - 1 : a <= program.sections[j][2] /\ Jumps(j, a) # {}

(* What is called, entered, imported or listed in .pdata is a function at  *)
(* the end: a demotion never takes a start that was known otherwise, which *)
(* is what bl_e relies on when pass_Emit walks the map.  Left out are      *)
(* calls of what an earlier round promoted, which can still be demoted.    *)
KnownStartsKept ==
  pc = "done" =>
    /\ {Entry} \cup program.imports \cup DOMAIN program.pdata \subseteq DOMAIN funcs
    /\ \A k \in DOMAIN program.sections : \A i \in Calls(k) :
         isIRFuncinMap(Target(i)) \/ PromotedBefore(k, Target(i))

(* When the flow passes are done, what they leave is what the emission     *)
(* takes for granted: functions of decoded instructions, one table to a    *)
(* bcctr, and a function for each call, unless an earlier section may have *)
(* promoted what is called.                                                *)
HandsOver ==
  pc = "done" =>
    /\ WellMade(HandedOver) /\ AllDecoded(HandedOver)
    /\ (\A k \in DOMAIN program.sections : \A i \in Calls(k) : ~ PromotedBefore(k, Target(i)))
         => CallsKnown(HandedOver)

(* No promotion that is left lies inside the bounds of another function,   *)
(* whatever the order in which they were demoted.                          *)
PromotedOutside ==
  pc = "done" =>
    \A f, g \in DOMAIN funcs :
      funcs[f].promo /\ g < f => f >= funcs[g].end

BehindLeave(n) == Op(n - 1, {"b", "bclr"})

(* Where a jump or a return stands before the next function, the function  *)
(* before it ends at or before that, and not before it starts.             *)
EndsBeforeNext ==
  [][ pc = "bclrAndTail" /\ pc' = "fixIf" =>
        \A f \in NoEnd, n \in DOMAIN funcs :
          f < n /\ n <= last /\ BehindLeave(n) =>
            f <= funcs'[f].end /\ funcs'[f].end < n ]_vars

(* flow_detectIncomplete breaks for a function that starts behind the      *)
(* section: a word of .data that is its very end, a call into a later one. *)
BreaksOnlyOutside ==
  pc = "broken" => \E f \in NoEnd : f > last

(* A jump table with its bounds check in the window, and a default that    *)
(* lies behind it, leads to the default first and else to its cases only,  *)
(* and to each of them but the first, which the loops leave out.           *)
TablesLeadToCases ==
  pc = "done" =>
    \A f \in DOMAIN funcs : \A t \in funcs[f].tables :
      \A b, c \in t.first - Window + 1 .. t.first - 1 :
        /\ c < b /\ Op(b, {"bc"}) /\ Op(c, {"cmplwi"}) /\ code[b].crf = code[c].crf
        /\ code[b].to >= b
        /\ \A i \in c .. t.first - 1 : Op(i, {"bc", "cmplwi"}) => i \in {b, c}
        => /\ t.targets[1] = code[b].to
           /\ Range(Tail(t.targets)) \subseteq
                Range(SubSeq(program.cases[t.first], 1, code[c].imm + 1))
           /\ \A k \in 1 .. code[c].imm :
                program.cases[t.first][k + 1] \in Range(Tail(t.targets))
=============================================================================
