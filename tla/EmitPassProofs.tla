--------------------------- MODULE EmitPassProofs ---------------------------
(***************************************************************************)
(* What the emission pass guarantees for every program: the blocks of a    *)
(* function tile its bounds and hold each instruction once, in order, and  *)
(* control goes the way the PowerPC instructions send it.                  *)
(*                                                                         *)
(* What is said of a function names the program, the function and its map  *)
(* of blocks, so that it still stands when the pass goes on to the next.   *)
(***************************************************************************)
EXTENDS EmitPass, FoldLemmas

(* The assumptions, spelled out. *)
LEMMA CallsAre ==
  \A prg \in Programs :
    /\ prg.imports \subseteq DOMAIN prg.funcs
    /\ \A a \in DOMAIN prg.code :
         prg.code[a].op = "bl" => prg.code[a].to \in DOMAIN prg.funcs
BY CallAssumption DEF CallsKnown

LEMMA ProgramsAre ==
  \A prg \in Programs :
    /\ DOMAIN prg.funcs \subseteq Nat /\ \A f \in DOMAIN prg.funcs : prg.funcs[f] \in Int
    /\ DOMAIN prg.code \subseteq Nat
    /\ \A a \in DOMAIN prg.code : prg.code[a].op \in Mnemonics /\ prg.code[a].to \in Int
    /\ \A t \in prg.tables : t.first \in Int /\ t.last \in Int /\ t.targets \in Seq(Int)
    /\ \A t, u \in prg.tables : \A a \in DOMAIN prg.code \cap Span(t) \cap Span(u) :
         prg.code[a].op = "bcctr" => t.targets = u.targets
BY ProgramAssumption DEF WellMade

Kinds == {"op", "call"} \cup Terminators

ItemType == [at : Int, kind : Kinds, to : Seq(Int)]

CodeBlock == [end : Int, body : Seq(ItemType)]

(* SkipNops, AfterCall, TablesAt and Leaders, of a program and a function. *)
Nops(prg, i) ==
  LET rest == {j \in DOMAIN prg.code : i <= j /\ prg.code[j].op # "nop"}
  IN IF rest = {} THEN {} ELSE {Min(rest)}

After(prg, i) == Nops(prg, i + 1) \cap DOMAIN prg.funcs

TablesIn(prg, f, i) == {t \in prg.tables : t.owner = f /\ i \in Span(t)}

LeadersIn(prg, f, i) ==
  (IF prg.code[i].op = "b" /\ prg.code[i].to \notin DOMAIN prg.funcs
   THEN {prg.code[i].to} ELSE {})
    \cup (IF prg.code[i].op = "bc" THEN {prg.code[i].to, i + 1} ELSE {})
    \cup UNION {Range(t.targets) : t \in TablesIn(prg, f, i)}

(* A nop that is emitted as the return of a function that runs into another. *)
NopReturns(prg, f, i) ==
  prg.code[i].op = "nop" /\ i = prg.funcs[f] /\ i + 1 \in DOMAIN prg.funcs

CallReturns(prg, i) == prg.code[i].op = "bl" /\ After(prg, i) # {}

(* The instructions whose emission ends an LLVM block. *)
Breaks(prg, f, i) ==
  \/ prg.code[i].op \in {"b", "bc", "bclr", "bcctr"}
  \/ CallReturns(prg, i)
  \/ NopReturns(prg, f, i)

(* The instructions that can be emitted at all. *)
Known(prg, f, i) ==
  /\ prg.code[i].op # "unknown"
  /\ prg.code[i].op = "bcctr" => TablesIn(prg, f, i) # {}

(* Where the items of an instruction send control. *)
Goes(prg, f, i) ==
  LET op == prg.code[i].op IN
  IF op = "b" THEN <<prg.code[i].to>>
  ELSE IF op = "bc" THEN <<prg.code[i].to, i + 1>>
  ELSE IF op = "bclr" \/ NopReturns(prg, f, i) THEN <<Return>>
  ELSE IF op = "bcctr" THEN (CHOOSE t \in TablesIn(prg, f, i) : TRUE).targets
  ELSE IF CallReturns(prg, i) THEN SetToSeq(After(prg, i))
  ELSE <<i + 1>>

-----------------------------------------------------------------------------
IsEnd(b, k) == b[k].kind \in Terminators

FirstEnd(b, k) == IsEnd(b, k) /\ \A m \in DOMAIN b : m < k => ~ IsEnd(b, m)

Outcome(b, k) ==
  IF b[k].kind # "ret" THEN b[k].to
  ELSE IF k > 1 /\ b[k - 1].at = b[k].at /\ b[k - 1].kind = "call"
       THEN b[k - 1].to ELSE <<Return>>

(* A body, of a block that ends at e: its items come in the order of their *)
(* instructions, a terminator comes of one that breaks the block or of the *)
(* last one, and the first terminator does what its instruction does.      *)
Sound(prg, f, e, b) ==
  /\ b \in Seq(ItemType)
  /\ \A m, k \in DOMAIN b : m <= k => b[m].at <= b[k].at
  /\ \A k \in DOMAIN b \ {1} : b[k].at - b[k - 1].at \in {0, 1}
  /\ \A k \in DOMAIN b : IsEnd(b, k) => Breaks(prg, f, b[k].at) \/ b[k].at = e
  /\ \A k \in DOMAIN b : FirstEnd(b, k) => Outcome(b, k) = Goes(prg, f, b[k].at)

(* The same body, when it holds the instructions from l to i. *)
Filled(prg, f, e, b, l, i) ==
  /\ Sound(prg, f, e, b)
  /\ {b[k].at : k \in DOMAIN b} = l .. i
  /\ \A j \in l .. i :
       /\ Breaks(prg, f, j) => \E k \in DOMAIN b : b[k].at = j /\ IsEnd(b, k)
       /\ Known(prg, f, j)

(* The instructions from f to i are decoded and their leaders are blocks. *)
Begun(prg, f, B, i) ==
  /\ f \in DOMAIN B /\ DOMAIN B \subseteq Int
  /\ B \in [DOMAIN B -> CodeBlock]
  /\ \A j \in f .. i : j \in DOMAIN prg.code /\ LeadersIn(prg, f, j) \subseteq DOMAIN B

(* Block l ends before the next leader, or where its function ends, at e. *)
EndOK(B, e, l) ==
  /\ l <= B[l].end /\ B[l].end <= e
  /\ B[l].end = e \/ B[l].end + 1 \in DOMAIN B
  /\ \A m \in DOMAIN B : ~ (l < m /\ m <= B[l].end)

Inner(prg, f, B) == {l \in DOMAIN B : f <= l /\ l <= prg.funcs[f]}

Ended(prg, f, B) == \A l \in Inner(prg, f, B) : EndOK(B, prg.funcs[f], l)

BlockFilled(prg, f, B, l) == Filled(prg, f, B[l].end, B[l].body, l, B[l].end)

Whole(prg, f, B) ==
  /\ Begun(prg, f, B, prg.funcs[f])
  /\ Ended(prg, f, B)
  /\ \A l \in Inner(prg, f, B) : BlockFilled(prg, f, B, l)

New(f) == [a \in {f} |-> [end |-> 0, body |-> <<>>]]

-----------------------------------------------------------------------------
Working == {"leaders", "ends", "emit", "block"}

Typed ==
  /\ program \in Programs
  /\ pc \in Working \cup {"functions", "written", "dead"}
  /\ program.imports \subseteq done
  /\ done \subseteq DOMAIN codeBlocks
  /\ codeBlocks = [g \in DOMAIN codeBlocks |-> codeBlocks[g]]
  /\ DOMAIN codeBlocks \subseteq DOMAIN funcs
  /\ idx \in Int /\ block \in Int /\ at \in Int
  /\ pc \in Working => func \in DOMAIN codeBlocks \ done

(* A function that waits for its turn has at most its first block. *)
Waiting ==
  \A g \in DOMAIN codeBlocks \ done :
    (g = func /\ pc \in Working \cup {"dead"}) \/ codeBlocks[g] = New(g)

Completed == \A f \in Finished : Whole(program, f, codeBlocks[f])

B0 == codeBlocks[func]

Bodiless(B) == \A l \in DOMAIN B : B[l].body = <<>>

FindingLeaders ==
  pc = "leaders" =>
    func <= idx /\ Begun(program, func, B0, idx - 1) /\ Bodiless(B0)

(* Before instruction i, the current block blk is the last to begin. *)
EndsKnown(prg, f, B, blk, i) ==
  /\ Begun(prg, f, B, prg.funcs[f]) /\ Bodiless(B)
  /\ blk \in DOMAIN B /\ f <= blk /\ blk <= i
  /\ \A m \in DOMAIN B : ~ (blk < m /\ m <= i)
  /\ \A l \in Inner(prg, f, B) : l < blk => EndOK(B, prg.funcs[f], l)
  /\ i > prg.funcs[f] => Ended(prg, f, B)

FindingEnds == pc = "ends" => EndsKnown(program, func, B0, block, idx)

(* The blocks before i are filled; fresh: so is nothing from i on. *)
EmitKnown(prg, f, B, i, fresh) ==
  /\ Begun(prg, f, B, prg.funcs[f]) /\ Ended(prg, f, B)
  /\ f <= i /\ (i <= prg.funcs[f] => i \in DOMAIN B)
  /\ \A l \in Inner(prg, f, B) :
       /\ l < i => BlockFilled(prg, f, B, l)
       /\ i < l \/ (i = l /\ fresh) => B[l].body = <<>>

Emitting ==
  pc \in {"emit", "block"} => EmitKnown(program, func, B0, idx, pc = "emit")

InBlock ==
  pc = "block" =>
    /\ block = idx /\ idx <= End
    /\ idx <= at /\ at <= B0[idx].end + 1
    /\ Filled(program, func, B0[idx].end, B0[idx].body, idx, at - 1)

IInv ==
  /\ Typed /\ Waiting /\ Completed
  /\ FindingLeaders /\ FindingEnds /\ Emitting /\ InBlock
-----------------------------------------------------------------------------
(* What Append does to a body. *)
LEMMA Appended ==
  ASSUME NEW b \in Seq(ItemType), NEW x \in ItemType
  PROVE  /\ Append(b, x) \in Seq(ItemType)
         /\ Len(Append(b, x)) = Len(b) + 1
         /\ DOMAIN Append(b, x) = 1 .. (Len(b) + 1)
         /\ DOMAIN b = 1 .. Len(b) /\ Len(b) \in Nat
         /\ \A k \in DOMAIN b : Append(b, x)[k] = b[k]
         /\ Append(b, x)[Len(b) + 1] = x
<1> QED OBVIOUS

(* What the outcome of an item is when it comes behind the items of b. *)
OutcomeBehind(b, x) ==
  IF x.kind # "ret" THEN x.to
  ELSE IF b # <<>> /\ b[Len(b)].at = x.at /\ b[Len(b)].kind = "call"
       THEN b[Len(b)].to ELSE <<Return>>

(* A sound body stays sound when the next item fits. *)
LEMMA AppendItem ==
  ASSUME NEW prg, NEW f, NEW e, NEW b, NEW x \in ItemType,
         Sound(prg, f, e, b),
         b # <<>> => x.at - b[Len(b)].at \in {0, 1},
         x.kind \in Terminators => Breaks(prg, f, x.at) \/ x.at = e,
         x.kind \in Terminators /\ (\A k \in DOMAIN b : ~ IsEnd(b, k)) =>
           OutcomeBehind(b, x) = Goes(prg, f, x.at)
  PROVE  Sound(prg, f, e, Append(b, x))
<1> DEFINE c == Append(b, x)
           n == Len(b)
<1>1. /\ b \in Seq(ItemType)
      /\ \A m, k \in DOMAIN b : m <= k => b[m].at <= b[k].at
      /\ \A k \in DOMAIN b \ {1} : b[k].at - b[k - 1].at \in {0, 1}
      /\ \A k \in DOMAIN b : IsEnd(b, k) => Breaks(prg, f, b[k].at) \/ b[k].at = e
      /\ \A k \in DOMAIN b : FirstEnd(b, k) => Outcome(b, k) = Goes(prg, f, b[k].at)
  BY DEF Sound
<1>2. /\ c \in Seq(ItemType)
      /\ DOMAIN c = 1 .. (n + 1)
      /\ DOMAIN b = 1 .. n /\ n \in Nat
      /\ \A k \in DOMAIN b : c[k] = b[k]
      /\ c[n + 1] = x
  BY <1>1, Appended
<1>3. b # <<>> <=> n # 0
  BY <1>1
<1>4. \A k \in DOMAIN b : b[k].at \in Int
  <2> SUFFICES ASSUME NEW k \in DOMAIN b PROVE b[k].at \in Int
    OBVIOUS
  <2>1. b[k] \in ItemType
    BY <1>1
  <2> QED BY <2>1 DEF ItemType
<1>5. x.at \in Int
  BY DEF ItemType
<1>6. \A k \in DOMAIN b : b[k].at <= x.at
  <2> SUFFICES ASSUME NEW k \in DOMAIN b PROVE b[k].at <= x.at
    OBVIOUS
  <2>1. n \in DOMAIN b /\ k <= n
    BY <1>2
  <2>2. b[k].at <= b[n].at /\ x.at - b[n].at \in {0, 1}
    BY <1>1, <1>2, <1>3, <2>1
  <2> QED BY <2>1, <2>2, <1>4, <1>5
<1> HIDE DEF c, n
<1>7. \A m, k \in DOMAIN c : m <= k => c[m].at <= c[k].at
  <2> SUFFICES ASSUME NEW m \in DOMAIN c, NEW k \in DOMAIN c, m <= k
               PROVE  c[m].at <= c[k].at
    OBVIOUS
  <2>1. CASE k \in DOMAIN b
    BY <1>1, <1>2, <2>1
  <2>2. CASE k = n + 1 /\ m \in DOMAIN b
    BY <1>2, <1>6, <2>2
  <2>3. CASE k = n + 1 /\ m = n + 1
    BY <1>2, <1>5, <2>3
  <2> QED BY <1>2, <2>1, <2>2, <2>3
<1>8. \A k \in DOMAIN c \ {1} : c[k].at - c[k - 1].at \in {0, 1}
  <2> SUFFICES ASSUME NEW k \in DOMAIN c \ {1} PROVE c[k].at - c[k - 1].at \in {0, 1}
    OBVIOUS
  <2>1. CASE k \in DOMAIN b
    <3>1. k - 1 \in DOMAIN b
      BY <1>2, <2>1
    <3> QED BY <1>1, <1>2, <2>1, <3>1
  <2>2. CASE k = n + 1
    <3>1. n \in DOMAIN b /\ n # 0 /\ k - 1 = n
      BY <1>2, <2>2
    <3> QED BY <1>2, <1>3, <2>2, <3>1 DEF n
  <2> QED BY <1>2, <2>1, <2>2
<1>9. \A k \in DOMAIN c : IsEnd(c, k) => Breaks(prg, f, c[k].at) \/ c[k].at = e
  <2> SUFFICES ASSUME NEW k \in DOMAIN c, IsEnd(c, k)
               PROVE  Breaks(prg, f, c[k].at) \/ c[k].at = e
    OBVIOUS
  <2>1. CASE k \in DOMAIN b
    BY <1>1, <1>2, <2>1 DEF IsEnd
  <2>2. CASE k = n + 1
    BY <1>2, <2>2 DEF IsEnd
  <2> QED BY <1>2, <2>1, <2>2
<1>10. \A k \in DOMAIN c : FirstEnd(c, k) => Outcome(c, k) = Goes(prg, f, c[k].at)
  <2> SUFFICES ASSUME NEW k \in DOMAIN c, FirstEnd(c, k)
               PROVE  Outcome(c, k) = Goes(prg, f, c[k].at)
    OBVIOUS
  <2>1. CASE k \in DOMAIN b
    <3>1. \A m \in DOMAIN b : IsEnd(c, m) <=> IsEnd(b, m)
      BY <1>2 DEF IsEnd
    <3>2. \A m \in DOMAIN b : m \in DOMAIN c
      BY <1>2
    <3>3. FirstEnd(b, k)
      BY <2>1, <3>1, <3>2 DEF FirstEnd
    <3>4. k > 1 => c[k - 1] = b[k - 1]
      BY <1>2, <2>1
    <3>5. Outcome(c, k) = Outcome(b, k)
      BY <1>2, <2>1, <3>4 DEF Outcome
    <3> QED BY <1>1, <1>2, <2>1, <3>3, <3>5
  <2>2. CASE k = n + 1
    <3>1. \A m \in DOMAIN b : ~ IsEnd(b, m)
      BY <1>2, <2>2 DEF FirstEnd, IsEnd
    <3>2. x.kind \in Terminators
      BY <1>2, <2>2 DEF FirstEnd, IsEnd
    <3>3. n # 0 => n \in DOMAIN b /\ k - 1 = n
      BY <1>2, <2>2
    <3>4. k > 1 <=> b # <<>>
      BY <1>2, <1>3, <2>2
    <3>5. Outcome(c, k) = OutcomeBehind(b, x)
      BY <1>2, <1>3, <2>2, <3>3, <3>4 DEF Outcome, OutcomeBehind, n
    <3> QED BY <1>2, <2>2, <3>1, <3>2, <3>5
  <2> QED BY <1>2, <2>1, <2>2
<1> QED BY <1>2, <1>7, <1>8, <1>9, <1>10 DEF Sound, c

-----------------------------------------------------------------------------
(* A body in the middle of instruction i. *)
Partly(prg, f, e, b, l, i) ==
  /\ Sound(prg, f, e, b)
  /\ b # <<>> /\ b[Len(b)].at = i
  /\ {b[k].at : k \in DOMAIN b} = l .. i
  /\ \A j \in l .. (i - 1) :
       /\ Breaks(prg, f, j) => \E k \in DOMAIN b : b[k].at = j /\ IsEnd(b, k)
       /\ Known(prg, f, j)

(* What a body says of the instructions before is kept behind an item. *)
LEMMA AppendKeeps ==
  ASSUME NEW prg, NEW f, NEW b \in Seq(ItemType), NEW x \in ItemType, NEW j,
         \E k \in DOMAIN b : b[k].at = j /\ IsEnd(b, k)
  PROVE  \E k \in DOMAIN Append(b, x) :
           Append(b, x)[k].at = j /\ IsEnd(Append(b, x), k)
<1> DEFINE c == Append(b, x)
<1>1. PICK k \in DOMAIN b : b[k].at = j /\ IsEnd(b, k)
  OBVIOUS
<1>2. k \in DOMAIN c /\ c[k] = b[k]
  BY Appended
<1> QED BY <1>1, <1>2 DEF IsEnd

(* The instructions of a body with one more item. *)
LEMMA AppendedAts ==
  ASSUME NEW b \in Seq(ItemType), NEW x \in ItemType
  PROVE  {Append(b, x)[k].at : k \in DOMAIN Append(b, x)} =
           {b[k].at : k \in DOMAIN b} \cup {x.at}
<1> DEFINE c == Append(b, x)
           n == Len(b)
<1>1. /\ DOMAIN c = 1 .. (n + 1)
      /\ DOMAIN b = 1 .. n /\ n \in Nat
      /\ \A k \in DOMAIN b : c[k] = b[k]
      /\ c[n + 1] = x
  BY Appended
<1> HIDE DEF c, n
<1>2. ASSUME NEW k \in DOMAIN c
      PROVE  c[k].at \in {b[m].at : m \in DOMAIN b} \cup {x.at}
  <2>1. CASE k \in DOMAIN b
    BY <1>1, <2>1
  <2>2. CASE k = n + 1
    BY <1>1, <2>2
  <2> QED BY <1>1, <2>1, <2>2
<1>3. ASSUME NEW k \in DOMAIN b PROVE b[k].at \in {c[m].at : m \in DOMAIN c}
  <2>1. k \in DOMAIN c /\ c[k] = b[k]
    BY <1>1
  <2> QED BY <2>1
<1>4. x.at \in {c[m].at : m \in DOMAIN c}
  <2>1. n + 1 \in DOMAIN c
    BY <1>1
  <2> QED BY <1>1, <2>1
<1>5. {c[k].at : k \in DOMAIN c} = {b[k].at : k \in DOMAIN b} \cup {x.at}
  BY <1>2, <1>3, <1>4
<1> QED BY <1>5 DEF c

(* The last item of a body belongs to its last instruction. *)
LEMMA LastAt ==
  ASSUME NEW prg, NEW f, NEW e, NEW b, NEW l \in Int, NEW i \in Int,
         Filled(prg, f, e, b, l, i), b # <<>>
  PROVE  b[Len(b)].at = i /\ l <= i
<1> DEFINE n == Len(b)
<1>1. /\ b \in Seq(ItemType)
      /\ \A m, k \in DOMAIN b : m <= k => b[m].at <= b[k].at
      /\ {b[k].at : k \in DOMAIN b} = l .. i
  BY DEF Filled, Sound
<1>2. n \in DOMAIN b /\ DOMAIN b = 1 .. n /\ n \in Nat
  BY <1>1
<1>3. b[n].at \in l .. i
  BY <1>1, <1>2
<1>4. i \in l .. i
  BY <1>3
<1>5. PICK k \in DOMAIN b : b[k].at = i
  BY <1>1, <1>4
<1>6. k <= n
  BY <1>2
<1>7. i <= b[n].at
  BY <1>1, <1>2, <1>5, <1>6
<1> QED BY <1>3, <1>4, <1>7

(* The first item of an instruction: a terminator among them does what the *)
(* instruction does.                                                       *)
LEMMA FirstItem ==
  ASSUME NEW prg, NEW f, NEW e, NEW b, NEW l \in Int, NEW i \in Int, l <= i,
         NEW x \in ItemType, x.at = i,
         Filled(prg, f, e, b, l, i - 1),
         x.kind \in Terminators => Breaks(prg, f, i),
         x.kind = "ret" => Goes(prg, f, i) = <<Return>>,
         x.kind \in Terminators /\ x.kind # "ret" => x.to = Goes(prg, f, i)
  PROVE  Partly(prg, f, e, Append(b, x), l, i)
<1> DEFINE c == Append(b, x)
<1>1. /\ Sound(prg, f, e, b) /\ b \in Seq(ItemType)
      /\ {b[k].at : k \in DOMAIN b} = l .. (i - 1)
      /\ \A j \in l .. (i - 1) :
           /\ Breaks(prg, f, j) => \E k \in DOMAIN b : b[k].at = j /\ IsEnd(b, k)
           /\ Known(prg, f, j)
  BY DEF Filled, Sound
<1>2. b # <<>> => b[Len(b)].at = i - 1
  <2>1. i - 1 \in Int
    OBVIOUS
  <2> QED BY <2>1, LastAt
<1>3. OutcomeBehind(b, x) = IF x.kind # "ret" THEN x.to ELSE <<Return>>
  BY <1>2 DEF OutcomeBehind
<1>4. Sound(prg, f, e, c)
  <2>1. b # <<>> => x.at - b[Len(b)].at \in {0, 1}
    BY <1>2
  <2>2. x.kind \in Terminators => OutcomeBehind(b, x) = Goes(prg, f, x.at)
    BY <1>3
  <2> QED BY <1>1, <2>1, <2>2, AppendItem
<1>5. c \in Seq(ItemType) /\ Len(c) = Len(b) + 1 /\ c[Len(b) + 1] = x /\ Len(b) \in Nat
  BY <1>1, Appended
<1>6. {c[k].at : k \in DOMAIN c} = l .. i
  <2>1. {c[k].at : k \in DOMAIN c} = {b[k].at : k \in DOMAIN b} \cup {x.at}
    BY <1>1, AppendedAts
  <2>2. l .. i = (l .. (i - 1)) \cup {i}
    OBVIOUS
  <2> QED BY <1>1, <2>1, <2>2
<1>7. \A j \in l .. (i - 1) :
        Breaks(prg, f, j) => \E k \in DOMAIN c : c[k].at = j /\ IsEnd(c, k)
  BY <1>1, AppendKeeps
<1>8. c # <<>> /\ c[Len(c)].at = i
  BY <1>5
<1> HIDE DEF c
<1> QED BY <1>1, <1>4, <1>6, <1>7, <1>8 DEF Partly, c

(* A further item of the same instruction. *)
LEMMA NextItem ==
  ASSUME NEW prg, NEW f, NEW e, NEW b, NEW l \in Int, NEW i \in Int, l <= i,
         NEW x \in ItemType, x.at = i,
         Partly(prg, f, e, b, l, i),
         x.kind \in Terminators => Breaks(prg, f, i) \/ i = e,
         x.kind \in Terminators /\ (\A k \in DOMAIN b : ~ IsEnd(b, k)) =>
           OutcomeBehind(b, x) = Goes(prg, f, i)
  PROVE  Partly(prg, f, e, Append(b, x), l, i)
<1> DEFINE c == Append(b, x)
<1>1. /\ Sound(prg, f, e, b) /\ b \in Seq(ItemType)
      /\ b # <<>> /\ b[Len(b)].at = i
      /\ {b[k].at : k \in DOMAIN b} = l .. i
      /\ \A j \in l .. (i - 1) :
           /\ Breaks(prg, f, j) => \E k \in DOMAIN b : b[k].at = j /\ IsEnd(b, k)
           /\ Known(prg, f, j)
  BY DEF Partly, Sound
<1>2. Sound(prg, f, e, c)
  <2>1. x.at - b[Len(b)].at \in {0, 1}
    BY <1>1
  <2> QED BY <1>1, <2>1, AppendItem
<1>3. c \in Seq(ItemType) /\ Len(c) = Len(b) + 1 /\ c[Len(b) + 1] = x /\ Len(b) \in Nat
  BY <1>1, Appended
<1>4. {c[k].at : k \in DOMAIN c} = l .. i
  <2>1. {c[k].at : k \in DOMAIN c} = {b[k].at : k \in DOMAIN b} \cup {x.at}
    BY <1>1, AppendedAts
  <2>2. i \in l .. i
    OBVIOUS
  <2> QED BY <1>1, <2>1, <2>2
<1>5. \A j \in l .. (i - 1) :
        Breaks(prg, f, j) => \E k \in DOMAIN c : c[k].at = j /\ IsEnd(c, k)
  BY <1>1, AppendKeeps
<1>6. c # <<>> /\ c[Len(c)].at = i
  BY <1>3
<1> HIDE DEF c
<1> QED BY <1>1, <1>2, <1>4, <1>5, <1>6 DEF Partly, c

(* The instruction is complete when it ends with its terminator, if any. *)
LEMMA Completes ==
  ASSUME NEW prg, NEW f, NEW e, NEW b, NEW l \in Int, NEW i \in Int, l <= i,
         Partly(prg, f, e, b, l, i),
         Breaks(prg, f, i) => IsEnd(b, Len(b)),
         Known(prg, f, i)
  PROVE  Filled(prg, f, e, b, l, i)
<1>1. b \in Seq(ItemType) /\ b # <<>> /\ b[Len(b)].at = i
  BY DEF Partly, Sound
<1>2. Len(b) \in DOMAIN b
  BY <1>1
<1>3. ASSUME NEW j \in l .. i
      PROVE  /\ Breaks(prg, f, j) => \E k \in DOMAIN b : b[k].at = j /\ IsEnd(b, k)
             /\ Known(prg, f, j)
  <2>1. CASE j = i
    BY <1>1, <1>2, <2>1
  <2>2. CASE j \in l .. (i - 1)
    BY <2>2 DEF Partly
  <2> QED BY <2>1, <2>2
<1> QED BY <1>3 DEF Partly, Filled

-----------------------------------------------------------------------------
(* A concatenation with a few items is as many appends. *)
LEMMA Concatenated ==
  ASSUME NEW b \in Seq(ItemType), NEW x \in ItemType, NEW y \in ItemType, NEW z \in ItemType
  PROVE  /\ b \o <<>> = b
         /\ b \o <<x>> = Append(b, x)
         /\ b \o <<x, y>> = Append(Append(b, x), y)
         /\ b \o <<x, y, z>> = Append(Append(Append(b, x), y), z)
<1> QED OBVIOUS

(* A call followed by a tail call is a sequence of three items. *)
LEMMA JoinThree ==
  ASSUME NEW x \in ItemType, NEW y \in ItemType, NEW z \in ItemType
  PROVE  <<x>> \o <<y, z>> = <<x, y, z>>
<1>1. <<x>> \in Seq(ItemType)
  OBVIOUS
<1>2. <<x>> \o <<y, z>> = Append(Append(<<x>>, y), z)
  <2> DEFINE s == <<x>>
  <2>1. s \in Seq(ItemType)
    BY <1>1
  <2> HIDE DEF s
  <2>2. s \o <<y, z>> = Append(Append(s, y), z)
    BY <2>1, Concatenated
  <2> QED BY <2>2 DEF s
<1> DEFINE s == <<x>>
           c == Append(s, y)
           d == Append(c, z)
           v == <<x, y, z>>
<1>3. s \in Seq(ItemType) /\ Len(s) = 1 /\ s[1] = x
  OBVIOUS
<1>4. v \in Seq(ItemType) /\ Len(v) = 3 /\ v[1] = x /\ v[2] = y /\ v[3] = z
  OBVIOUS
<1> HIDE DEF s, v
<1>5. c \in Seq(ItemType) /\ Len(c) = 2 /\ c[1] = x /\ c[2] = y
  <2>1. /\ c \in Seq(ItemType) /\ Len(c) = Len(s) + 1 /\ DOMAIN s = 1 .. Len(s)
        /\ \A k \in DOMAIN s : c[k] = s[k]
        /\ c[Len(s) + 1] = y
    BY <1>3, Appended
  <2> HIDE DEF c
  <2>2. 1 \in DOMAIN s /\ Len(s) + 1 = 2
    BY <1>3, <2>1
  <2> QED BY <1>3, <2>1, <2>2
<1> HIDE DEF c
<1>6. d \in Seq(ItemType) /\ Len(d) = 3 /\ d[1] = x /\ d[2] = y /\ d[3] = z
  <2>1. /\ d \in Seq(ItemType) /\ Len(d) = Len(c) + 1 /\ DOMAIN c = 1 .. Len(c)
        /\ \A k \in DOMAIN c : d[k] = c[k]
        /\ d[Len(c) + 1] = z
    BY <1>5, Appended
  <2> HIDE DEF d
  <2>2. 1 \in DOMAIN c /\ 2 \in DOMAIN c /\ Len(c) + 1 = 3
    BY <1>5, <2>1
  <2> QED BY <1>5, <2>1, <2>2
<1> HIDE DEF d
<1>7. d = v
  BY <1>4, <1>6
<1> QED BY <1>2, <1>7 DEF d, c, s, v

(* SetToSeq of a set with one element. *)
LEMMA SequenceOfOne ==
  ASSUME NEW m
  PROVE  SetToSeq({m}) = <<m>>
<1> DEFINE F == {g \in [1 .. 1 -> {m}] : IsInjective(g)}
<1>1. Cardinality({m}) = 1
  BY FS_Singleton
<1>2. <<m>> \in [1 .. 1 -> {m}] /\ IsInjective(<<m>>)
  BY DEF IsInjective
<1>3. \A g \in [1 .. 1 -> {m}] : g = <<m>>
  OBVIOUS
<1> QED BY <1>1, <1>2, <1>3 DEF SetToSeq

(* What follows a call and its nops is one instruction that is no nop. *)
LEMMA NopsIs ==
  ASSUME NEW prg \in Programs, NEW i \in Int, Nops(prg, i) # {}
  PROVE  \E m \in DOMAIN prg.code :
           /\ Nops(prg, i) = {m} /\ m \in Int /\ i <= m
           /\ prg.code[m].op # "nop" /\ Nops(prg, m) = {m}
<1> DEFINE R(k) == {j \in DOMAIN prg.code : k <= j /\ prg.code[j].op # "nop"}
<1>1. DOMAIN prg.code \subseteq Int
  BY ProgramsAre
<1>2. R(i) # {} /\ R(i) \in SUBSET Int /\ \A x \in R(i) : i <= x
  BY <1>1 DEF Nops
<1>3. Min(R(i)) \in R(i)
  <2> DEFINE S == R(i)
  <2>1. S \in SUBSET Int /\ S # {} /\ \A x \in S : i <= x
    BY <1>2
  <2> HIDE DEF S
  <2>2. Min(S) \in S
    BY <2>1, MinIs
  <2> QED BY <2>2 DEF S
<1> DEFINE m == Min(R(i))
<1>4. m \in DOMAIN prg.code /\ i <= m /\ prg.code[m].op # "nop" /\ m \in Int
  BY <1>1, <1>3
<1>5. Nops(prg, i) = {m}
  BY <1>2 DEF Nops
<1>6. Nops(prg, m) = {m}
  <2> HIDE DEF m
  <2> DEFINE S == R(m)
  <2>1. S \in SUBSET Int /\ S # {} /\ m \in S /\ \A x \in S : m <= x
    BY <1>1, <1>4
  <2>2. Nops(prg, m) = {Min(S)}
    BY <2>1 DEF Nops
  <2> HIDE DEF S
  <2>3. Min(S) \in S /\ \A x \in S : Min(S) <= x
    BY <2>1, MinIs
  <2>4. Min(S) \in Int /\ m <= Min(S) /\ Min(S) <= m /\ m \in Int
    BY <2>1, <2>3, <1>4
  <2>5. \A p, q \in Int : p <= q /\ q <= p => p = q
    OBVIOUS
  <2>6. Min(S) = m
    BY <2>4, <2>5
  <2> QED BY <2>2, <2>6
<1> QED BY <1>4, <1>5, <1>6

(* A function that follows a call is one, and it begins behind the nops. *)
LEMMA AfterIs ==
  ASSUME NEW prg \in Programs, NEW i \in Int, After(prg, i) # {}
  PROVE  \E m \in DOMAIN prg.funcs :
           /\ Nops(prg, i + 1) = {m} /\ After(prg, i) = {m}
           /\ SetToSeq(After(prg, i)) = <<m>> /\ m \in Int
<1>1. i + 1 \in Int /\ Nops(prg, i + 1) # {}
  BY DEF After
<1>2. PICK m \in Int : Nops(prg, i + 1) = {m}
  BY <1>1, NopsIs
<1>3. m \in DOMAIN prg.funcs /\ After(prg, i) = {m}
  BY <1>2 DEF After
<1> QED BY <1>2, <1>3, SequenceOfOne

(* The operators of the pass are those of the program and the function. *)
LEMMA SameOperators ==
  ASSUME NEW i
  PROVE  /\ SkipNops(i) = Nops(program, i)
         /\ AfterCall(i) = After(program, i)
         /\ TablesAt(i) = TablesIn(program, func, i)
         /\ Leaders(i) = LeadersIn(program, func, i)
<1>1. SkipNops(i) = Nops(program, i)
  BY DEF SkipNops, Nops, code
<1>2. SkipNops(i + 1) = Nops(program, i + 1)
  BY DEF SkipNops, Nops, code
<1>3. AfterCall(i) = After(program, i)
  BY <1>2 DEF AfterCall, After, isIRFuncinMap, funcs
<1>4. TablesAt(i) = TablesIn(program, func, i)
  BY DEF TablesAt, TablesIn
<1>5. Leaders(i) = LeadersIn(program, func, i)
  BY <1>4 DEF Leaders, LeadersIn, isIRFuncinMap, funcs, code
<1> QED BY <1>1, <1>3, <1>4, <1>5

(* Item makes the record it says. *)
LEMMA ItemTyped ==
  ASSUME NEW i \in Int, NEW k \in Kinds, NEW t \in Seq(Int)
  PROVE  /\ Item(i, k, t) \in ItemType
         /\ Item(i, k, t).at = i /\ Item(i, k, t).kind = k /\ Item(i, k, t).to = t
<1> QED BY DEF Item, ItemType

-----------------------------------------------------------------------------
(* The items of an instruction extend a body to that instruction, and its  *)
(* terminator, if it has one, is their last.                               *)
LEMMA EmittedFits ==
  ASSUME program \in Programs,
         NEW e, NEW b, NEW l \in Int, NEW i \in Int, l <= i, i \in DOMAIN code,
         ~ Stops(i),
         Filled(program, func, e, b, l, i - 1)
  PROVE  /\ Partly(program, func, e, b \o Emitted(i), l, i)
         /\ Breaks(program, func, i) =>
              IsEnd(b \o Emitted(i), Len(b \o Emitted(i)))
<1> DEFINE c == b \o Emitted(i)
           op == code[i].op
           to == code[i].to
           P(d) == Partly(program, func, e, d, l, i)
           G == Goes(program, func, i)
           Br == Breaks(program, func, i)
<1>1. b \in Seq(ItemType)
  BY DEF Filled, Sound
<1>2. op \in Mnemonics /\ to \in Int /\ op = program.code[i].op /\ to = program.code[i].to
  BY ProgramsAre DEF code
<1>3. \A k \in Kinds, t \in Seq(Int) :
        /\ Item(i, k, t) \in ItemType
        /\ Item(i, k, t).at = i /\ Item(i, k, t).kind = k /\ Item(i, k, t).to = t
  BY ItemTyped
<1>4. <<to>> \in Seq(Int) /\ <<to, i + 1>> \in Seq(Int) /\ <<>> \in Seq(Int)
  BY <1>2
<1> DEFINE X(k, t) == Item(i, k, t)
<1>k. /\ "op" \in Kinds /\ "call" \in Kinds /\ "ret" \in Kinds
      /\ "op" \notin Terminators /\ "call" \notin Terminators /\ "ret" \in Terminators
      /\ Terminators \subseteq Kinds
  BY DEF Kinds, Terminators
<1>x. /\ X("op", <<>>) \in ItemType
      /\ X("ret", <<>>) \in ItemType
      /\ X("ret", <<>>).at = i /\ X("ret", <<>>).kind = "ret"
      /\ X("ret", <<>>).kind \in Terminators
      /\ X("call", <<to>>) \in ItemType
      /\ X("call", <<to>>).at = i /\ X("call", <<to>>).kind = "call"
      /\ X("call", <<to>>).to = <<to>>
  BY <1>3, <1>4, <1>k
<1>y. i + 1 \in Int
  OBVIOUS
<1>5. ASSUME NEW d \in Seq(ItemType), NEW x \in ItemType
      PROVE  IsEnd(Append(d, x), Len(Append(d, x))) <=> x.kind \in Terminators
  <2>1. Append(d, x)[Len(Append(d, x))] = x
    BY Appended
  <2> QED BY <2>1 DEF IsEnd
(* A first item that is no terminator, and one that is. *)
<1>6. ASSUME NEW k \in Kinds, NEW t \in Seq(Int), k \notin Terminators
      PROVE  /\ P(Append(b, X(k, t)))
             /\ ~ IsEnd(Append(b, X(k, t)), Len(Append(b, X(k, t))))
  <2> DEFINE x == X(k, t)
  <2>1. x \in ItemType /\ x.at = i /\ x.kind = k
    BY <1>3
  <2> HIDE DEF x
  <2>2. P(Append(b, x))
    BY <1>6, <2>1, FirstItem DEF Terminators
  <2>3. ~ IsEnd(Append(b, x), Len(Append(b, x)))
    BY <1>1, <1>5, <1>6, <2>1
  <2> QED BY <2>2, <2>3 DEF x
<1>7. ASSUME NEW k \in Terminators, NEW t \in Seq(Int), Br,
             IF k = "ret" THEN G = <<Return>> ELSE G = t
      PROVE  /\ P(Append(b, X(k, t)))
             /\ IsEnd(Append(b, X(k, t)), Len(Append(b, X(k, t))))
  <2> DEFINE x == X(k, t)
  <2>1. x \in ItemType /\ x.at = i /\ x.kind = k /\ x.to = t
    BY <1>3, <1>7, <1>k
  <2> HIDE DEF x
  <2>2. P(Append(b, x))
    BY <1>7, <2>1, FirstItem
  <2>3. IsEnd(Append(b, x), Len(Append(b, x)))
    BY <1>1, <1>5, <2>1
  <2> QED BY <2>2, <2>3 DEF x
(* A call and the ret behind it. *)
<1>8. ASSUME NEW d, P(d), d \in Seq(ItemType), ~ IsEnd(d, Len(d)),
             NEW t \in Seq(Int), Br, G = t
      PROVE  /\ P(Append(Append(d, X("call", t)), X("ret", <<>>)))
             /\ IsEnd(Append(Append(d, X("call", t)), X("ret", <<>>)),
                      Len(Append(Append(d, X("call", t)), X("ret", <<>>))))
  <2> DEFINE x == X("call", t)
             y == X("ret", <<>>)
  <2>1. /\ x \in ItemType /\ x.at = i /\ x.kind = "call" /\ x.to = t
        /\ y \in ItemType /\ y.at = i /\ y.kind = "ret" /\ y.kind \in Terminators
    BY <1>3, <1>8, <1>k, <1>x
  <2> HIDE DEF x, y
  <2>2. P(Append(d, x)) /\ Append(d, x) \in Seq(ItemType)
    <3>1. x.kind \notin Terminators
      BY <2>1 DEF Terminators
    <3> QED BY <1>8, <2>1, <3>1, NextItem
  <2>3. OutcomeBehind(Append(d, x), y) = G
    <3>1. Append(d, x) # <<>> /\ Append(d, x)[Len(Append(d, x))] = x
      BY <1>8, <2>1, Appended
    <3> QED BY <1>8, <2>1, <3>1 DEF OutcomeBehind
  <2>4. P(Append(Append(d, x), y))
    BY <1>8, <2>1, <2>2, <2>3, NextItem
  <2>5. IsEnd(Append(Append(d, x), y), Len(Append(Append(d, x), y)))
    BY <1>5, <2>1, <2>2
  <2> QED BY <2>4, <2>5 DEF x, y
<1> SUFFICES P(c) /\ (Br => IsEnd(c, Len(c)))
  OBVIOUS
<1>9. CASE op \in {"plain", "bcctrl"}
  <2>1. Emitted(i) = <<X("op", <<>>)>> /\ ~ Br
    BY <1>2, <1>9 DEF Emitted, Breaks, CallReturns, NopReturns
  <2>2. c = Append(b, X("op", <<>>))
    BY <1>1, <1>3, <1>4, <2>1, Concatenated
  <2>3. P(Append(b, X("op", <<>>)))
    BY <1>4, <1>6, <1>k
  <2> QED BY <2>1, <2>2, <2>3
<1>10. CASE op = "nop"
  <2> DEFINE R == i = End /\ isIRFuncinMap(i + 1)
  <2>1. Br <=> R
    BY <1>2, <1>10 DEF Breaks, CallReturns, NopReturns, End, funcs, isIRFuncinMap
  <2>2. CASE R
    <3>1. Emitted(i) = <<X("ret", <<>>)>>
      BY <1>10, <2>2 DEF Emitted
    <3>2. c = Append(b, X("ret", <<>>))
      BY <1>1, <1>3, <1>4, <3>1, Concatenated
    <3>3. G = <<Return>>
      BY <1>2, <1>10, <2>2 DEF Goes, CallReturns, NopReturns, End, funcs, isIRFuncinMap
    <3>4. P(Append(b, X("ret", <<>>))) /\ IsEnd(Append(b, X("ret", <<>>)), Len(Append(b, X("ret", <<>>))))
      BY <1>4, <1>7, <2>1, <2>2, <3>3 DEF Terminators
    <3> QED BY <3>2, <3>4
  <2>3. CASE ~ R
    <3>1. Emitted(i) = <<X("op", <<>>)>>
      BY <1>10, <2>3 DEF Emitted
    <3>2. c = Append(b, X("op", <<>>))
      BY <1>1, <1>3, <1>4, <3>1, Concatenated
    <3>3. P(Append(b, X("op", <<>>)))
      BY <1>4, <1>6, <1>k
    <3> QED BY <2>1, <2>3, <3>2, <3>3
  <2> QED BY <2>2, <2>3
<1>11. CASE op = "b"
  <2>1. Br /\ G = <<to>>
    BY <1>2, <1>11 DEF Breaks, Goes
  <2>2. CASE isIRFuncinMap(to)
    <3> DEFINE x == X("call", <<to>>)
               y == X("ret", <<>>)
    <3>1. Emitted(i) = <<x, y>>
      BY <1>11, <2>2 DEF Emitted
    <3>2. /\ x \in ItemType /\ x.at = i /\ x.kind = "call" /\ x.to = <<to>>
          /\ y \in ItemType /\ y.at = i /\ y.kind = "ret" /\ y.kind \in Terminators
      BY <1>x
    <3>3. P(Append(b, x))
      BY <1>4, <1>6, <1>k
    <3> HIDE DEF x, y
    <3>4. c = Append(Append(b, x), y)
      BY <1>1, <3>1, <3>2, Concatenated
    <3>5. Append(b, x) \in Seq(ItemType)
      BY <1>1, <3>2
    <3>6. OutcomeBehind(Append(b, x), y) = G
      <4>1. Append(b, x) # <<>> /\ Append(b, x)[Len(Append(b, x))] = x
        BY <1>1, <3>2, Appended
      <4> QED BY <2>1, <3>2, <4>1 DEF OutcomeBehind
    <3>7. P(Append(Append(b, x), y))
      BY <2>1, <3>2, <3>3, <3>6, NextItem
    <3>8. IsEnd(Append(Append(b, x), y), Len(Append(Append(b, x), y)))
      BY <1>5, <3>2, <3>5
    <3> QED BY <3>4, <3>7, <3>8
  <2>3. CASE ~ isIRFuncinMap(to)
    <3>1. Emitted(i) = <<X("br", <<to>>)>>
      BY <1>11, <2>3 DEF Emitted
    <3>2. c = Append(b, X("br", <<to>>))
      BY <1>1, <1>3, <1>4, <3>1, Concatenated
    <3>3. P(Append(b, X("br", <<to>>))) /\ IsEnd(Append(b, X("br", <<to>>)), Len(Append(b, X("br", <<to>>))))
      BY <1>4, <1>7, <2>1 DEF Terminators
    <3> QED BY <3>2, <3>3
  <2> QED BY <2>2, <2>3
<1>12. CASE op = "bc"
  <2>1. Br /\ G = <<to, i + 1>> /\ Emitted(i) = <<X("condbr", <<to, i + 1>>)>>
    BY <1>2, <1>12 DEF Breaks, Goes, NopReturns, Emitted
  <2>2. c = Append(b, X("condbr", <<to, i + 1>>))
    BY <1>1, <1>3, <1>4, <2>1, Concatenated
  <2>3. /\ P(Append(b, X("condbr", <<to, i + 1>>)))
        /\ IsEnd(Append(b, X("condbr", <<to, i + 1>>)), Len(Append(b, X("condbr", <<to, i + 1>>))))
    BY <1>4, <1>7, <2>1 DEF Terminators
  <2> QED BY <2>2, <2>3
<1>13. CASE op = "bclr"
  <2>1. Br /\ G = <<Return>> /\ Emitted(i) = <<X("ret", <<>>)>>
    BY <1>2, <1>13 DEF Breaks, Goes, Emitted
  <2>2. c = Append(b, X("ret", <<>>))
    BY <1>1, <1>3, <1>4, <2>1, Concatenated
  <2>3. P(Append(b, X("ret", <<>>))) /\ IsEnd(Append(b, X("ret", <<>>)), Len(Append(b, X("ret", <<>>))))
    BY <1>4, <1>7, <2>1 DEF Terminators
  <2> QED BY <2>2, <2>3
<1>14. CASE op = "bcctr"
  <2> DEFINE t == (CHOOSE u \in TablesIn(program, func, i) : TRUE).targets
  <2>1. Br /\ G = t
    BY <1>2, <1>14 DEF Breaks, Goes, NopReturns
  <2>2. Emitted(i) = <<X("switch", t)>>
    <3>1. Emitted(i) = <<X("switch", (CHOOSE u \in TablesAt(i) : TRUE).targets)>>
      BY <1>14 DEF Emitted
    <3>2. TablesAt(i) = TablesIn(program, func, i)
      BY SameOperators
    <3> QED BY <3>1, <3>2
  <2>3. TablesIn(program, func, i) # {}
    BY <1>14, SameOperators DEF Stops
  <2>4. t \in Seq(Int)
    <3>1. (CHOOSE u \in TablesIn(program, func, i) : TRUE) \in program.tables
      BY <2>3 DEF TablesIn
    <3> QED BY <3>1, ProgramsAre
  <2> HIDE DEF t
  <2>5. c = Append(b, X("switch", t))
    BY <1>1, <1>3, <2>2, <2>4, Concatenated
  <2>6. P(Append(b, X("switch", t))) /\ IsEnd(Append(b, X("switch", t)), Len(Append(b, X("switch", t))))
    BY <1>7, <2>1, <2>4 DEF Terminators
  <2> QED BY <2>5, <2>6
<1>15. CASE op = "bl"
  <2> DEFINE x == X("call", <<to>>)
  <2>1. x \in ItemType /\ x.at = i /\ x.kind = "call"
    BY <1>x
  <2>2. P(Append(b, x)) /\ ~ IsEnd(Append(b, x), Len(Append(b, x)))
    BY <1>4, <1>6, <1>k
  <2>3. Br <=> After(program, i) # {}
    BY <1>2, <1>15 DEF Breaks, CallReturns, NopReturns
  <2>4. CASE After(program, i) = {}
    <3>1. Emitted(i) = <<x>> \o <<>>
      BY <1>15, <2>4, SameOperators DEF Emitted
    <3> HIDE DEF x
    <3>2. Emitted(i) = <<x>>
      BY <3>1
    <3>3. c = Append(b, x)
      BY <1>1, <2>1, <3>2, Concatenated
    <3> QED BY <2>2, <2>3, <2>4, <3>3
  <2>5. CASE After(program, i) # {}
    <3> DEFINE t == SetToSeq(After(program, i))
               y == X("call", t)
               z == X("ret", <<>>)
    <3>1. Emitted(i) = <<x>> \o <<y, z>>
      BY <1>15, <2>5, SameOperators DEF Emitted
    <3>2. t \in Seq(Int)
      <4>1. PICK m \in Int : t = <<m>>
        BY <2>5, AfterIs
      <4> HIDE DEF t
      <4> QED BY <4>1
    <3>3. G = t
      BY <1>2, <1>15, <2>5 DEF Goes, CallReturns, NopReturns
    <3>4. y \in ItemType /\ z \in ItemType
      BY <1>3, <1>k, <1>x, <3>2
    <3>5. Append(b, x) \in Seq(ItemType)
      BY <1>1, <2>1
    <3> HIDE DEF t
    <3>6. /\ P(Append(Append(Append(b, x), y), z))
          /\ IsEnd(Append(Append(Append(b, x), y), z), Len(Append(Append(Append(b, x), y), z)))
      <4> DEFINE d == Append(b, x)
      <4>1. P(d) /\ d \in Seq(ItemType) /\ ~ IsEnd(d, Len(d)) /\ Br /\ G = t
        BY <2>2, <2>3, <2>5, <3>3, <3>5
      <4> HIDE DEF d, P, G, Br
      <4> SUFFICES P(Append(Append(d, y), z)) /\ IsEnd(Append(Append(d, y), z), Len(Append(Append(d, y), z)))
        BY DEF d
      <4> QED BY <1>8, <3>2, <4>1
    <3> HIDE DEF x, y, z
    <3>7. Emitted(i) = <<x, y, z>>
      BY <2>1, <3>1, <3>4, JoinThree
    <3>8. c = Append(Append(Append(b, x), y), z)
      BY <1>1, <2>1, <3>4, <3>7, Concatenated
    <3> QED BY <3>6, <3>8
  <2> QED BY <2>4, <2>5
<1>16. CASE op = "unknown"
  BY <1>16 DEF Stops
<1> QED BY <1>2, <1>9, <1>10, <1>11, <1>12, <1>13, <1>14, <1>15, <1>16 DEF Mnemonics

(* With the branch that closes a block, too. *)
LEMMA InstructionFits ==
  ASSUME program \in Programs,
         NEW e, NEW b, NEW l \in Int, NEW i \in Int, l <= i, i \in DOMAIN code,
         ~ Stops(i), e = codeBlocks[func][block].end,
         Filled(program, func, e, b, l, i - 1)
  PROVE  Filled(program, func, e, b \o Emitted(i) \o Closing(i), l, i)
<1> DEFINE c == b \o Emitted(i)
           Br == Breaks(program, func, i)
           x == Item(i, "br", <<i + 1>>)
<1>1. Partly(program, func, e, c, l, i) /\ (Br => IsEnd(c, Len(c)))
  BY EmittedFits
<1>2. Known(program, func, i)
  BY SameOperators DEF Stops, Known, code
<1> HIDE DEF c
<1>3. c \in Seq(ItemType) /\ c # <<>> /\ Len(c) \in DOMAIN c
  <2>1. c \in Seq(ItemType) /\ c # <<>>
    BY <1>1 DEF Partly, Sound
  <2> QED BY <2>1
<1>4. CASE Closing(i) = <<>>
  <2>1. c \o Closing(i) = c
    BY <1>3, <1>4
  <2>2. Filled(program, func, e, c, l, i)
    BY <1>1, <1>2, Completes
  <2> QED BY <2>1, <2>2 DEF c
<1>5. CASE i = e /\ Closing(i) = <<x>>
  <2>1. <<i + 1>> \in Seq(Int) /\ "br" \in Kinds /\ "br" \in Terminators
    BY DEF Kinds, Terminators
  <2>2. /\ x \in ItemType /\ x.at = i /\ x.kind = "br" /\ x.to = <<i + 1>>
        /\ x.kind \in Terminators
    <3> DEFINE t == <<i + 1>>
    <3>1. t \in Seq(Int)
      BY <2>1
    <3> HIDE DEF t
    <3>2. \A k \in Kinds : /\ Item(i, k, t) \in ItemType
                           /\ Item(i, k, t).at = i /\ Item(i, k, t).kind = k
                           /\ Item(i, k, t).to = t
      BY <3>1, ItemTyped
    <3> QED BY <2>1, <3>2 DEF t
  <2>3. ~ Br => Goes(program, func, i) = <<i + 1>>
    BY DEF Breaks, Goes
  <2> HIDE DEF x, Br
  <2>4. (\A k \in DOMAIN c : ~ IsEnd(c, k)) => OutcomeBehind(c, x) = Goes(program, func, i)
    <3>1. OutcomeBehind(c, x) = x.to
      BY <2>2 DEF OutcomeBehind
    <3>2. (\A k \in DOMAIN c : ~ IsEnd(c, k)) => ~ Br
      BY <1>1, <1>3
    <3> QED BY <2>2, <2>3, <3>1, <3>2
  <2>5. Partly(program, func, e, Append(c, x), l, i)
    BY <1>1, <1>5, <2>2, <2>4, NextItem
  <2>6. IsEnd(Append(c, x), Len(Append(c, x)))
    <3>1. Append(c, x)[Len(Append(c, x))] = x
      BY <1>3, <2>2, Appended
    <3> QED BY <2>2, <3>1 DEF IsEnd
  <2>7. Filled(program, func, e, Append(c, x), l, i)
    BY <1>2, <2>5, <2>6, Completes
  <2>8. c \o Closing(i) = Append(c, x)
    BY <1>3, <1>5, <2>2, Concatenated
  <2> QED BY <2>7, <2>8 DEF c
<1> QED BY <1>4, <1>5 DEF Closing

-----------------------------------------------------------------------------
(* A function that begins has its first block and nothing in it. *)
LEMMA NewBegun ==
  ASSUME NEW prg \in Programs, NEW f \in DOMAIN prg.funcs
  PROVE  /\ GetCreate(<<>>, {f}) = New(f)
         /\ f \in Int /\ prg.funcs[f] \in Int
         /\ Begun(prg, f, New(f), f - 1)
         /\ Bodiless(New(f))
<1>1. GetCreate(<<>>, {f}) = New(f)
  BY DEF GetCreate, New
<1>2. f \in Int /\ prg.funcs[f] \in Int
  BY ProgramsAre
<1>3. [end |-> 0, body |-> <<>>] \in CodeBlock
  BY DEF CodeBlock
<1>4. DOMAIN New(f) = {f} /\ New(f) \in [{f} -> CodeBlock]
  BY <1>3 DEF New
<1>5. f .. (f - 1) = {}
  BY <1>2
<1> QED BY <1>1, <1>2, <1>4, <1>5 DEF Begun, New, Bodiless

(* Leaders are addresses. *)
LEMMA LeadersTyped ==
  ASSUME NEW prg \in Programs, NEW f, NEW i \in DOMAIN prg.code
  PROVE  i \in Int /\ LeadersIn(prg, f, i) \subseteq Int
<1>1. i \in Int /\ prg.code[i].to \in Int /\ i + 1 \in Int
  BY ProgramsAre
<1>2. \A t \in TablesIn(prg, f, i) : Range(t.targets) \subseteq Int
  <2> SUFFICES ASSUME NEW t \in TablesIn(prg, f, i) PROVE Range(t.targets) \subseteq Int
    OBVIOUS
  <2>1. t.targets \in Seq(Int)
    BY ProgramsAre DEF TablesIn
  <2> QED BY <2>1 DEF Range
<1> QED BY <1>1, <1>2 DEF LeadersIn

(* When the leaders of the next instruction are added, one more            *)
(* instruction has its leaders in the map.                                 *)
LEMMA LeadersBegun ==
  ASSUME NEW prg \in Programs, NEW f \in Int, NEW B, NEW i \in Int,
         i \in DOMAIN prg.code, Begun(prg, f, B, i - 1),
         Bodiless(B)
  PROVE  LET C == GetCreate(B, LeadersIn(prg, f, i)) IN
         /\ Begun(prg, f, C, i)
         /\ Bodiless(C)
<1> DEFINE S == LeadersIn(prg, f, i)
           C == GetCreate(B, S)
<1>1. S \subseteq Int
  BY LeadersTyped
<1>2. /\ f \in DOMAIN B /\ DOMAIN B \subseteq Int
      /\ B \in [DOMAIN B -> CodeBlock]
      /\ \A j \in f .. (i - 1) : j \in DOMAIN prg.code /\ LeadersIn(prg, f, j) \subseteq DOMAIN B
  BY DEF Begun
<1> HIDE DEF S
<1>3. DOMAIN C = DOMAIN B \cup S
  BY DEF GetCreate
<1>4. \A l \in DOMAIN C : C[l] = IF l \in DOMAIN B THEN B[l] ELSE [end |-> 0, body |-> <<>>]
  BY DEF GetCreate
<1>5. C = [l \in DOMAIN C |-> C[l]]
  BY DEF GetCreate
<1> HIDE DEF C
<1>6. [end |-> 0, body |-> <<>>] \in CodeBlock
  BY DEF CodeBlock
<1>7. \A l \in DOMAIN C : C[l] \in CodeBlock /\ C[l].body = <<>>
  BY <1>2, <1>4, <1>6 DEF Bodiless
<1>8. C \in [DOMAIN C -> CodeBlock]
  BY <1>5, <1>7
<1>9. \A j \in f .. i : j \in DOMAIN prg.code /\ LeadersIn(prg, f, j) \subseteq DOMAIN C
  <2> SUFFICES ASSUME NEW j \in f .. i
               PROVE  j \in DOMAIN prg.code /\ LeadersIn(prg, f, j) \subseteq DOMAIN C
    OBVIOUS
  <2>1. CASE j = i
    BY <1>3, <2>1 DEF S
  <2>2. CASE j \in f .. (i - 1)
    BY <1>2, <1>3, <2>2
  <2> QED BY <2>1, <2>2
<1>10. Begun(prg, f, C, i)
  BY <1>1, <1>2, <1>3, <1>8, <1>9 DEF Begun
<1> QED BY <1>7, <1>10 DEF C, S, Bodiless

(* One step of the search for the ends, at instruction i of a function     *)
(* that ends at e; ret stands for a bclr.                                  *)
NextAt(B, blk, i) == IF i + 1 \in DOMAIN B THEN i + 1 ELSE blk

BlocksAt(B, blk, i, e, ret) ==
  LET next   == NextAt(B, blk, i)
      before == IF next = blk THEN B ELSE [B EXCEPT ![blk].end = i]
  IN IF ret \/ i = e THEN [before EXCEPT ![next].end = i] ELSE before

(* To set the end of a block changes nothing else. *)
LEMMA EndSet ==
  ASSUME NEW B, B \in [DOMAIN B -> CodeBlock], NEW l \in DOMAIN B, NEW i \in Int
  PROVE  LET C == [B EXCEPT ![l].end = i] IN
         /\ DOMAIN C = DOMAIN B /\ C \in [DOMAIN B -> CodeBlock]
         /\ C[l].end = i /\ C[l].body = B[l].body
         /\ \A m \in DOMAIN B : m # l => C[m] = B[m]
<1> QED BY DEF CodeBlock

(* A step of the search for the ends: the block that ends before the next  *)
(* leader is known to the end, and at the end of the function all blocks   *)
(* are.                                                                    *)
LEMMA EndsStep ==
  ASSUME NEW prg, NEW f \in Int, NEW B, NEW blk \in Int, NEW i \in Int, NEW ret \in BOOLEAN,
         prg.funcs[f] \in Int, i <= prg.funcs[f],
         EndsKnown(prg, f, B, blk, i)
  PROVE  EndsKnown(prg, f, BlocksAt(B, blk, i, prg.funcs[f], ret), NextAt(B, blk, i), i + 1)
<1> DEFINE e == prg.funcs[f]
           next == NextAt(B, blk, i)
           before == IF next = blk THEN B ELSE [B EXCEPT ![blk].end = i]
           C == BlocksAt(B, blk, i, e, ret)
<1>1. /\ Begun(prg, f, B, e) /\ Bodiless(B)
      /\ blk \in DOMAIN B /\ f <= blk /\ blk <= i
      /\ \A m \in DOMAIN B : ~ (blk < m /\ m <= i)
      /\ \A l \in Inner(prg, f, B) : l < blk => EndOK(B, e, l)
      /\ DOMAIN B \subseteq Int /\ B \in [DOMAIN B -> CodeBlock]
  BY DEF EndsKnown, Begun
<1>2. next \in DOMAIN B
  BY <1>1 DEF NextAt
<1>3. IF i + 1 \in DOMAIN B THEN next = i + 1 /\ next # blk ELSE next = blk
  BY <1>1 DEF NextAt
<1> HIDE DEF next
<1>4. /\ DOMAIN before = DOMAIN B /\ before \in [DOMAIN B -> CodeBlock]
      /\ next # blk => before[blk].end = i
      /\ \A l \in DOMAIN B : before[l].body = B[l].body /\ (l # blk => before[l] = B[l])
  <2>1. CASE next = blk
    BY <1>1, <2>1
  <2>2. CASE next # blk
    BY <1>1, <2>2, EndSet
  <2> QED BY <2>1, <2>2
<1> HIDE DEF before
<1>5. C = IF ret \/ i = e THEN [before EXCEPT ![next].end = i] ELSE before
  BY DEF BlocksAt, next, before
<1> HIDE DEF C
<1>6. /\ DOMAIN C = DOMAIN B /\ C \in [DOMAIN B -> CodeBlock]
      /\ i = e => C[next].end = i
      /\ next # blk => C[blk].end = i
      /\ \A l \in DOMAIN B :
           C[l].body = B[l].body /\ (l # blk /\ l # next => C[l] = B[l])
  <2>1. CASE ret \/ i = e
    <3>1. /\ DOMAIN C = DOMAIN before /\ C \in [DOMAIN before -> CodeBlock]
          /\ C[next].end = i /\ C[next].body = before[next].body
          /\ \A m \in DOMAIN before : m # next => C[m] = before[m]
      BY <1>2, <1>4, <1>5, <2>1, EndSet
    <3> QED BY <1>1, <1>4, <3>1
  <2>2. CASE ~ (ret \/ i = e)
    BY <1>4, <1>5, <2>2
  <2> QED BY <2>1, <2>2
<1>7. Begun(prg, f, C, e) /\ Bodiless(C)
  BY <1>1, <1>6 DEF Begun, Bodiless
<1>8. Inner(prg, f, C) = Inner(prg, f, B)
  BY <1>6 DEF Inner
<1>9. ASSUME NEW l \in Inner(prg, f, B), l < blk PROVE EndOK(C, e, l)
  <2>1. l \in DOMAIN B /\ l # blk /\ l # next
    BY <1>1, <1>3, <1>9 DEF Inner
  <2> QED BY <1>1, <1>6, <1>9, <2>1 DEF EndOK
<1>10. CASE i + 1 \in DOMAIN B
  <2>1. next = i + 1 /\ next # blk /\ C[blk].end = i
    BY <1>3, <1>6, <1>10
  <2>2. EndOK(C, e, blk)
    BY <1>1, <1>6, <1>10, <2>1 DEF EndOK
  <2>3. ASSUME NEW l \in Inner(prg, f, C), l < next PROVE EndOK(C, e, l)
    <3>1. l = blk \/ l < blk
      BY <1>1, <1>8, <2>1, <2>3 DEF Inner
    <3> QED BY <1>8, <1>9, <2>2, <3>1
  <2>4. i + 1 > e => Ended(prg, f, C)
    <3> SUFFICES ASSUME i + 1 > e, NEW l \in Inner(prg, f, C) PROVE EndOK(C, e, l)
      BY DEF Ended
    <3>1. l \in Int /\ l <= e
      BY <1>1, <1>6 DEF Inner
    <3> QED BY <2>1, <2>3, <3>1
  <2>5. /\ next \in DOMAIN C /\ f <= next /\ next <= i + 1
        /\ \A m \in DOMAIN C : ~ (next < m /\ m <= i + 1)
    BY <1>1, <1>2, <1>6, <2>1
  <2> QED BY <1>7, <2>3, <2>4, <2>5 DEF EndsKnown, next, C
<1>11. CASE i + 1 \notin DOMAIN B
  <2>1. next = blk
    BY <1>3, <1>11
  <2>2. i = e => EndOK(C, e, blk)
    BY <1>1, <1>6, <2>1 DEF EndOK
  <2>3. \A m \in DOMAIN B : ~ (blk < m /\ m <= i + 1)
    BY <1>1, <1>11
  <2>4. i + 1 > e => Ended(prg, f, C)
    <3> SUFFICES ASSUME i + 1 > e, NEW l \in Inner(prg, f, C) PROVE EndOK(C, e, l)
      BY DEF Ended
    <3>1. i = e
      OBVIOUS
    <3>2. l \in DOMAIN B /\ l \in Int /\ l <= i + 1
      BY <1>1, <1>6, <3>1 DEF Inner
    <3>3. l = blk \/ l < blk
      BY <1>1, <2>3, <3>2
    <3> QED BY <1>8, <1>9, <2>2, <3>1, <3>3
  <2>5. /\ blk \in DOMAIN C /\ f <= blk /\ blk <= i + 1
        /\ \A m \in DOMAIN C : ~ (blk < m /\ m <= i + 1)
    BY <1>1, <1>6, <2>3
  <2>6. \A l \in Inner(prg, f, C) : l < blk => EndOK(C, e, l)
    BY <1>8, <1>9
  <2> QED BY <1>7, <2>1, <2>4, <2>5, <2>6 DEF EndsKnown, next, C
<1> QED BY <1>10, <1>11

(* With all ends known, emission begins at the first block. *)
LEMMA EmitStart ==
  ASSUME NEW prg, NEW f \in Int, NEW B, NEW blk, NEW i \in Int,
         prg.funcs[f] \in Int, i > prg.funcs[f],
         EndsKnown(prg, f, B, blk, i)
  PROVE  EmitKnown(prg, f, B, f, TRUE)
<1>1. /\ Begun(prg, f, B, prg.funcs[f]) /\ Bodiless(B) /\ Ended(prg, f, B)
      /\ f \in DOMAIN B /\ DOMAIN B \subseteq Int
  BY DEF EndsKnown, Begun
<1>2. ASSUME NEW l \in Inner(prg, f, B)
      PROVE  ~ (l < f) /\ B[l].body = <<>>
  BY <1>1 DEF Inner, Bodiless
<1> QED BY <1>1, <1>2 DEF EmitKnown

(* Block i is being filled, and may get the body b. *)
MayTake(prg, f, B, i, b) ==
  /\ f \in Int /\ i \in Int /\ b \in Seq(ItemType)
  /\ prg.funcs[f] \in Int /\ i <= prg.funcs[f]
  /\ EmitKnown(prg, f, B, i, FALSE)

WithBody(B, i, b) == [B EXCEPT ![i].body = b]

Takes(prg, f, B, i, b) ==
  /\ EmitKnown(prg, f, WithBody(B, i, b), i, FALSE)
  /\ WithBody(B, i, b)[i].body = b /\ WithBody(B, i, b)[i].end = B[i].end

(* To add to the body of block i disturbs no other block. *)
LEMMA BodySet ==
  ASSUME NEW prg, NEW f, NEW B, NEW i, NEW b, MayTake(prg, f, B, i, b)
  PROVE  Takes(prg, f, B, i, b)
<1> DEFINE C == WithBody(B, i, b)
           e == prg.funcs[f]
<1>a. /\ f \in Int /\ i \in Int /\ b \in Seq(ItemType)
      /\ prg.funcs[f] \in Int /\ i <= prg.funcs[f]
      /\ EmitKnown(prg, f, B, i, FALSE)
  BY DEF MayTake
<1>1. /\ Begun(prg, f, B, e) /\ Ended(prg, f, B)
      /\ f <= i /\ i \in DOMAIN B
      /\ DOMAIN B \subseteq Int /\ B \in [DOMAIN B -> CodeBlock]
      /\ \A l \in Inner(prg, f, B) :
           /\ l < i => BlockFilled(prg, f, B, l)
           /\ i < l => B[l].body = <<>>
  BY <1>a DEF EmitKnown, Begun
<1>2. /\ DOMAIN C = DOMAIN B /\ C \in [DOMAIN B -> CodeBlock]
      /\ C[i].body = b /\ C[i].end = B[i].end
      /\ \A l \in DOMAIN B : l # i => C[l] = B[l]
  BY <1>a, <1>1 DEF CodeBlock, WithBody
<1> HIDE DEF C
<1>3. \A l \in DOMAIN B : C[l].end = B[l].end
  BY <1>2
<1>4. Begun(prg, f, C, e)
  BY <1>1, <1>2 DEF Begun
<1>5. Inner(prg, f, C) = Inner(prg, f, B)
  BY <1>2 DEF Inner
<1>6. Ended(prg, f, C)
  BY <1>a, <1>1, <1>2, <1>3, <1>5 DEF Ended, EndOK, Inner
<1>7. ASSUME NEW l \in Inner(prg, f, C)
      PROVE  /\ l < i => BlockFilled(prg, f, C, l)
             /\ i < l => C[l].body = <<>>
  <2>1. l # i => C[l] = B[l]
    BY <1>2, <1>5 DEF Inner
  <2> QED BY <1>a, <1>1, <1>5, <2>1 DEF BlockFilled, Inner
<1>8. EmitKnown(prg, f, C, i, FALSE)
  BY <1>a, <1>1, <1>2, <1>4, <1>6, <1>7 DEF EmitKnown
<1> QED BY <1>2, <1>8 DEF C, Takes

(* A block that is filled to its end leads to the next. *)
LEMMA BlockLeft ==
  ASSUME NEW prg, NEW f \in Int, NEW B, NEW i \in Int, NEW j \in Int,
         prg.funcs[f] \in Int, i <= prg.funcs[f],
         EmitKnown(prg, f, B, i, FALSE),
         i <= j, j > B[i].end, j <= B[i].end + 1,
         Filled(prg, f, B[i].end, B[i].body, i, j - 1)
  PROVE  EmitKnown(prg, f, B, j, TRUE)
<1> DEFINE e == prg.funcs[f]
<1>1. /\ Begun(prg, f, B, e) /\ Ended(prg, f, B)
      /\ f <= i /\ i \in DOMAIN B
      /\ DOMAIN B \subseteq Int /\ B \in [DOMAIN B -> CodeBlock]
      /\ \A l \in Inner(prg, f, B) :
           /\ l < i => BlockFilled(prg, f, B, l)
           /\ i < l => B[l].body = <<>>
  BY DEF EmitKnown, Begun
<1>2. B[i].end \in Int /\ j = B[i].end + 1 /\ j - 1 = B[i].end
  <2>1. B[i].end \in Int
    BY <1>1 DEF CodeBlock
  <2> QED BY <2>1
<1>3. EndOK(B, e, i) /\ BlockFilled(prg, f, B, i)
  BY <1>1, <1>2 DEF Ended, Inner, BlockFilled
<1>4. f <= j /\ (j <= e => j \in DOMAIN B) /\ i < j
  BY <1>1, <1>2, <1>3 DEF EndOK
<1>5. ASSUME NEW l \in Inner(prg, f, B)
      PROVE  /\ l < j => BlockFilled(prg, f, B, l)
             /\ j <= l => B[l].body = <<>>
  <2>1. l \in DOMAIN B /\ l \in Int
    BY <1>1 DEF Inner
  <2>2. l < j => l <= i
    BY <1>2, <1>3, <2>1 DEF EndOK
  <2>3. l < j => l < i \/ l = i
    BY <2>1, <2>2
  <2>4. j <= l => i < l
    BY <1>4, <2>1
  <2> QED BY <1>1, <1>3, <2>3, <2>4
<1>6. \A l \in Inner(prg, f, B) : j < l \/ (j = l /\ TRUE) => B[l].body = <<>>
  BY <1>1, <1>5 DEF Inner
<1> QED BY <1>1, <1>4, <1>5, <1>6 DEF EmitKnown

(* When no block is left, the function is whole. *)
LEMMA EmitEnd ==
  ASSUME NEW prg, NEW f \in Int, NEW B, NEW i \in Int, NEW fresh,
         prg.funcs[f] \in Int, i > prg.funcs[f],
         EmitKnown(prg, f, B, i, fresh)
  PROVE  Whole(prg, f, B)
<1>1. DOMAIN B \subseteq Int
  BY DEF EmitKnown, Begun
<1>2. \A l \in Inner(prg, f, B) : l < i
  BY <1>1 DEF Inner
<1> QED BY <1>2 DEF EmitKnown, Whole

-----------------------------------------------------------------------------
(* A step within a function keeps what is known of the others. *)
OthersKept ==
  /\ DOMAIN codeBlocks \subseteq DOMAIN codeBlocks'
  /\ DOMAIN codeBlocks' \subseteq DOMAIN funcs
  /\ codeBlocks' = [g \in DOMAIN codeBlocks' |-> codeBlocks'[g]]
  /\ \A g \in DOMAIN codeBlocks : g # func => codeBlocks'[g] = codeBlocks[g]
  /\ \A g \in DOMAIN codeBlocks' \ DOMAIN codeBlocks : codeBlocks'[g] = New(g)

(* The other functions and the types survive a step within one function. *)
LEMMA Kept ==
  ASSUME Typed, Waiting, Completed, OthersKept,
         pc \in Working, pc' \in Working \cup {"dead"},
         UNCHANGED <<program, done, func>>,
         idx' \in Int, block' \in Int, at' \in Int
  PROVE  Typed' /\ Waiting' /\ Completed'
<1>1. /\ program \in Programs /\ program.imports \subseteq done
      /\ done \subseteq DOMAIN codeBlocks /\ func \in DOMAIN codeBlocks \ done
  BY DEF Typed
<1>2. Typed'
  BY <1>1 DEF OthersKept, Typed, Working, funcs
<1>3. Waiting'
  <2> SUFFICES ASSUME NEW g \in DOMAIN codeBlocks' \ done, g # func
               PROVE  codeBlocks'[g] = New(g)
    BY DEF Waiting
  <2>1. CASE g \in DOMAIN codeBlocks
    BY <2>1 DEF Waiting, OthersKept
  <2>2. CASE g \notin DOMAIN codeBlocks
    BY <2>2 DEF OthersKept
  <2> QED BY <2>1, <2>2
<1>4. Completed'
  <2> SUFFICES ASSUME NEW f \in Finished PROVE Whole(program, f, codeBlocks'[f])
    BY DEF Completed, Finished
  <2>1. f \in DOMAIN codeBlocks /\ f # func /\ Whole(program, f, codeBlocks[f])
    BY <1>1 DEF Completed, Finished
  <2> QED BY <2>1 DEF OthersKept
<1> QED BY <1>2, <1>3, <1>4

(* A step that leaves the blocks alone keeps the others. *)
LEMMA BlocksUnchanged ==
  ASSUME Typed, UNCHANGED codeBlocks
  PROVE  OthersKept
<1> QED BY DEF Typed, OthersKept

(* A step that changes the blocks of the function at work keeps the        *)
(* others.                                                                 *)
LEMMA BlocksOfFunc ==
  ASSUME Typed, func \in DOMAIN codeBlocks,
         NEW B, codeBlocks' = [codeBlocks EXCEPT ![func] = B]
  PROVE  OthersKept /\ codeBlocks'[func] = B
<1> QED BY DEF Typed, OthersKept

(* The function that is worked on, by its types. *)
LEMMA AtWork ==
  ASSUME Typed, pc \in Working
  PROVE  /\ program \in Programs /\ func \in DOMAIN codeBlocks \ done
         /\ func \in Int /\ program.funcs[func] \in Int /\ End = program.funcs[func]
         /\ idx \in Int /\ block \in Int /\ at \in Int
         /\ DOMAIN code \subseteq Int
<1>1. program \in Programs /\ func \in DOMAIN program.funcs
  BY DEF Typed, funcs
<1> QED BY <1>1, ProgramsAre DEF Typed, End, funcs, code

-----------------------------------------------------------------------------
(* The invariant holds before the first function. *)
LEMMA InitInv == Init => IInv
<1> SUFFICES ASSUME Init PROVE IInv
  OBVIOUS
<1>1. program \in Programs /\ program.imports \subseteq DOMAIN program.funcs
  BY CallsAre DEF Init
<1>2. DOMAIN codeBlocks = done /\ done = program.imports
  BY DEF Init
<1>3. Typed
  BY <1>1, <1>2 DEF Init, Typed, Working, funcs
<1>4. Waiting
  BY <1>2 DEF Waiting
<1>5. Completed
  BY <1>2 DEF Completed, Finished
<1> QED BY <1>3, <1>4, <1>5 DEF Init, IInv, FindingLeaders, FindingEnds, Emitting, InBlock

(* pass_Emit takes a function whose body is new. *)
LEMMA NextFunctionInv ==
  ASSUME IInv, NEW f \in DOMAIN funcs, NextFunction(f)
  PROVE  IInv'
<1>1. /\ pc = "functions" /\ f \notin done /\ pc' = "leaders" /\ func' = f /\ idx' = f
      /\ codeBlocks' = InitFuncBody(codeBlocks, {f})
      /\ UNCHANGED <<program, done, block, at>>
  BY DEF NextFunction
<1>2. program \in Programs /\ f \in DOMAIN program.funcs
  BY DEF IInv, Typed, funcs
<1>3. /\ GetCreate(<<>>, {f}) = New(f) /\ f \in Int
      /\ Begun(program, f, New(f), f - 1) /\ Bodiless(New(f))
  BY <1>2, NewBegun
<1>4. /\ DOMAIN codeBlocks' = DOMAIN codeBlocks \cup {f}
      /\ codeBlocks' = [g \in DOMAIN codeBlocks' |-> codeBlocks'[g]]
      /\ \A g \in DOMAIN codeBlocks : codeBlocks'[g] = codeBlocks[g]
      /\ f \notin DOMAIN codeBlocks => codeBlocks'[f] = New(f)
  BY <1>1, <1>3 DEF InitFuncBody
<1>5. f \in DOMAIN codeBlocks => codeBlocks[f] = New(f)
  BY <1>1 DEF IInv, Waiting, Working
<1>6. codeBlocks'[f] = New(f)
  BY <1>4, <1>5
<1>7. Typed'
  BY <1>1, <1>2, <1>3, <1>4 DEF IInv, Typed, Working, funcs
<1>8. Waiting'
  BY <1>1, <1>4 DEF IInv, Waiting, Working
<1>9. Completed'
  <2> SUFFICES ASSUME NEW g \in Finished PROVE Whole(program, g, codeBlocks'[g])
    BY <1>1 DEF Completed, Finished
  <2>1. g \in DOMAIN codeBlocks /\ Whole(program, g, codeBlocks[g])
    BY DEF IInv, Typed, Completed, Finished
  <2> QED BY <1>4, <2>1
<1>10. FindingLeaders'
  BY <1>1, <1>3, <1>6 DEF FindingLeaders, B0
<1> QED BY <1>1, <1>7, <1>8, <1>9, <1>10 DEF IInv, FindingEnds, Emitting, InBlock

(* The end of the pass changes nothing that is known. *)
LEMMA AllDoneInv == ASSUME IInv, AllDone PROVE IInv'
<1>1. /\ pc = "functions" /\ pc' = "written"
      /\ UNCHANGED <<program, done, codeBlocks, func, idx, block, at>>
  BY DEF AllDone
<1>2. Typed' /\ Waiting' /\ Completed'
  BY <1>1 DEF IInv, Typed, Waiting, Completed, Finished, Working, funcs
<1> QED BY <1>1, <1>2 DEF IInv, FindingLeaders, FindingEnds, Emitting, InBlock

(* The leaders of one more instruction are in the map. *)
LEMMA FindLeadersInv == ASSUME IInv, FindLeaders PROVE IInv'
<1> DEFINE C == GetCreate(B0, LeadersIn(program, func, idx))
<1>1. /\ pc = "leaders" /\ idx \in DOMAIN code /\ idx' = idx + 1
      /\ UNCHANGED <<program, done, pc, func, block, at>>
  BY DEF FindLeaders
<1>2. Typed /\ Waiting /\ Completed /\ pc \in Working
  BY <1>1 DEF IInv, Working
<1>3. func \in DOMAIN codeBlocks /\ func \in Int /\ idx \in Int /\ program \in Programs
  BY <1>2, AtWork
<1>4. codeBlocks' = [codeBlocks EXCEPT ![func] = C]
  BY SameOperators DEF FindLeaders, B0
<1>5. func <= idx /\ Begun(program, func, B0, idx - 1) /\ Bodiless(B0)
  BY <1>1 DEF IInv, FindingLeaders
<1>6. Begun(program, func, C, idx) /\ Bodiless(C)
  BY <1>1, <1>3, <1>5, LeadersBegun DEF code
<1> HIDE DEF C
<1>7. OthersKept /\ codeBlocks'[func] = C
  BY <1>2, <1>3, <1>4, BlocksOfFunc
<1>8. Typed' /\ Waiting' /\ Completed'
  <2>1. idx' \in Int /\ block' \in Int /\ at' \in Int /\ pc' \in Working
    BY <1>1, <1>2, <1>3 DEF Typed
  <2> QED BY <1>1, <1>2, <1>7, <2>1, Kept
<1>9. FindingLeaders'
  <2>1. idx' - 1 = idx /\ func <= idx'
    BY <1>1, <1>3, <1>5
  <2> QED BY <1>1, <1>6, <1>7, <2>1 DEF FindingLeaders, B0
<1> QED BY <1>1, <1>8, <1>9 DEF IInv, FindingEnds, Emitting, InBlock

(* With all leaders found, the search for the ends begins at the first     *)
(* block.                                                                  *)
LEMMA LeadersFoundInv == ASSUME IInv, LeadersFound PROVE IInv'
<1>1. /\ pc = "leaders" /\ idx > End /\ pc' = "ends" /\ idx' = func /\ block' = func
      /\ UNCHANGED <<program, done, codeBlocks, func, at>>
  BY DEF LeadersFound
<1>2. Typed /\ Waiting /\ Completed /\ pc \in Working
  BY <1>1 DEF IInv, Working
<1>3. /\ func \in Int /\ idx \in Int /\ at \in Int
      /\ program.funcs[func] \in Int /\ End = program.funcs[func]
  BY <1>2, AtWork
<1>4. Typed' /\ Waiting' /\ Completed'
  <2>1. idx' \in Int /\ block' \in Int /\ at' \in Int /\ pc' \in Working
    BY <1>1, <1>3 DEF Working
  <2> QED BY <1>1, <1>2, <2>1, Kept, BlocksUnchanged
<1>5. func <= idx /\ Begun(program, func, B0, idx - 1) /\ Bodiless(B0)
  BY <1>1 DEF IInv, FindingLeaders
<1>6. Begun(program, func, B0, program.funcs[func])
  BY <1>1, <1>3, <1>5 DEF Begun
<1>7. func \in DOMAIN B0 /\ DOMAIN B0 \subseteq Int
  BY <1>6 DEF Begun
<1>8. \A m \in DOMAIN B0 : ~ (func < m /\ m <= func)
  BY <1>3, <1>7
<1>9. \A l \in Inner(program, func, B0) : ~ (l < func) /\ ~ (func > program.funcs[func])
  BY <1>3, <1>7 DEF Inner
<1>10. EndsKnown(program, func, B0, func, func)
  BY <1>3, <1>5, <1>6, <1>7, <1>8, <1>9 DEF EndsKnown, Ended
<1>11. FindingEnds'
  BY <1>1, <1>10 DEF FindingEnds, B0
<1> QED BY <1>1, <1>4, <1>11 DEF IInv, FindingLeaders, Emitting, InBlock

(* One more instruction is passed in the search for the ends. *)
LEMMA FindEndsInv == ASSUME IInv, FindEnds PROVE IInv'
<1> DEFINE ret == code[idx].op = "bclr"
           e == program.funcs[func]
           C == BlocksAt(B0, block, idx, e, ret)
<1>1. /\ pc = "ends" /\ idx <= End /\ idx \in DOMAIN code /\ idx' = idx + 1
      /\ UNCHANGED <<program, done, pc, func, at>>
  BY DEF FindEnds
<1>2. Typed /\ Waiting /\ Completed /\ pc \in Working
  BY <1>1 DEF IInv, Working
<1>3. /\ func \in DOMAIN codeBlocks /\ func \in Int /\ idx \in Int /\ block \in Int
      /\ e \in Int /\ End = e /\ at \in Int
  BY <1>2, AtWork
<1>4. block' = NextAt(B0, block, idx)
  BY DEF FindEnds, NextBlock, NextAt, B0
<1>5. codeBlocks' = [codeBlocks EXCEPT ![func] = C]
  BY <1>3 DEF FindEnds, NextBlock, NextAt, EndsAt, BlocksAt, B0
<1>6. EndsKnown(program, func, B0, block, idx)
  BY <1>1 DEF IInv, FindingEnds
<1>7. EndsKnown(program, func, C, NextAt(B0, block, idx), idx + 1)
  <2>1. ret \in BOOLEAN
    OBVIOUS
  <2> HIDE DEF ret
  <2> QED BY <1>1, <1>3, <1>6, <2>1, EndsStep
<1>8. NextAt(B0, block, idx) \in Int
  BY <1>3 DEF NextAt
<1> HIDE DEF C
<1>9. OthersKept /\ codeBlocks'[func] = C
  BY <1>2, <1>3, <1>5, BlocksOfFunc
<1>10. Typed' /\ Waiting' /\ Completed'
  <2>1. idx' \in Int /\ block' \in Int /\ at' \in Int /\ pc' \in Working
    BY <1>1, <1>2, <1>3, <1>4, <1>8
  <2> QED BY <1>1, <1>2, <1>9, <2>1, Kept
<1>11. FindingEnds'
  BY <1>1, <1>4, <1>7, <1>9 DEF FindingEnds, B0
<1> QED BY <1>1, <1>10, <1>11 DEF IInv, FindingLeaders, Emitting, InBlock

(* With all ends found, emission begins at the first block. *)
LEMMA EndsFoundInv == ASSUME IInv, EndsFound PROVE IInv'
<1>1. /\ pc = "ends" /\ idx > End /\ pc' = "emit" /\ idx' = func
      /\ UNCHANGED <<program, done, codeBlocks, func, block, at>>
  BY DEF EndsFound
<1>2. Typed /\ Waiting /\ Completed /\ pc \in Working
  BY <1>1 DEF IInv, Working
<1>3. /\ func \in Int /\ idx \in Int /\ at \in Int /\ block \in Int
      /\ program.funcs[func] \in Int /\ End = program.funcs[func]
  BY <1>2, AtWork
<1>4. Typed' /\ Waiting' /\ Completed'
  <2>1. idx' \in Int /\ block' \in Int /\ at' \in Int /\ pc' \in Working
    BY <1>1, <1>3 DEF Working
  <2> QED BY <1>1, <1>2, <2>1, Kept, BlocksUnchanged
<1>5. EndsKnown(program, func, B0, block, idx)
  BY <1>1 DEF IInv, FindingEnds
<1>6. EmitKnown(program, func, B0, func, TRUE)
  BY <1>1, <1>3, <1>5, EmitStart
<1>7. Emitting'
  BY <1>1, <1>6 DEF Emitting, B0
<1> QED BY <1>1, <1>4, <1>7 DEF IInv, FindingLeaders, FindingEnds, InBlock

(* A block is entered with an empty body. *)
LEMMA EnterBlockInv == ASSUME IInv, EnterBlock PROVE IInv'
<1>1. /\ pc = "emit" /\ idx <= End /\ idx \in DOMAIN B0
      /\ pc' = "block" /\ block' = idx /\ at' = idx
      /\ UNCHANGED <<program, done, codeBlocks, func, idx>>
  BY DEF EnterBlock, B0
<1>2. Typed /\ Waiting /\ Completed /\ pc \in Working
  BY <1>1 DEF IInv, Working
<1>3. func \in Int /\ idx \in Int /\ program.funcs[func] \in Int /\ End = program.funcs[func]
  BY <1>2, AtWork
<1>4. Typed' /\ Waiting' /\ Completed'
  <2>1. idx' \in Int /\ block' \in Int /\ at' \in Int /\ pc' \in Working
    BY <1>1, <1>3 DEF Working
  <2> QED BY <1>1, <1>2, <2>1, Kept, BlocksUnchanged
<1>5. EmitKnown(program, func, B0, idx, TRUE)
  BY <1>1 DEF IInv, Emitting
<1>6. EmitKnown(program, func, B0, idx, FALSE)
  BY <1>5 DEF EmitKnown
<1>7. Emitting'
  BY <1>1, <1>6 DEF Emitting, B0
<1>8. /\ idx \in Inner(program, func, B0) /\ B0[idx].body = <<>>
      /\ idx <= B0[idx].end /\ B0[idx].end \in Int
  <2>1. Begun(program, func, B0, program.funcs[func]) /\ func <= idx
    BY <1>5 DEF EmitKnown
  <2>2. idx \in Inner(program, func, B0)
    BY <1>1, <1>3, <2>1 DEF Inner
  <2>3. B0[idx].end \in Int
    BY <1>1, <2>1 DEF Begun, CodeBlock
  <2> QED BY <1>5, <2>2, <2>3 DEF EmitKnown, Ended, EndOK
<1>9. Filled(program, func, B0[idx].end, <<>>, idx, idx - 1)
  <2>1. idx .. (idx - 1) = {} /\ DOMAIN <<>> = {} /\ <<>> \in Seq(ItemType)
    BY <1>3
  <2> QED BY <2>1 DEF Filled, Sound
<1>10. InBlock'
  BY <1>1, <1>3, <1>8, <1>9 DEF InBlock, B0, End, funcs
<1> QED BY <1>1, <1>4, <1>7, <1>10 DEF IInv, FindingLeaders, FindingEnds

(* A block is left when it holds all its instructions. *)
LEMMA LeaveBlockInv == ASSUME IInv, LeaveBlock PROVE IInv'
<1>1. /\ pc = "block" /\ at > B0[block].end /\ pc' = "emit" /\ idx' = at
      /\ UNCHANGED <<program, done, codeBlocks, func, block, at>>
  BY DEF LeaveBlock, B0
<1>2. Typed /\ Waiting /\ Completed /\ pc \in Working
  BY <1>1 DEF IInv, Working
<1>3. /\ func \in Int /\ idx \in Int /\ at \in Int /\ block \in Int
      /\ program.funcs[func] \in Int /\ End = program.funcs[func]
  BY <1>2, AtWork
<1>4. Typed' /\ Waiting' /\ Completed'
  <2>1. idx' \in Int /\ block' \in Int /\ at' \in Int /\ pc' \in Working
    BY <1>1, <1>3 DEF Working
  <2> QED BY <1>1, <1>2, <2>1, Kept, BlocksUnchanged
<1>5. /\ block = idx /\ idx <= End /\ idx <= at /\ at <= B0[idx].end + 1
      /\ Filled(program, func, B0[idx].end, B0[idx].body, idx, at - 1)
      /\ EmitKnown(program, func, B0, idx, FALSE)
  BY <1>1 DEF IInv, InBlock, Emitting
<1>6. EmitKnown(program, func, B0, at, TRUE)
  BY <1>1, <1>3, <1>5, BlockLeft
<1>7. Emitting'
  BY <1>1, <1>6 DEF Emitting, B0
<1> QED BY <1>1, <1>4, <1>7 DEF IInv, FindingLeaders, FindingEnds, InBlock

(* A function is done when all its blocks are filled. *)
LEMMA FunctionDoneInv == ASSUME IInv, FunctionDone PROVE IInv'
<1>1. /\ pc = "emit" /\ idx > End /\ pc' = "functions" /\ done' = done \cup {func}
      /\ UNCHANGED <<program, codeBlocks, func, idx, block, at>>
  BY DEF FunctionDone
<1>2. Typed /\ Waiting /\ Completed /\ pc \in Working
  BY <1>1 DEF IInv, Working
<1>3. /\ func \in Int /\ idx \in Int /\ func \in DOMAIN codeBlocks
      /\ program.funcs[func] \in Int /\ End = program.funcs[func]
  BY <1>2, AtWork
<1>4. Typed'
  BY <1>1, <1>2, <1>3 DEF Typed, Working, funcs
<1>5. Waiting'
  BY <1>1, <1>2 DEF Waiting
<1>6. EmitKnown(program, func, B0, idx, TRUE)
  BY <1>1 DEF IInv, Emitting
<1>7. Whole(program, func, B0)
  BY <1>1, <1>3, <1>6, EmitEnd
<1>8. Completed'
  <2> SUFFICES ASSUME NEW f \in (done \cup {func}) \ program.imports
               PROVE  Whole(program, f, codeBlocks[f])
    BY <1>1 DEF Completed, Finished
  <2>1. CASE f = func
    BY <1>7, <2>1 DEF B0
  <2>2. CASE f # func
    BY <1>2, <2>2 DEF Completed, Finished
  <2> QED BY <2>1, <2>2
<1> QED BY <1>1, <1>4, <1>5, <1>8 DEF IInv, FindingLeaders, FindingEnds, Emitting, InBlock

(* A pass that throws keeps what the finished functions are. *)
LEMMA ThrowInv == ASSUME IInv, Throw PROVE IInv'
<1>1. /\ pc \in Working /\ pc' = "dead"
      /\ UNCHANGED <<program, done, codeBlocks, func, idx, block, at>>
  BY DEF Throw, Dead, Working
<1>2. Typed /\ Waiting /\ Completed
  BY DEF IInv
<1>3. Typed' /\ Waiting' /\ Completed'
  <2>1. idx' \in Int /\ block' \in Int /\ at' \in Int
    BY <1>1, <1>2 DEF Typed
  <2> QED BY <1>1, <1>2, <2>1, Kept, BlocksUnchanged
<1> QED BY <1>1, <1>3 DEF IInv, FindingLeaders, FindingEnds, Emitting, InBlock

(* An instruction is emitted behind the one before it, and the bodies it   *)
(* makes begin are new.                                                    *)
LEMMA EmitInstructionInv == ASSUME IInv, EmitInstruction PROVE IInv'
<1> DEFINE e == B0[block].end
           b == B0[block].body
           nb == b \o Emitted(at) \o Closing(at)
           C == WithBody(B0, idx, nb)
           I == InitFuncBody(codeBlocks, Bodies(at))
<1>1. /\ pc = "block" /\ at <= e /\ at \in DOMAIN code /\ ~ Stops(at) /\ at' = at + 1
      /\ codeBlocks' = [I EXCEPT ![func] = [GetCreate(B0, Leaders(at)) EXCEPT
                          ![block].body = @ \o Emitted(at) \o Closing(at)]]
      /\ UNCHANGED <<program, done, pc, func, idx, block>>
  BY DEF EmitInstruction, B0
<1>2. Typed /\ Waiting /\ Completed /\ pc \in Working
  BY <1>1 DEF IInv, Working
<1>3. /\ func \in Int /\ idx \in Int /\ at \in Int /\ block \in Int
      /\ func \in DOMAIN codeBlocks /\ program \in Programs
      /\ program.funcs[func] \in Int /\ End = program.funcs[func]
  BY <1>2, AtWork
<1>4. /\ block = idx /\ idx <= End /\ idx <= at
      /\ Filled(program, func, e, b, block, at - 1)
      /\ EmitKnown(program, func, B0, idx, FALSE)
  BY <1>1 DEF IInv, InBlock, Emitting
<1>5. /\ Begun(program, func, B0, End) /\ Ended(program, func, B0)
      /\ func <= idx /\ idx \in DOMAIN B0
      /\ DOMAIN B0 \subseteq Int /\ B0 \in [DOMAIN B0 -> CodeBlock]
  BY <1>3, <1>4 DEF EmitKnown, Begun
<1>6. e \in Int /\ e <= End
  <2>1. idx \in Inner(program, func, B0)
    BY <1>3, <1>4, <1>5 DEF Inner
  <2> QED BY <1>3, <1>4, <1>5, <2>1 DEF Ended, EndOK, CodeBlock
<1>7. GetCreate(B0, Leaders(at)) = B0
  <2>1. at \in func .. End
    BY <1>1, <1>3, <1>4, <1>5, <1>6
  <2>2. Leaders(at) \subseteq DOMAIN B0
    BY <1>5, <2>1, SameOperators DEF Begun
  <2>3. DOMAIN B0 \cup Leaders(at) = DOMAIN B0
    BY <2>2
  <2>4. B0 = [l \in DOMAIN B0 |-> B0[l]]
    BY <1>5
  <2> QED BY <2>3, <2>4 DEF GetCreate
<1>8. Bodies(at) \subseteq DOMAIN funcs
  BY DEF Bodies, AfterCall, isIRFuncinMap
<1>9. /\ DOMAIN I = DOMAIN codeBlocks \cup Bodies(at)
      /\ I = [g \in DOMAIN I |-> I[g]]
      /\ \A g \in DOMAIN codeBlocks : I[g] = codeBlocks[g]
      /\ \A g \in DOMAIN I \ DOMAIN codeBlocks : I[g] = New(g)
  <2>1. \A g \in Bodies(at) : GetCreate(<<>>, {g}) = New(g)
    BY <1>3, <1>8, NewBegun DEF funcs
  <2> QED BY <2>1 DEF InitFuncBody
<1>10. codeBlocks' = [I EXCEPT ![func] = C]
  <2>1. [GetCreate(B0, Leaders(at)) EXCEPT
           ![block].body = @ \o Emitted(at) \o Closing(at)] = C
    BY <1>4, <1>7 DEF WithBody
  <2> QED BY <1>1, <2>1
<1>11. Filled(program, func, e, nb, block, at)
  <2>1. block <= at /\ e = codeBlocks[func][block].end
    BY <1>4 DEF B0
  <2> HIDE DEF e, b
  <2> QED BY <1>1, <1>3, <1>4, <2>1, InstructionFits
<1>12. nb \in Seq(ItemType)
  BY <1>11 DEF Filled, Sound
<1> HIDE DEF nb, I
<1>13. /\ EmitKnown(program, func, C, idx, FALSE)
       /\ C[idx].body = nb /\ C[idx].end = e
  <2>1. /\ EmitKnown(program, func, C, idx, FALSE)
        /\ C[idx].body = nb /\ C[idx].end = B0[idx].end
    <3>1. MayTake(program, func, B0, idx, nb)
      BY <1>3, <1>4, <1>12 DEF MayTake
    <3>2. Takes(program, func, B0, idx, nb)
      BY ONLY <3>1, BodySet
    <3> QED BY <3>2 DEF Takes
  <2> QED BY <1>4, <2>1
<1> HIDE DEF C, e
<1>14. /\ codeBlocks'[func] = C /\ DOMAIN codeBlocks' = DOMAIN I
       /\ codeBlocks' = [g \in DOMAIN I |-> codeBlocks'[g]]
       /\ \A g \in DOMAIN I : g # func => codeBlocks'[g] = I[g]
  BY <1>3, <1>9, <1>10
<1>15. OthersKept
  BY <1>2, <1>3, <1>8, <1>9, <1>14 DEF OthersKept, Typed
<1>16. Typed' /\ Waiting' /\ Completed'
  <2>1. idx' \in Int /\ block' \in Int /\ at' \in Int /\ pc' \in Working
    BY <1>1, <1>2, <1>3
  <2> QED BY <1>1, <1>2, <1>15, <2>1, Kept
<1>17. Emitting'
  BY <1>1, <1>13, <1>14 DEF Emitting, B0
<1>18. InBlock'
  <2>1. at' - 1 = at /\ idx <= at' /\ at' <= e + 1
    BY <1>1, <1>3, <1>4, <1>6
  <2> QED BY <1>1, <1>4, <1>11, <1>13, <1>14, <2>1 DEF InBlock, B0, End, funcs
<1> QED BY <1>1, <1>16, <1>17, <1>18 DEF IInv, FindingLeaders, FindingEnds

(* Every step of the pass keeps the invariant. *)
LEMMA StepInv == IInv /\ [Next]_vars => IInv'
<1> SUFFICES ASSUME IInv, [Next]_vars PROVE IInv'
  OBVIOUS
<1>1. CASE \E f \in DOMAIN funcs : NextFunction(f)
  BY <1>1, NextFunctionInv
<1>2. CASE AllDone
  BY <1>2, AllDoneInv
<1>3. CASE FindLeaders
  BY <1>3, FindLeadersInv
<1>4. CASE LeadersFound
  BY <1>4, LeadersFoundInv
<1>5. CASE FindEnds
  BY <1>5, FindEndsInv
<1>6. CASE EndsFound
  BY <1>6, EndsFoundInv
<1>7. CASE EnterBlock
  BY <1>7, EnterBlockInv
<1>8. CASE EmitInstruction
  BY <1>8, EmitInstructionInv
<1>9. CASE LeaveBlock
  BY <1>9, LeaveBlockInv
<1>10. CASE FunctionDone
  BY <1>10, FunctionDoneInv
<1>11. CASE Throw
  BY <1>11, ThrowInv
<1>12. CASE UNCHANGED vars
  BY <1>12 DEF vars, IInv, Typed, Waiting, Completed, Finished, Working, funcs, B0,
       FindingLeaders, FindingEnds, Emitting, InBlock, End
<1> QED BY <1>1, <1>2, <1>3, <1>4, <1>5, <1>6, <1>7, <1>8, <1>9, <1>10, <1>11, <1>12 DEF Next

(* The inductive invariant of EmitFunction and pass_Emit: at each          *)
(* instruction of each of the three loops, what is known of the blocks of  *)
(* the function at work, and that finished functions are whole.            *)
THEOREM EmitInvariant == Spec => []IInv
<1> QED BY InitInv, StepInv, PTL DEF Spec

-----------------------------------------------------------------------------
(* What is known of a function that is finished. *)
LEMMA FinishedWhole ==
  ASSUME IInv, NEW f \in Finished
  PROVE  /\ program \in Programs /\ f \in DOMAIN funcs /\ f \in Nat /\ funcs[f] \in Int
         /\ funcs = program.funcs /\ code = program.code
         /\ Whole(program, f, codeBlocks[f])
         /\ Blocks(f) = Inner(program, f, codeBlocks[f])
<1>1. program \in Programs /\ f \in DOMAIN funcs
  BY DEF IInv, Typed, Finished
<1>2. f \in Nat /\ funcs[f] \in Int
  BY <1>1, ProgramsAre DEF funcs
<1>3. Whole(program, f, codeBlocks[f])
  BY DEF IInv, Completed
<1>4. Blocks(f) = Inner(program, f, codeBlocks[f])
  <2>1. DOMAIN codeBlocks[f] \subseteq Int
    BY <1>3 DEF Whole, Begun
  <2> QED BY <1>2, <2>1 DEF Blocks, Inner, funcs
<1> QED BY <1>1, <1>2, <1>3, <1>4 DEF funcs, code

(* The blocks of a function tile it. *)
LEMMA Tiles ==
  ASSUME NEW prg, NEW f \in Int, NEW B, prg.funcs[f] \in Int, Whole(prg, f, B)
  PROVE  /\ \A l \in Inner(prg, f, B) :
              /\ l \in DOMAIN B /\ l \in Int /\ B[l].end \in Int
              /\ f <= l /\ l <= B[l].end /\ B[l].end <= prg.funcs[f]
         /\ \A l, m \in Inner(prg, f, B) : l < m => B[l].end < m
         /\ \A x \in f .. prg.funcs[f] : \E l \in Inner(prg, f, B) : x \in l .. B[l].end
<1> DEFINE e == prg.funcs[f]
<1>1. /\ f \in DOMAIN B /\ DOMAIN B \subseteq Int /\ B \in [DOMAIN B -> CodeBlock]
      /\ \A l \in Inner(prg, f, B) : EndOK(B, e, l)
  BY DEF Whole, Begun, Ended
<1>2. ASSUME NEW l \in Inner(prg, f, B)
      PROVE  /\ l \in DOMAIN B /\ l \in Int /\ B[l].end \in Int
             /\ f <= l /\ l <= B[l].end /\ B[l].end <= e
  BY <1>1 DEF Inner, EndOK, CodeBlock
<1>3. ASSUME NEW l \in Inner(prg, f, B), NEW m \in Inner(prg, f, B), l < m
      PROVE  B[l].end < m
  BY <1>1, <1>2, <1>3 DEF EndOK
<1>4. ASSUME NEW x \in f .. e
      PROVE  \E l \in Inner(prg, f, B) : x \in l .. B[l].end
  <2> DEFINE L == {l \in Inner(prg, f, B) : l <= x}
             l == Max(L)
  <2>1. L \in SUBSET Int /\ L # {} /\ x \in Int /\ \A m \in L : m <= x
    <3>1. f \in L
      BY <1>1 DEF Inner
    <3> QED BY <1>2, <3>1
  <2>2. l \in L /\ \A m \in L : m <= l
    <3> HIDE DEF L
    <3> QED BY <2>1, MaxIs
  <2> HIDE DEF l
  <2>3. EndOK(B, e, l) /\ l \in Int /\ B[l].end \in Int /\ l <= x
    BY <1>1, <1>2, <2>2
  <2>4. x <= B[l].end
    <3> SUFFICES ASSUME B[l].end < x PROVE FALSE
      BY <2>3
    <3>1. B[l].end + 1 \in DOMAIN B
      BY <2>3 DEF EndOK
    <3>2. B[l].end + 1 \in L
      BY <1>2, <2>2, <2>3, <3>1 DEF Inner
    <3>3. l <= B[l].end
      BY <2>3 DEF EndOK
    <3> QED BY <2>2, <2>3, <3>2, <3>3
  <2> QED BY <2>2, <2>3, <2>4
<1> QED BY <1>2, <1>3, <1>4

(* EmittedOnce holds for every program: the blocks of a finished function  *)
(* tile its bounds, and each holds its instructions once and in order,     *)
(* wherever branches and tables cut the function up.                       *)
THEOREM EmittedExactlyOnce == Spec => []EmittedOnce
<1>1. ASSUME IInv, NEW f \in Finished
      PROVE  LET body(l) == codeBlocks[f][l].body
                 span(l) == l .. codeBlocks[f][l].end
             IN /\ UNION {span(l) : l \in Blocks(f)} = f .. funcs[f]
                /\ \A l, m \in Blocks(f) : l # m => span(l) \cap span(m) = {}
                /\ \A l \in Blocks(f) :
                     /\ {body(l)[k].at : k \in DOMAIN body(l)} = span(l)
                     /\ \A k \in DOMAIN body(l) \ {1} :
                          body(l)[k].at - body(l)[k - 1].at \in {0, 1}
  <2> DEFINE B == codeBlocks[f]
             e == funcs[f]
             span(l) == l .. B[l].end
  <2>1. /\ f \in Int /\ e \in Int /\ e = program.funcs[f]
        /\ Whole(program, f, B) /\ Blocks(f) = Inner(program, f, B)
    BY <1>1, FinishedWhole
  <2> HIDE DEF B, e
  <2>2. /\ \A l \in Blocks(f) :
             /\ l \in DOMAIN B /\ l \in Int /\ B[l].end \in Int
             /\ f <= l /\ l <= B[l].end /\ B[l].end <= e
        /\ \A l, m \in Blocks(f) : l < m => B[l].end < m
        /\ \A x \in f .. e : \E l \in Blocks(f) : x \in l .. B[l].end
    BY <2>1, Tiles
  <2>3. UNION {span(l) : l \in Blocks(f)} = f .. e
    <3>1. \A l \in Blocks(f) : span(l) \subseteq f .. e
      BY <2>1, <2>2
    <3>2. \A x \in f .. e : \E l \in Blocks(f) : x \in span(l)
      BY <2>2
    <3> HIDE DEF span
    <3> QED BY <3>1, <3>2
  <2>4. \A l, m \in Blocks(f) : l # m => span(l) \cap span(m) = {}
    <3> SUFFICES ASSUME NEW l \in Blocks(f), NEW m \in Blocks(f), l # m,
                        NEW x \in span(l) \cap span(m)
                 PROVE  FALSE
      OBVIOUS
    <3>1. l < m \/ m < l
      BY <2>2
    <3> QED BY <2>2, <3>1
  <2>5. ASSUME NEW l \in Blocks(f)
        PROVE  /\ {B[l].body[k].at : k \in DOMAIN B[l].body} = span(l)
               /\ \A k \in DOMAIN B[l].body \ {1} :
                    B[l].body[k].at - B[l].body[k - 1].at \in {0, 1}
    BY <2>1 DEF Whole, BlockFilled, Filled, Sound
  <2> QED BY <2>3, <2>4, <2>5 DEF B, e
<1>2. IInv => EmittedOnce
  BY <1>1 DEF EmittedOnce
<1> QED BY <1>2, EmitInvariant, PTL

-----------------------------------------------------------------------------
(* Control that stays within a finished function never runs over the end   *)
(* of the part of a block that LLVM executes.                              *)
Runs(prg, f, B, l, x) ==
  x \in l .. B[l].end /\ \A y \in l .. (x - 1) : ~ Breaks(prg, f, y)

Sees(prg, f, B, x) == \E l \in Inner(prg, f, B) : Runs(prg, f, B, l, x)

(* Where control goes in IR from an instruction that it can come to. *)
LEMMA Runs_InIR ==
  ASSUME IInv, NEW f \in Finished, NEW a, NEW l \in Inner(program, f, codeBlocks[f]),
         Runs(program, f, codeBlocks[f], l, a)
  PROVE  InIR(f, a) = Goes(program, f, a)
<1> DEFINE B == codeBlocks[f]
           body == B[l].body
           last == {k \in DOMAIN body : body[k].kind \in Terminators}
           K == Min(last)
           stop == body[K]
           tail == K > 1 /\ body[K - 1].at = stop.at /\ body[K - 1].kind = "call"
<1>1. /\ f \in Int /\ program.funcs[f] \in Int /\ funcs = program.funcs
      /\ Whole(program, f, B) /\ Blocks(f) = Inner(program, f, B)
  BY FinishedWhole
<1>2. /\ \A m \in Inner(program, f, B) :
           m \in DOMAIN B /\ m \in Int /\ B[m].end \in Int /\ m <= B[m].end
      /\ \A m, n \in Inner(program, f, B) : m < n => B[m].end < n
  <2> HIDE DEF B
  <2> QED BY <1>1, Tiles
<1>3. a \in l .. B[l].end /\ a \in Int /\ \A y \in l .. (a - 1) : ~ Breaks(program, f, y)
  BY <1>2 DEF Runs
<1>4. BlockOf(f, a) = l
  <2>1. l \in Blocks(f) /\ a \in l .. B[l].end
    BY <1>1, <1>3
  <2>2. ASSUME NEW m \in Blocks(f), a \in m .. B[m].end PROVE m = l
    BY <1>1, <1>2, <1>3, <2>2
  <2> QED BY <2>1, <2>2 DEF BlockOf
<1>5. InIR(f, a) =
        IF last = {} \/ a < stop.at THEN <<a + 1>>
        ELSE IF a > stop.at THEN <<>>
        ELSE IF stop.kind # "ret" THEN stop.to
        ELSE IF tail THEN body[K - 1].to ELSE <<Return>>
  BY <1>4 DEF InIR
<1>6. Filled(program, f, B[l].end, body, l, B[l].end)
  BY <1>1 DEF Whole, BlockFilled
<1>7. /\ body \in Seq(ItemType)
      /\ \A m, k \in DOMAIN body : m <= k => body[m].at <= body[k].at
      /\ \A k \in DOMAIN body :
           IsEnd(body, k) => Breaks(program, f, body[k].at) \/ body[k].at = B[l].end
      /\ \A k \in DOMAIN body :
           FirstEnd(body, k) => Outcome(body, k) = Goes(program, f, body[k].at)
      /\ \A k \in DOMAIN body : body[k].at \in l .. B[l].end
      /\ \A j \in l .. B[l].end :
           Breaks(program, f, j) => \E k \in DOMAIN body : body[k].at = j /\ IsEnd(body, k)
  BY <1>6 DEF Filled, Sound
<1>8. ~ Breaks(program, f, a) => Goes(program, f, a) = <<a + 1>>
  BY DEF Breaks, Goes
<1>9. \A k \in DOMAIN body : IsEnd(body, k) <=> k \in last
  BY DEF IsEnd
<1>10. CASE last = {}
  <2>1. ~ Breaks(program, f, a)
    BY <1>3, <1>7, <1>9, <1>10
  <2> HIDE DEF last, stop, tail, K
  <2>2. InIR(f, a) = <<a + 1>>
    BY <1>5, <1>10
  <2> QED BY <1>8, <2>1, <2>2
<1>11. CASE last # {}
  <2>1. K \in last /\ \A k \in last : K <= k
    <3>1. last \in SUBSET Int /\ \A k \in last : 1 <= k
      BY <1>7
    <3> HIDE DEF last
    <3> QED BY <1>11, <3>1, MinIs
  <2> HIDE DEF K
  <2>2. K \in DOMAIN body /\ IsEnd(body, K)
    BY <1>9, <2>1
  <2>3. DOMAIN body \subseteq Int
    BY <1>7
  <2>4. FirstEnd(body, K)
    <3> SUFFICES ASSUME NEW m \in DOMAIN body, m < K, IsEnd(body, m) PROVE FALSE
      BY <2>2 DEF FirstEnd
    <3>1. m \in last
      BY <1>9
    <3> HIDE DEF last, body
    <3> QED BY <2>1, <2>2, <2>3, <3>1
  <2>5. Outcome(body, K) = Goes(program, f, stop.at)
    BY <1>7, <2>2, <2>4
  <2>6. stop.at \in l .. B[l].end /\ a <= stop.at
    <3>1. stop.at \in l .. B[l].end
      BY <1>7, <2>2
    <3>2. Breaks(program, f, stop.at) \/ stop.at = B[l].end
      BY <1>7, <2>2
    <3> HIDE DEF stop, B
    <3>3. stop.at < a => stop.at \in l .. (a - 1)
      BY <1>2, <1>3, <3>1
    <3> QED BY <1>2, <1>3, <3>1, <3>2, <3>3
  <2>7. CASE a < stop.at
    <3>1. ~ Breaks(program, f, a)
      <4> SUFFICES ASSUME Breaks(program, f, a) PROVE FALSE
        OBVIOUS
      <4>1. PICK k \in DOMAIN body : body[k].at = a /\ IsEnd(body, k)
        BY <1>3, <1>7
      <4>2. K <= k
        BY <1>9, <2>1, <4>1
      <4>3. stop.at <= a
        BY <1>7, <2>2, <4>1, <4>2
      <4> HIDE DEF stop
      <4> QED BY <1>3, <2>6, <2>7, <4>3
    <3> HIDE DEF last, stop, tail
    <3>2. InIR(f, a) = <<a + 1>>
      BY <1>5, <2>7
    <3> QED BY <1>8, <3>1, <3>2
  <2>8. CASE a = stop.at
    <3>1. Outcome(body, K) = IF stop.kind # "ret" THEN stop.to
                             ELSE IF tail THEN body[K - 1].to ELSE <<Return>>
      BY DEF Outcome
    <3> HIDE DEF last, stop, tail, body
    <3>2. ~ (a < stop.at) /\ ~ (a > stop.at)
      BY <1>3, <2>8
    <3>3. InIR(f, a) = IF stop.kind # "ret" THEN stop.to
                       ELSE IF tail THEN body[K - 1].to ELSE <<Return>>
      BY <1>5, <1>11, <2>8, <3>2
    <3> QED BY <2>5, <2>8, <3>1, <3>3
  <2> HIDE DEF stop
  <2> QED BY <1>3, <2>6, <2>7, <2>8
<1> QED BY <1>10, <1>11

(* An instruction in a whole function: decoded, known, its leaders blocks. *)
LEMMA InsideWhole ==
  ASSUME IInv, NEW f \in Finished, NEW x \in f .. funcs[f]
  PROVE  /\ x \in Nat /\ x \in DOMAIN code /\ program \in Programs
         /\ code[x].op \in Mnemonics /\ code[x].to \in Int
         /\ LeadersIn(program, f, x) \subseteq DOMAIN codeBlocks[f]
         /\ Known(program, f, x)
<1> DEFINE B == codeBlocks[f]
<1>1. /\ program \in Programs /\ f \in Int /\ funcs[f] \in Int
      /\ funcs = program.funcs /\ code = program.code /\ Whole(program, f, B)
  BY FinishedWhole
<1>2. x \in DOMAIN code /\ LeadersIn(program, f, x) \subseteq DOMAIN B
  BY <1>1 DEF Whole, Begun
<1>3. PICK l \in Inner(program, f, B) : x \in l .. B[l].end
  <2> HIDE DEF B
  <2>1. x \in f .. program.funcs[f]
    BY <1>1
  <2> QED BY <1>1, <2>1, Tiles
<1>4. Known(program, f, x)
  BY <1>1, <1>3 DEF Whole, BlockFilled, Filled
<1> QED BY <1>1, <1>2, <1>4, ProgramsAre

(* A bcctr goes to the targets of the table that it belongs to. *)
LEMMA SwitchTargets ==
  ASSUME IInv, NEW f \in Finished, NEW x \in f .. funcs[f], code[x].op = "bcctr"
  PROVE  /\ OnPPC(x) = Goes(program, f, x)
         /\ OnPPC(x) \in Seq(Int)
         /\ Range(OnPPC(x)) \subseteq LeadersIn(program, f, x)
<1> DEFINE t == CHOOSE u \in TablesIn(program, f, x) : TRUE
           v == CHOOSE u \in program.tables : x \in Span(u)
<1>1. /\ x \in DOMAIN program.code /\ program \in Programs /\ code = program.code
      /\ TablesIn(program, f, x) # {}
  BY InsideWhole DEF Known, code
<1>2. t \in TablesIn(program, f, x) /\ t \in program.tables /\ x \in Span(t)
  <2>1. t \in TablesIn(program, f, x)
    BY <1>1
  <2> QED BY <2>1 DEF TablesIn
<1>3. v \in program.tables /\ x \in Span(v)
  BY <1>2
<1>4. OnPPC(x) = v.targets
  BY DEF OnPPC
<1>5. Goes(program, f, x) = t.targets
  BY <1>1 DEF Goes, NopReturns
<1> HIDE DEF t, v
<1>6. t.targets = v.targets /\ t.targets \in Seq(Int)
  BY <1>1, <1>2, <1>3, ProgramsAre
<1>7. Range(t.targets) \subseteq LeadersIn(program, f, x)
  BY <1>2 DEF LeadersIn
<1> QED BY <1>4, <1>5, <1>6, <1>7

(* Inside the bounds, control stays either at a leader or behind an        *)
(* instruction that does not break its block.                              *)
LEMMA StaysWhere ==
  ASSUME IInv, NEW f \in Finished, NEW x \in f .. funcs[f], ~ code[x].cond,
         NEW s \in Stay(x), s \in f .. funcs[f]
  PROVE  s \in DOMAIN codeBlocks[f] \/ (s = x + 1 /\ ~ Breaks(program, f, x))
<1>1. /\ x \in Nat /\ code[x].op \in Mnemonics /\ code[x].to \in Int
      /\ LeadersIn(program, f, x) \subseteq DOMAIN codeBlocks[f]
      /\ Known(program, f, x) /\ code = program.code /\ funcs = program.funcs
      /\ funcs[f] \in Int
  BY InsideWhole, FinishedWhole
<1>2. ~ Leaves(x) /\ s \in Range(OnPPC(x)) /\ s # Return
  BY DEF Stay
<1>3. CASE code[x].op \in {"plain", "nop", "bl", "bcctrl"}
  <2>1. OnPPC(x) = <<x + 1>>
    BY <1>3 DEF OnPPC
  <2>2. s = x + 1
    BY <1>2, <2>1 DEF Range
  <2>3. ~ NopReturns(program, f, x)
    BY <1>1, <2>2 DEF NopReturns
  <2>4. ~ CallReturns(program, x)
    BY <1>1, <1>2, SameOperators DEF CallReturns, Leaves
  <2> QED BY <1>1, <1>3, <2>2, <2>3, <2>4 DEF Breaks
<1>4. CASE code[x].op = "b"
  <2>1. OnPPC(x) = <<code[x].to>>
    BY <1>4 DEF OnPPC
  <2>2. s = code[x].to
    BY <1>2, <2>1 DEF Range
  <2>3. code[x].to \notin DOMAIN funcs
    BY <1>2, <1>4 DEF Leaves, isIRFuncinMap
  <2> QED BY <1>1, <1>4, <2>2, <2>3 DEF LeadersIn
<1>5. CASE code[x].op = "bc"
  <2>1. OnPPC(x) = <<code[x].to, x + 1>>
    BY <1>5 DEF OnPPC
  <2>2. s = code[x].to \/ s = x + 1
    BY <1>2, <2>1 DEF Range
  <2> QED BY <1>1, <1>5, <2>2 DEF LeadersIn
<1>6. CASE code[x].op = "bclr"
  <2>1. OnPPC(x) = <<Return>>
    BY <1>6 DEF OnPPC
  <2>2. s = Return
    BY <1>2, <2>1 DEF Range
  <2> QED BY <1>2, <2>2
<1>7. CASE code[x].op = "bcctr"
  BY <1>1, <1>2, <1>7, SwitchTargets
<1> QED BY <1>1, <1>3, <1>4, <1>5, <1>6, <1>7 DEF Mnemonics, Known

(* Control that comes to an instruction comes to what follows it in the    *)
(* part of a block that LLVM executes.                                     *)
LEMMA SeesOn ==
  ASSUME IInv, NEW f \in Finished, NEW x \in f .. funcs[f], ~ code[x].cond,
         Sees(program, f, codeBlocks[f], x),
         NEW s \in Stay(x), s \in f .. funcs[f]
  PROVE  Sees(program, f, codeBlocks[f], s)
<1> DEFINE B == codeBlocks[f]
<1>1. /\ f \in Int /\ program.funcs[f] \in Int /\ funcs = program.funcs
      /\ Whole(program, f, B)
  BY FinishedWhole
<1>2. \A l \in Inner(program, f, B) :
        /\ l \in DOMAIN B /\ l \in Int /\ B[l].end \in Int
        /\ f <= l /\ l <= B[l].end /\ B[l].end <= program.funcs[f]
  <2> HIDE DEF B
  <2> QED BY <1>1, Tiles
<1>3. ASSUME s \in DOMAIN B PROVE Sees(program, f, B, s)
  <2>1. s \in Inner(program, f, B)
    BY <1>1, <1>3 DEF Inner
  <2>2. Runs(program, f, B, s, s)
    BY <1>2, <2>1 DEF Runs
  <2> QED BY <2>1, <2>2 DEF Sees
<1>4. CASE s \in DOMAIN B
  BY <1>3, <1>4
<1>5. CASE s = x + 1 /\ ~ Breaks(program, f, x)
  <2>1. PICK l \in Inner(program, f, B) : Runs(program, f, B, l, x)
    BY DEF Sees
  <2>2. CASE x < B[l].end
    <3>1. Runs(program, f, B, l, s)
      BY <1>2, <1>5, <2>1, <2>2 DEF Runs
    <3> QED BY <3>1 DEF Sees
  <2>3. CASE x = B[l].end
    <3>1. B[l].end # program.funcs[f]
      BY <1>1, <1>5, <2>3
    <3>2. EndOK(B, program.funcs[f], l)
      BY <1>1 DEF Whole, Ended
    <3>3. s \in DOMAIN B
      BY <1>5, <2>3, <3>1, <3>2 DEF EndOK
    <3> QED BY <1>3, <3>3
  <2> QED BY <1>2, <2>1, <2>2, <2>3 DEF Runs
<1> QED BY <1>4, <1>5, StaysWhere

(* What control reaches is closed, and all of it is seen. *)
LEMMA ReachedStays ==
  ASSUME NEW f, NEW x \in Reached(f), x \in f .. funcs[f]
  PROVE  Stay(x) \subseteq Reached(f)
<1> DEFINE span == f .. funcs[f]
           all == {f} \cup UNION {Stay(a) : a \in span}
           Shut(S) == f \in S /\ \A a \in S \cap span : Stay(a) \subseteq S
<1>1. Reached(f) = {y \in all : \A S \in SUBSET all : Shut(S) => y \in S}
  BY DEF Reached
<1>2. x \in all /\ \A S \in SUBSET all : Shut(S) => x \in S
  <2> HIDE DEF all, Shut
  <2> QED BY <1>1
<1>3. Stay(x) \subseteq all
  OBVIOUS
<1>4. ASSUME NEW y \in Stay(x), NEW S \in SUBSET all, Shut(S) PROVE y \in S
  <2>1. x \in S \cap span
    BY <1>2, <1>4
  <2> QED BY <1>4, <2>1
<1> HIDE DEF all, Shut
<1> QED BY <1>1, <1>3, <1>4

(* Everything that control reaches in a function it is closed in lies      *)
(* before the first terminator of its block, or at it.                     *)
LEMMA ReachedSees ==
  ASSUME IInv, NEW f \in Finished, Closed(f), ReturnsAlways(f), NEW a \in Reached(f)
  PROVE  Sees(program, f, codeBlocks[f], a)
<1> DEFINE span == f .. funcs[f]
           all == {f} \cup UNION {Stay(x) : x \in span}
           B == codeBlocks[f]
           S == {x \in Reached(f) : Sees(program, f, B, x)}
<1>1. /\ Reached(f) \subseteq all /\ f \in Reached(f)
      /\ \A y \in Reached(f), T \in SUBSET all :
           f \in T /\ (\A x \in T \cap span : Stay(x) \subseteq T) => y \in T
  BY DEF Reached
<1>2. Reached(f) \subseteq span /\ \A x \in Reached(f) : ~ code[x].cond
  BY DEF Closed, ReturnsAlways
<1>3. f \in S
  <2>1. /\ f \in Int /\ program.funcs[f] \in Int /\ funcs = program.funcs
        /\ Whole(program, f, B)
    BY FinishedWhole
  <2>2. f \in Inner(program, f, B)
    BY <1>1, <1>2, <2>1 DEF Whole, Begun, Inner
  <2>3. B[f].end \in Int /\ f <= B[f].end
    <3> HIDE DEF B
    <3> QED BY <2>1, <2>2, Tiles
  <2>4. Runs(program, f, B, f, f)
    BY <2>1, <2>3 DEF Runs
  <2> QED BY <1>1, <2>2, <2>4 DEF Sees
<1>4. ASSUME NEW x \in S \cap span PROVE Stay(x) \subseteq S
  <2>1. x \in Reached(f) /\ Sees(program, f, B, x) /\ ~ code[x].cond
    BY <1>2, <1>4
  <2>2. Stay(x) \subseteq Reached(f)
    BY <2>1, ReachedStays
  <2>3. ASSUME NEW s \in Stay(x) PROVE Sees(program, f, B, s)
    BY <1>2, <2>1, <2>2, SeesOn
  <2> QED BY <2>2, <2>3
<1>5. S \in SUBSET all
  BY <1>1
<1> HIDE DEF all, span
<1>6. a \in S
  <2> HIDE DEF S
  <2> QED BY <1>1, <1>3, <1>4, <1>5
<1> QED BY <1>6

(* A call that is followed by a function calls that function, past the     *)
(* nops.                                                                   *)
LEMMA PastOne ==
  ASSUME program \in Programs, NEW x \in Nat, CallReturns(program, x)
  PROVE  PastNops(SetToSeq(After(program, x))) = PastNops(<<x + 1>>)
<1>1. After(program, x) # {} /\ x \in Int /\ x + 1 \in Int
  BY DEF CallReturns
<1>2. PICK m \in Int : Nops(program, x + 1) = {m} /\ SetToSeq(After(program, x)) = <<m>>
  BY <1>1, AfterIs
<1>3. Nops(program, m) = {m}
  <2>1. PICK n \in Int : Nops(program, x + 1) = {n} /\ Nops(program, n) = {n}
    BY <1>1, <1>2, NopsIs
  <2> QED BY <1>2, <2>1
<1>4. SkipNops(x + 1) = {m} /\ SkipNops(m) = {m}
  BY <1>2, <1>3, SameOperators
<1>5. PastNops(<<m>>) = [k \in 1 .. 1 |-> Min({m})]
  BY <1>4 DEF PastNops
<1>6. PastNops(<<x + 1>>) = [k \in 1 .. 1 |-> Min({m})]
  BY <1>4 DEF PastNops
<1> QED BY <1>2, <1>5, <1>6

(* What the items of a reached instruction do is what it does itself. *)
LEMMA GoesAsPPC ==
  ASSUME IInv, NEW f \in Finished, NEW a \in f .. funcs[f], ~ code[a].cond,
         Stay(a) \subseteq f .. funcs[f]
  PROVE  PastNops(Goes(program, f, a)) = PastNops(OnPPC(a))
<1>1. /\ a \in Nat /\ code[a].op \in Mnemonics /\ program \in Programs
      /\ Known(program, f, a) /\ code = program.code /\ funcs = program.funcs
      /\ funcs[f] \in Int
  BY InsideWhole, FinishedWhole
<1>2. CASE code[a].op \in {"plain", "bcctrl", "nop", "bl"}
  <2>1. OnPPC(a) = <<a + 1>>
    BY <1>2 DEF OnPPC
  <2>2. ~ NopReturns(program, f, a)
    <3> SUFFICES ASSUME NopReturns(program, f, a) PROVE FALSE
      OBVIOUS
    <3>1. code[a].op = "nop" /\ a = funcs[f]
      BY <1>1 DEF NopReturns
    <3>2. Stay(a) = {a + 1}
      BY <1>1, <2>1, <3>1 DEF Stay, Leaves, Range, Return
    <3> QED BY <1>1, <3>1, <3>2
  <2>3. CASE CallReturns(program, a)
    <3>1. Goes(program, f, a) = SetToSeq(After(program, a))
      BY <1>1, <2>2, <2>3 DEF Goes, CallReturns
    <3> QED BY <1>1, <2>1, <2>3, <3>1, PastOne
  <2>4. CASE ~ CallReturns(program, a)
    <3>1. Goes(program, f, a) = <<a + 1>>
      BY <1>1, <1>2, <2>2, <2>4 DEF Goes
    <3> QED BY <2>1, <3>1
  <2> QED BY <2>3, <2>4
<1>3. CASE code[a].op = "b"
  <2>1. OnPPC(a) = <<code[a].to>> /\ Goes(program, f, a) = <<code[a].to>>
    BY <1>1, <1>3 DEF OnPPC, Goes
  <2> QED BY <2>1
<1>4. CASE code[a].op = "bc"
  <2>1. OnPPC(a) = <<code[a].to, a + 1>> /\ Goes(program, f, a) = <<code[a].to, a + 1>>
    BY <1>1, <1>4 DEF OnPPC, Goes
  <2> QED BY <2>1
<1>5. CASE code[a].op = "bclr"
  <2>1. OnPPC(a) = <<Return>> /\ Goes(program, f, a) = <<Return>>
    BY <1>1, <1>5 DEF OnPPC, Goes
  <2> QED BY <2>1
<1>6. CASE code[a].op = "bcctr"
  BY <1>6, SwitchTargets
<1> QED BY <1>1, <1>2, <1>3, <1>4, <1>5, <1>6 DEF Mnemonics, Known

(* FlowPreserved holds for every program: in a function that control stays *)
(* in and whose returns are unconditional, each reached instruction sends  *)
(* control in the emitted blocks where it sends it on the PowerPC.         *)
THEOREM FlowIsPreserved == Spec => []FlowPreserved
<1>1. ASSUME IInv, NEW f \in Finished, Closed(f), ReturnsAlways(f), NEW a \in Reached(f)
      PROVE  PastNops(InIR(f, a)) = PastNops(OnPPC(a))
  <2>1. a \in f .. funcs[f] /\ ~ code[a].cond
    BY <1>1 DEF Closed, ReturnsAlways
  <2>2. Stay(a) \subseteq f .. funcs[f]
    BY <1>1, <2>1, ReachedStays DEF Closed
  <2>3. InIR(f, a) = Goes(program, f, a)
    <3>1. PICK l \in Inner(program, f, codeBlocks[f]) : Runs(program, f, codeBlocks[f], l, a)
      BY <1>1, ReachedSees DEF Sees
    <3> QED BY <1>1, <3>1, Runs_InIR
  <2> QED BY <1>1, <2>1, <2>2, <2>3, GoesAsPPC
<1>2. IInv => FlowPreserved
  BY <1>1 DEF FlowPreserved
<1> QED BY <1>2, EmitInvariant, PTL

-----------------------------------------------------------------------------
(* The safety half of termination: the pass is never stuck, and goes round *)
(* no loop for ever.                                                       *)

(* The function at work is one of the program's, and no import stub. *)
LEMMA AtWorkOn ==
  ASSUME IInv, pc \in Working
  PROVE  func \in DOMAIN funcs \ program.imports
BY DEF IInv, Typed

(* Only a program with an instruction that cannot be emitted is thrown     *)
(* away: every block that is branched to has been found.                   *)
LEMMA ThrowsForAReason == ASSUME IInv, Throw PROVE ~ Acceptable
<1> SUFFICES ASSUME Acceptable PROVE FALSE
  OBVIOUS
<1>1. pc \in Working /\ Typed
  BY DEF Throw, Working, IInv
<1>2. /\ func \in Int /\ idx \in Int /\ at \in Int /\ End \in Int
      /\ End = program.funcs[func] /\ func \in DOMAIN funcs \ program.imports
  BY <1>1, AtWork, AtWorkOn
<1>3. /\ func .. End \subseteq DOMAIN code
      /\ \A a \in func .. End :
           /\ code[a].op # "unknown"
           /\ code[a].op = "bcctr" =>
                \E t \in program.tables : t.owner = func /\ a \in Span(t) /\ t.targets # <<>>
           /\ code[a].op = "bl" => SkipNops(a + 1) # {}
  BY <1>2 DEF Acceptable, AllDecoded, End, funcs, code
<1>4. CASE pc \in {"leaders", "ends"} /\ idx <= End /\ idx \notin DOMAIN code
  <2>1. func <= idx
    <3>1. CASE pc = "leaders"
      BY <3>1 DEF IInv, FindingLeaders
    <3>2. CASE pc = "ends"
      <4>1. EndsKnown(program, func, B0, block, idx)
        BY <3>2 DEF IInv, FindingEnds
      <4>2. block \in Int
        BY <1>1 DEF Typed
      <4> QED BY <1>2, <4>1, <4>2 DEF EndsKnown
    <3> QED BY <1>4, <3>1, <3>2
  <2> QED BY <1>2, <1>3, <1>4, <2>1
<1>5. CASE /\ pc = "block" /\ at <= B0[block].end
           /\ \/ at \notin DOMAIN code
              \/ Stops(at)
              \/ \E item \in Range(Closing(at)) : ~ Range(item.to) \subseteq DOMAIN B0
  <2> DEFINE e == B0[block].end
  <2>1. /\ block = idx /\ idx <= End /\ idx <= at
        /\ EmitKnown(program, func, B0, idx, FALSE)
    BY <1>5 DEF IInv, InBlock, Emitting
  <2>2. /\ Begun(program, func, B0, End) /\ Ended(program, func, B0)
        /\ func <= idx /\ idx \in DOMAIN B0
    BY <1>2, <2>1 DEF EmitKnown
  <2>3. e \in Int /\ e <= End /\ (e = End \/ e + 1 \in DOMAIN B0)
    <3>1. idx \in Inner(program, func, B0)
      BY <1>2, <2>1, <2>2 DEF Inner
    <3>2. EndOK(B0, End, idx)
      BY <1>2, <2>2, <3>1 DEF Ended
    <3>3. B0[idx] \in CodeBlock
      BY <2>2 DEF Begun
    <3> QED BY <2>1, <3>2, <3>3 DEF EndOK, CodeBlock
  <2>4. at \in func .. End
    BY <1>2, <1>5, <2>1, <2>2, <2>3
  <2>5. at \in DOMAIN code /\ ~ Stops(at)
    BY <1>3, <2>4 DEF Stops, TablesAt
  <2>6. ASSUME NEW item \in Range(Closing(at)) PROVE Range(item.to) \subseteq DOMAIN B0
    <3>1. at # End /\ at = e /\ item = Item(at, "br", <<at + 1>>)
      BY <2>6 DEF Closing, Range, B0
    <3>2. item.to = <<at + 1>> /\ at + 1 \in DOMAIN B0
      BY <2>3, <3>1 DEF Item
    <3> QED BY <3>2 DEF Range
  <2> QED BY <1>5, <2>5, <2>6
<1> QED BY <1>4, <1>5 DEF Throw, B0

(* For every program, the emit loop finds the leader it needs to move on,  *)
(* and an acceptable program is not thrown away.                           *)
THEOREM PassIsNeverStuck == Spec => []NeverStuck
<1>1. Init => NeverStuck
  BY DEF Init, NeverStuck
<1>2. IInv /\ IInv' /\ NeverStuck /\ [Next]_vars => NeverStuck'
  <2> SUFFICES ASSUME IInv, IInv', NeverStuck, [Next]_vars PROVE NeverStuck'
    OBVIOUS
  <2>1. pc' = "emit" /\ idx' <= End' => idx' \in DOMAIN codeBlocks'[func']
    <3> SUFFICES ASSUME pc' = "emit", idx' <= End' PROVE idx' \in DOMAIN codeBlocks'[func']
      OBVIOUS
    <3>1. EmitKnown(program, func, B0, idx, TRUE)'
      BY DEF IInv, Emitting
    <3> QED BY <3>1 DEF EmitKnown, B0, End, funcs
  <2>2. Acceptable' = Acceptable
    <3>1. program' = program
      BY DEF Next, NextFunction, AllDone, FindLeaders, LeadersFound, FindEnds, EndsFound,
             EnterBlock, EmitInstruction, LeaveBlock, FunctionDone, Throw, Dead, vars
    <3>2. funcs' = funcs /\ code' = code
      BY <3>1 DEF funcs, code
    <3>3. \A i : SkipNops(i)' = SkipNops(i)
      BY <3>2 DEF SkipNops
    <3> QED BY <3>1, <3>2, <3>3 DEF Acceptable
  <2>3. pc' = "dead" => pc = "dead" \/ Throw
    BY DEF Next, NextFunction, AllDone, FindLeaders, LeadersFound, FindEnds, EndsFound,
           EnterBlock, EmitInstruction, LeaveBlock, FunctionDone, vars
  <2> QED BY <2>1, <2>2, <2>3, ThrowsForAReason DEF NeverStuck
<1> QED BY <1>1, <1>2, EmitInvariant, PTL DEF Spec

(* The order of what is left, by its first, second and third number. *)
LEMMA FewerIs ==
  ASSUME NEW a \in Int, NEW b \in Int, NEW c \in Int, NEW x \in Int, NEW y \in Int, NEW z \in Int
  PROVE  /\ a < x => Fewer(<<a, b, c>>, <<x, y, z>>)
         /\ a = x /\ b < y => Fewer(<<a, b, c>>, <<x, y, z>>)
         /\ a = x /\ b = y /\ c < z => Fewer(<<a, b, c>>, <<x, y, z>>)
<1> DEFINE s == <<a, b, c>>
           t == <<x, y, z>>
<1>1. /\ s[1] = a /\ s[2] = b /\ s[3] = c
      /\ t[1] = x /\ t[2] = y /\ t[3] = z
  OBVIOUS
<1> HIDE DEF s, t
<1>2. a < x => Fewer(s, t)
  <2>1. 1 \in 1 .. 3 /\ \A j \in 1 .. 1 - 1 : FALSE
    OBVIOUS
  <2> QED BY <1>1, <2>1 DEF Fewer
<1>3. a = x /\ b < y => Fewer(s, t)
  <2>1. 2 \in 1 .. 3 /\ \A j \in 1 .. 2 - 1 : j = 1
    OBVIOUS
  <2> QED BY <1>1, <2>1 DEF Fewer
<1>4. a = x /\ b = y /\ c < z => Fewer(s, t)
  <2>1. 3 \in 1 .. 3 /\ \A j \in 1 .. 3 - 1 : j = 1 \/ j = 2
    OBVIOUS
  <2> QED BY <1>1, <2>1 DEF Fewer
<1> QED BY <1>2, <1>3, <1>4 DEF s, t

(* What is left while a function is worked on. *)
LEMMA LeftIs ==
  ASSUME IInv, pc \in Working
  PROVE  /\ Ahead(idx) \in Nat /\ Ahead(at) \in Nat
         /\ Left = CASE pc = "leaders" -> <<3, Ahead(idx), 0>>
                     [] pc = "ends"    -> <<2, Ahead(idx), 0>>
                     [] pc = "emit"    -> <<1, Ahead(idx), Ahead(idx) + 1>>
                     [] pc = "block"   -> <<1, Ahead(idx), Ahead(at)>>
<1>1. idx \in Int /\ at \in Int /\ End \in Int
  BY AtWork DEF IInv
<1>2. Ahead(idx) \in Nat /\ Ahead(at) \in Nat
  BY <1>1 DEF Ahead
<1> QED BY <1>2 DEF Left, Working

(* A step within the function at work, by where the loops stand before     *)
(* and after it.                                                           *)
LEMMA WithinCounts ==
  ASSUME IInv, IInv', pc \in Working, pc' \in Working, UNCHANGED <<program, done, func>>,
         \/ pc = "leaders" /\ pc' = "leaders" /\ idx <= End /\ idx' = idx + 1
         \/ pc = "leaders" /\ pc' = "ends"
         \/ pc = "ends" /\ pc' = "ends" /\ idx <= End /\ idx' = idx + 1
         \/ pc = "ends" /\ pc' = "emit"
         \/ pc = "emit" /\ pc' = "block" /\ idx' = idx /\ at' = idx
         \/ pc = "block" /\ pc' = "block" /\ idx' = idx /\ at <= End /\ at' = at + 1
         \/ pc = "block" /\ pc' = "emit" /\ idx <= End /\ idx < idx'
  PROVE  Fewer(Left', Left)
<1> DEFINE p == Ahead(idx)
           q == Ahead(at)
           u == Ahead(idx)'
           v == Ahead(at)'
<1>1. idx \in Int /\ at \in Int /\ End \in Int /\ idx' \in Int /\ at' \in Int /\ End' = End
  BY AtWork DEF IInv, Typed, End, funcs
<1>2. /\ p = IF idx > End THEN 0 ELSE End - idx + 1
      /\ q = IF at > End THEN 0 ELSE End - at + 1
      /\ u = IF idx' > End THEN 0 ELSE End - idx' + 1
      /\ v = IF at' > End THEN 0 ELSE End - at' + 1
  BY <1>1 DEF Ahead
<1>3. /\ p \in Nat /\ q \in Nat /\ u \in Nat /\ v \in Nat
      /\ p + 1 \in Nat /\ u + 1 \in Nat
  <2> HIDE DEF p, q, u, v
  <2>1. \A i \in Int, e \in Int : (IF i > e THEN 0 ELSE e - i + 1) \in Nat
    OBVIOUS
  <2>2. p \in Nat /\ q \in Nat
    BY <1>1, <1>2, <2>1
  <2>3. u \in Nat /\ v \in Nat
    BY <1>1, <1>2, <2>1
  <2> QED BY <2>2, <2>3
<1>4. /\ Left = CASE pc = "leaders" -> <<3, p, 0>>
                  [] pc = "ends"    -> <<2, p, 0>>
                  [] pc = "emit"    -> <<1, p, p + 1>>
                  [] pc = "block"   -> <<1, p, q>>
      /\ Left' = CASE pc' = "leaders" -> <<3, u, 0>>
                   [] pc' = "ends"    -> <<2, u, 0>>
                   [] pc' = "emit"    -> <<1, u, u + 1>>
                   [] pc' = "block"   -> <<1, u, v>>
  <2>1. Left = CASE pc = "leaders" -> <<3, p, 0>>
                 [] pc = "ends"    -> <<2, p, 0>>
                 [] pc = "emit"    -> <<1, p, p + 1>>
                 [] pc = "block"   -> <<1, p, q>>
    BY LeftIs
  <2>2. Left' = CASE pc' = "leaders" -> <<3, u, 0>>
                  [] pc' = "ends"    -> <<2, u, 0>>
                  [] pc' = "emit"    -> <<1, u, u + 1>>
                  [] pc' = "block"   -> <<1, u, v>>
    BY DEF Left, Working
  <2> QED BY <2>1, <2>2
<1> HIDE DEF p, q, u, v
<1>5. CASE pc = "leaders" /\ pc' = "leaders" /\ idx <= End /\ idx' = idx + 1
  <2>1. Left = <<3, p, 0>> /\ Left' = <<3, u, 0>> /\ u < p
    BY <1>1, <1>2, <1>4, <1>5
  <2> QED BY <1>3, <2>1, FewerIs
<1>6. CASE pc = "leaders" /\ pc' = "ends"
  <2>1. Left = <<3, p, 0>> /\ Left' = <<2, u, 0>>
    BY <1>4, <1>6
  <2> QED BY <1>3, <2>1, FewerIs
<1>7. CASE pc = "ends" /\ pc' = "ends" /\ idx <= End /\ idx' = idx + 1
  <2>1. Left = <<2, p, 0>> /\ Left' = <<2, u, 0>> /\ u < p
    BY <1>1, <1>2, <1>4, <1>7
  <2> QED BY <1>3, <2>1, FewerIs
<1>8. CASE pc = "ends" /\ pc' = "emit"
  <2>1. Left = <<2, p, 0>> /\ Left' = <<1, u, u + 1>>
    BY <1>4, <1>8
  <2> QED BY <1>3, <2>1, FewerIs
<1>9. CASE pc = "emit" /\ pc' = "block" /\ idx' = idx /\ at' = idx
  <2>1. Left = <<1, p, p + 1>> /\ Left' = <<1, u, v>> /\ u = p /\ v < p + 1
    BY <1>1, <1>2, <1>3, <1>4, <1>9
  <2> QED BY <1>3, <2>1, FewerIs
<1>10. CASE pc = "block" /\ pc' = "block" /\ idx' = idx /\ at <= End /\ at' = at + 1
  <2>1. Left = <<1, p, q>> /\ Left' = <<1, u, v>> /\ u = p /\ v < q
    BY <1>1, <1>2, <1>4, <1>10
  <2> QED BY <1>3, <2>1, FewerIs
<1>11. CASE pc = "block" /\ pc' = "emit" /\ idx <= End /\ idx < idx'
  <2>1. Left = <<1, p, q>> /\ Left' = <<1, u, u + 1>> /\ u < p
    BY <1>1, <1>2, <1>4, <1>11
  <2> QED BY <1>3, <2>1, FewerIs
<1> QED BY <1>5, <1>6, <1>7, <1>8, <1>9, <1>10, <1>11

(* A block that has been filled is left behind where it was entered. *)
LEMMA LeftBehind == ASSUME IInv, LeaveBlock PROVE idx <= End /\ idx < idx'
<1>1. pc = "block" /\ at > B0[block].end /\ idx' = at /\ pc \in Working /\ Typed
  BY DEF LeaveBlock, B0, Working, IInv
<1>2. /\ block = idx /\ idx <= End
      /\ EmitKnown(program, func, B0, idx, FALSE)
  BY <1>1 DEF IInv, InBlock, Emitting
<1>3. func \in Int /\ idx \in Int /\ at \in Int /\ End \in Int /\ End = program.funcs[func]
  BY <1>1, AtWork
<1>4. /\ Begun(program, func, B0, End) /\ Ended(program, func, B0)
      /\ func <= idx /\ idx \in DOMAIN B0
  BY <1>2, <1>3 DEF EmitKnown
<1>5. idx \in Inner(program, func, B0)
  BY <1>2, <1>3, <1>4 DEF Inner
<1>6. idx <= B0[idx].end /\ B0[idx].end \in Int
  BY <1>4, <1>5 DEF Ended, EndOK, Begun, CodeBlock
<1> QED BY <1>1, <1>2, <1>3, <1>6

(* The instruction at hand lies inside the function. *)
LEMMA InsideFunction == ASSUME IInv, EmitInstruction PROVE at <= End
<1>1. pc = "block" /\ at <= B0[block].end /\ pc \in Working /\ Typed
  BY DEF EmitInstruction, B0, Working, IInv
<1>2. /\ block = idx /\ idx <= End
      /\ EmitKnown(program, func, B0, idx, FALSE)
  BY <1>1 DEF IInv, InBlock, Emitting
<1>3. func \in Int /\ idx \in Int /\ at \in Int /\ End \in Int /\ End = program.funcs[func]
  BY <1>1, AtWork
<1>4. /\ Begun(program, func, B0, End) /\ Ended(program, func, B0)
      /\ func <= idx /\ idx \in DOMAIN B0
  BY <1>2, <1>3 DEF EmitKnown
<1>5. idx \in Inner(program, func, B0)
  BY <1>2, <1>3, <1>4 DEF Inner
<1>6. B0[idx].end <= End /\ B0[idx].end \in Int
  BY <1>3, <1>4, <1>5 DEF Ended, EndOK, Begun, CodeBlock
<1> QED BY <1>1, <1>2, <1>3, <1>6

(* For every program, no step of the pass goes round: with a finite map of *)
(* functions, the pass can take only finitely many.                        *)
THEOREM PassStepsCount == Spec => StepsCount
<1> DEFINE A == \/ done \subseteq done' /\ done' # done /\ done' \subseteq DOMAIN funcs
                \/ done' = done /\ Fewer(Left', Left)
<1>1. IInv /\ IInv' /\ [Next]_vars => [A]_vars
  <2> SUFFICES ASSUME IInv, IInv', Next PROVE A
    OBVIOUS
  <2>1. ASSUME NEW f \in DOMAIN funcs, NextFunction(f) PROVE A
    <3>1. pc = "functions" /\ pc' = "leaders" /\ pc' \in Working /\ done' = done
      BY <2>1 DEF NextFunction, Working
    <3>2. Left = <<4, 0, 0>> /\ Left' = <<3, Ahead(idx)', 0>>
      BY <3>1 DEF Left
    <3>3. Ahead(idx)' \in Nat
      <4>1. idx' \in Int /\ End' \in Int
        <5>1. /\ program' \in Programs /\ func' \in DOMAIN program'.funcs /\ idx' \in Int
          BY <3>1 DEF IInv, Typed, funcs
        <5> QED BY <5>1, ProgramsAre DEF End, funcs
      <4>2. Ahead(idx)' = IF idx' > End' THEN 0 ELSE End' - idx' + 1
        BY DEF Ahead
      <4> DEFINE e == End'
                 i == idx'
                 n == Ahead(idx)'
      <4> HIDE DEF e, i, n
      <4>3. e \in Int /\ i \in Int /\ n = IF i > e THEN 0 ELSE e - i + 1
        BY <4>1, <4>2 DEF e, i, n
      <4>4. n \in Nat
        BY <4>3
      <4> QED BY <4>4 DEF n
    <3> QED BY <3>1, <3>2, <3>3, FewerIs
  <2>2. CASE AllDone
    <3>1. Left = <<4, 0, 0>> /\ Left' = <<0, 0, 0>> /\ done' = done
      BY <2>2 DEF AllDone, Left
    <3> QED BY <3>1, FewerIs
  <2>3. CASE FindLeaders
    BY <2>3, WithinCounts DEF FindLeaders, Working
  <2>4. CASE LeadersFound
    BY <2>4, WithinCounts DEF LeadersFound, Working
  <2>5. CASE FindEnds
    BY <2>5, WithinCounts DEF FindEnds, Working
  <2>6. CASE EndsFound
    BY <2>6, WithinCounts DEF EndsFound, Working
  <2>7. CASE EnterBlock
    BY <2>7, WithinCounts DEF EnterBlock, Working
  <2>8. CASE EmitInstruction
    BY <2>8, WithinCounts, InsideFunction DEF EmitInstruction, Working
  <2>9. CASE LeaveBlock
    BY <2>9, WithinCounts, LeftBehind DEF LeaveBlock, Working
  <2>10. CASE FunctionDone
    <3>1. done' = done \cup {func} /\ func \notin done /\ done' \subseteq DOMAIN funcs
      BY <2>10 DEF FunctionDone, IInv, Typed, Working
    <3> QED BY <3>1
  <2>11. CASE Throw
    <3>1. pc \in Working /\ pc' = "dead" /\ done' = done
      BY <2>11 DEF Throw, Dead, Working
    <3> DEFINE p == Ahead(idx)
               q == Ahead(at)
    <3>2. p \in Nat /\ q \in Nat /\ p + 1 \in Nat
      BY <3>1, LeftIs
    <3>3. Left \in {<<3, p, 0>>, <<2, p, 0>>, <<1, p, p + 1>>, <<1, p, q>>} /\ Left' = <<0, 0, 0>>
      BY <3>1 DEF Left, Working
    <3> HIDE DEF p, q
    <3>4. ASSUME NEW x \in {1, 2, 3}, NEW y \in Nat, NEW z \in Nat
          PROVE  Fewer(<<0, 0, 0>>, <<x, y, z>>)
      <4>1. x \in Int /\ 0 < x
        OBVIOUS
      <4> QED BY <4>1, FewerIs
    <3>5. Fewer(Left', Left)
      BY <3>2, <3>3, <3>4
    <3> QED BY <3>1, <3>5
  <2> QED
    BY <2>1, <2>2, <2>3, <2>4, <2>5, <2>6, <2>7, <2>8, <2>9, <2>10, <2>11 DEF Next
<1> QED BY <1>1, EmitInvariant, PTL DEF Spec, StepsCount

(***************************************************************************)
(* That nothing can go on for ever in this order: what is still to do is   *)
(* the set of functions not done, and then what is left of the one at      *)
(* work, by the library's orders on finite sets and on tuples of naturals. *)
(***************************************************************************)
NatLess == {p \in Nat \X Nat : p[1] < p[2]}

StillToDo == <<DOMAIN funcs \ done, Left>>

Descending(F) ==
  LexPairOrdering(StrictSubsetOrdering(F), LexProductOrdering(NatLess, Nat, 3),
                  SUBSET F, [1 .. 3 -> Nat])

(* There is no infinite descent among the naturals. *)
LEMMA NatLessWellFounded == IsWellFoundedOn(NatLess, Nat)
<1>1. ASSUME NEW T \in SUBSET Nat, T # {}
      PROVE  \E x \in T : \A y \in T : ~ (<<y, x>> \in NatLess)
  <2>1. T \in SUBSET Int /\ \A x \in T : 0 <= x
    OBVIOUS
  <2>2. Min(T) \in T /\ \A x \in T : Min(T) <= x
    BY <1>1, <2>1, MinIs
  <2>3. ASSUME NEW y \in T, <<y, Min(T)>> \in NatLess PROVE FALSE
    <3>1. y < Min(T)
      BY <2>3 DEF NatLess
    <3>2. Min(T) <= y /\ y \in Nat /\ Min(T) \in Nat
      BY <2>2
    <3> QED BY <3>1, <3>2
  <2> QED BY <2>2, <2>3
<1> QED BY <1>1, MinWF

(* There is none in the order of the pass, when the functions are finitely *)
(* many.                                                                   *)
THEOREM DescentEnds ==
  ASSUME NEW F, IsFiniteSet(F)
  PROVE  IsWellFoundedOn(Descending(F), (SUBSET F) \X [1 .. 3 -> Nat])
<1>1. IsWellFoundedOn(StrictSubsetOrdering(F), SUBSET F)
  BY FS_StrictSubsetOrderingWellFounded, FS_FiniteSubsetsOfFinite
<1>2. IsWellFoundedOn(LexProductOrdering(NatLess, Nat, 3), [1 .. 3 -> Nat])
  <2>1. 3 \in Nat
    OBVIOUS
  <2> QED BY <2>1, NatLessWellFounded, WFLexProductOrdering
<1> QED BY <1>1, <1>2, WFLexPairOrdering DEF Descending

(* What is left is three naturals. *)
LEMMA LeftTyped == ASSUME IInv PROVE Left \in [1 .. 3 -> Nat]
<1>1. CASE pc \in Working
  <2> DEFINE p == Ahead(idx)
             q == Ahead(at)
  <2>1. p \in Nat /\ q \in Nat /\ p + 1 \in Nat
    BY <1>1, LeftIs
  <2>2. Left \in {<<3, p, 0>>, <<2, p, 0>>, <<1, p, p + 1>>, <<1, p, q>>}
    BY <1>1 DEF Left, Working
  <2> HIDE DEF p, q
  <2>3. \A x \in Nat, y \in Nat, z \in Nat : <<x, y, z>> \in [1 .. 3 -> Nat]
    OBVIOUS
  <2> QED BY <2>1, <2>2, <2>3
<1>2. CASE pc \notin Working
  <2>1. Left \in {<<4, 0, 0>>, <<0, 0, 0>>}
    BY <1>2 DEF Left, Working
  <2>2. <<4, 0, 0>> \in [1 .. 3 -> Nat] /\ <<0, 0, 0>> \in [1 .. 3 -> Nat]
    OBVIOUS
  <2> QED BY <2>1, <2>2
<1> QED BY <1>1, <1>2

(* For every program, each step of the pass goes down in that order: a     *)
(* pass with finitely many functions takes finitely many steps, however    *)
(* their instructions branch.                                              *)
THEOREM PassDescends ==
  Spec => [][/\ StillToDo \in (SUBSET DOMAIN funcs) \X [1 .. 3 -> Nat]
             /\ <<StillToDo', StillToDo>> \in Descending(DOMAIN funcs)]_vars
<1> DEFINE A == \/ done \subseteq done' /\ done' # done /\ done' \subseteq DOMAIN funcs
                \/ done' = done /\ Fewer(Left', Left)
           F == DOMAIN funcs
           T == Left \in [1 .. 3 -> Nat]
           B == /\ StillToDo \in (SUBSET F) \X [1 .. 3 -> Nat]
                /\ <<StillToDo', StillToDo>> \in Descending(F)
<1>1. T /\ T' /\ [Next]_vars /\ [A]_vars => [B]_vars
  <2> SUFFICES ASSUME T, T', Next, A PROVE B
    OBVIOUS
  <2>1. program' = program
    BY DEF Next, NextFunction, AllDone, FindLeaders, LeadersFound, FindEnds, EndsFound,
           EnterBlock, EmitInstruction, LeaveBlock, FunctionDone, Throw, Dead
  <2>2. Left \in [1 .. 3 -> Nat] /\ Left' \in [1 .. 3 -> Nat]
    BY DEF T
  <2> DEFINE r == F \ done
             t == F \ done'
             s == Left
             u == Left'
  <2>3. StillToDo = <<r, s>> /\ StillToDo' = <<t, u>> /\ r \in SUBSET F /\ t \in SUBSET F
    BY <2>1 DEF StillToDo, funcs
  <2>4. \/ <<t, r>> \in StrictSubsetOrdering(F)
        \/ t = r /\ <<u, s>> \in LexProductOrdering(NatLess, Nat, 3)
    <3>1. CASE done \subseteq done' /\ done' # done /\ done' \subseteq F
      BY <3>1 DEF StrictSubsetOrdering
    <3>2. CASE done' = done /\ Fewer(u, s)
      <4>1. PICK k \in 1 .. 3 : u[k] < s[k] /\ \A j \in 1 .. k - 1 : u[j] = s[j]
        BY <3>2 DEF Fewer
      <4>2. <<u[k], s[k]>> \in NatLess
        BY <2>2, <4>1 DEF NatLess
      <4> HIDE DEF s, u
      <4>3. <<u, s>> \in LexProductOrdering(NatLess, Nat, 3)
        BY <2>2, <4>1, <4>2 DEF LexProductOrdering, s, u
      <4> QED BY <3>2, <4>3
    <3> QED BY <3>1, <3>2
  <2> HIDE DEF r, t, s, u, F
  <2>5. s \in [1 .. 3 -> Nat] /\ u \in [1 .. 3 -> Nat]
    BY <2>2 DEF s, u
  <2>6. <<<<t, u>>, <<r, s>>>> \in Descending(F)
    BY <2>3, <2>4, <2>5 DEF Descending, LexPairOrdering
  <2> QED BY <2>3, <2>5, <2>6
<1>2. IInv => T
  BY LeftTyped
<1> QED BY <1>1, <1>2, PassStepsCount, EmitInvariant, PTL DEF Spec, StepsCount
=============================================================================
