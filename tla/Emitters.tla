------------------------------ MODULE Emitters ------------------------------
(***************************************************************************)
(* The code the instruction emitters generate, run on a XenonState.  Each  *)
(* step is what one instruction was translated to: it loads registers of   *)
(* the context, computes with integers of 64, 32, 16 or 8 bits and stores. *)
(* A store of 32 bits to a 64-bit register leaves its upper half alone.    *)
(* An instruction is [name, sfx, ops], as decoded; the property is that    *)
(* the step is the one PowerPC.tla prescribes.                             *)
(***************************************************************************)
EXTENDS Words, Sequences, Bitwise

CONSTANTS
  Instrs,      (* the instructions programs are made of                    *)
  Machines,    (* the contexts they start with                             *)
  MaxSteps     (* bound: instructions executed                             *)

VARIABLES
  ctx,      (* XenonState: RR, CR, XER, CTR, LR                            *)
  memory,   (* the bytes written, by guest address                         *)
  pc,       (* distance from the first instruction executed                *)
  last,     (* history: the instruction executed last                      *)
  steps

vars == <<ctx, memory, pc, last, steps>>
-----------------------------------------------------------------------------
RR(r) == ctx.RR[r]

StoreLow(old, v) == old - Trunc(old, W) + v

Flip(v, n) == Ones(n) - v

Shl(v, k) == Trunc(v * 2^k, D)

LShr(v, k) == v \div 2^k

AShr(v, k, n) == Trunc(Signed(v, n) \div 2^k, n)

If(b) == IF b THEN 1 ELSE 0

GetCA == (ctx.XER \div 4) % 4

(* A carry is only ever added. *)
Carried(xer, ca) == xer | (4 * ca)

AddCarried(v1, v2) == If(Trunc(v2, W) > Flip(Trunc(v1, W), W))

SubCarried(v1, v2) == If(Signed(v1, D) <= Signed(v2, D))

(* LT, GT and EQ from the lowest bit of the field up. *)
CmpField(a, b) ==
  If(Signed(a, D) < Signed(b, D)) + 2 * If(Signed(a, D) > Signed(b, D)) + 4 * If(a = b)

(* Mutant: the field is not cleared first. *)
SetUnclearedField(cr, f, field) == cr | (field * 2^(4 * f))

SetCRField(cr, f, field) == (cr & Flip(15 * 2^(4 * f), W)) | (field * 2^(4 * f))

(* Mutant: a mask of one bit is taken for one that goes around the end. *)
XEMASKStrict(mstart, mstop) ==
  LET value == (Ones(D) \div 2^mstart)
                 ^^ (IF mstop >= D - 1 THEN 0 ELSE Ones(D) \div 2^(mstop + 1))
  IN IF mstart < mstop THEN value ELSE Flip(value, D)

XEMASK(mstart, mstop) ==
  LET value == (Ones(D) \div 2^mstart)
                 ^^ (IF mstop >= D - 1 THEN 0 ELSE Ones(D) \div 2^(mstop + 1))
  IN IF mstart <= mstop THEN value ELSE Flip(value, D)

DMASK(b, e) == Trunc(Ones(W) * 2^(W - 1 + b - e), W) \div 2^b

QMASK(b, e) == Trunc(Ones(D) * 2^b, D) \div 2^b
-----------------------------------------------------------------------------
(* The values an instruction may store in its first operand, by group; a   *)
(* group that does not know it has none.                                   *)
Additions(i) ==
  LET n == i.name
      o == i.ops
      im == SExt(o[3], H)
      shifted == Trunc(Signed(o[3], H) * 2^H, D)
  IN CASE n \in {"li", "addi"}   -> {IF o[2] # 0 THEN Add(RR(o[2]), im) ELSE im}
       [] n \in {"lis", "addis"} -> {IF o[2] # 0 THEN Add(RR(o[2]), shifted) ELSE shifted}
       [] n = "addic" -> {Add(RR(o[2]), im)}
       [] n = "adde"  -> {Add(Add(RR(o[2]), RR(o[3])), GetCA)}
       [] n = "addze" -> {Add(RR(o[2]), GetCA)}
       [] n = "add"   -> {Add(RR(o[2]), RR(o[3]))}
       [] OTHER       -> {}

Differences(i) ==
  LET o == i.ops IN
  CASE i.name = "subf"   -> {Sub(RR(o[3]), RR(o[2]))}
    [] i.name = "subfe"  -> {Add(Sub(RR(o[3]), RR(o[2])), GetCA)}
    [] i.name = "subfic" -> {Sub(SExt(o[3], H), RR(o[2]))}
    [] OTHER             -> {}

Extensions(i) ==
  CASE i.name = "extsb" -> {SExt(Trunc(RR(i.ops[2]), Byte), Byte)}
    [] i.name = "extsh" -> {SExt(Trunc(RR(i.ops[2]), H), H)}
    [] i.name = "extsw" -> {SExt(Trunc(RR(i.ops[2]), W), W)}
    [] OTHER            -> {}

Logic(i) ==
  LET n == i.name
      o == i.ops
      a == RR(o[2])
  IN CASE n = "or"   -> {a | RR(o[3])}
       [] n = "ori"  -> {a | o[3]}
       [] n = "oris" -> {a | Trunc(o[3] * 2^H, W)}
       [] n = "and"  -> {a & RR(o[3])}
       [] n = "andc" -> {a & Flip(RR(o[3]), D)}
       [] n = "andi" -> {a & o[3]}
       [] n = "xor"  -> {a ^^ RR(o[3])}
       [] n = "xori" -> {a ^^ o[3]}
       [] n = "neg"  -> {Sub(0, a)}
       [] n = "nor"  -> {Sub(0, a | RR(o[3]))}
       [] OTHER      -> {}

(* Mutant: the registers are not truncated to words. *)
LongQuotient(a, b) == SDiv(Signed(a, D), Signed(b, D))

Quotient(a, b) == SDiv(Signed(Trunc(a, W), W), Signed(Trunc(b, W), W))

(* A division without a quotient traps: it has no value. *)
Products(i) ==
  LET n == i.name
      o == i.ops
      a == RR(o[2])
      b == RR(o[3])
      q == Quotient(a, b)
  IN CASE n = "mulld" -> {Mul(a, b)}
       [] n = "mulli" -> {Mul(a, o[3])}
       [] n = "divw"  -> IF Trunc(b, W) = 0 \/ q = 2^(W - 1) THEN {} ELSE {Trunc(q, W)}
       [] n = "divwu" -> IF Trunc(b, W) = 0 THEN {} ELSE {Trunc(a, W) \div Trunc(b, W)}
       [] n = "divdu" -> IF b = 0 THEN {} ELSE {a \div b}
       [] OTHER       -> {}

(* A word rotated within 64 bits: what the shift left pushes out stays in  *)
(* the upper half, and the upper half comes down with the shift right.     *)
Rotl(v, sh) == Shl(v, sh) | LShr(v, W - sh)

MaskOf(mb, me) == IF mb <= me THEN DMASK(mb, me) ELSE DMASK(0, me) | DMASK(3, W - 1)

(* A shift by the whole width is poison: anything may come of it.          *)
Poison(v) == {0, v, Ones(D)}

Shifts(i) ==
  LET n == i.name
      o == i.ops
      a == RR(o[2])
  IN CASE n = "slw"    -> {IF RR(o[3]) < W THEN Trunc(Shl(a, RR(o[3])), W) ELSE 0}
       [] n = "rlwinm" -> {Rotl(a, o[3]) & MaskOf(o[4], o[5])}
       [] n = "rldicl" -> {(Shl(a, o[3]) | r) & QMASK(o[4], D - 1) :
                             r \in IF o[3] = 0 THEN Poison(a) ELSE {LShr(a, D - o[3])}}
       [] n = "srawi"  -> {SExt(AShr(Trunc(a, W), o[3], W), W)}
       [] OTHER        -> {}

(* All of LR or CTR, upper half included.                                  *)
Spr(n) == CASE n \div 2^5 = 1 -> "XER" [] n \div 2^5 = 8 -> "LR" [] n \div 2^5 = 9 -> "CTR"

Mfspr(i) == IF i.name = "mfspr" THEN {ctx[Spr(i.ops[2])]} ELSE {}

Values64(i) ==
  Additions(i) \cup Differences(i) \cup Extensions(i) \cup Logic(i)
    \cup Products(i) \cup Shifts(i) \cup Mfspr(i)

(* Those that store 32 bits.  rlwimi with a mask of all bits stops the     *)
(* recompiler.                                                             *)
Rlwimi(i) ==
  LET o == i.ops
      mask == XEMASK(o[4] + W, o[5] + W)
      low == Trunc(mask, W)
  IN IF mask = Ones(D) THEN {}
     ELSE {(Trunc(Rotl(RR(o[2]), o[3]), W) & low) | (Trunc(RR(o[1]), W) & Flip(low, W))}

Cntlzw(v) == CHOOSE k \in 0 .. W : v < 2^(W - k) /\ (k = W \/ v >= 2^(W - 1 - k))

Values32(i) ==
  CASE i.name = "mullw"  -> {Trunc(Mul(RR(i.ops[2]), RR(i.ops[3])), W)}
    [] i.name = "rlwimi" -> Rlwimi(i)
    [] i.name = "cntlzw" -> {Cntlzw(Trunc(RR(i.ops[2]), W))}
    [] i.name = "mfcr"   -> {ctx.CR}
    [] OTHER             -> {}
-----------------------------------------------------------------------------
(* CA, of the registers as they are once the result is stored: rr.         *)
SrawiCA(v, sh) ==
  LET mask == Trunc(XEMASK(D - sh, D - 1), W) IN
  IF sh = 0 THEN 0
  ELSE IF mask = 1 THEN If(Signed(v, W) < 0) * (v % 2)
  ELSE If(Signed(v, W) < 0 /\ (v & mask) # 0)

NewXER(i, rr) ==
  LET o == i.ops IN
  CASE i.name = "addic"  -> Carried(ctx.XER, AddCarried(RR(o[2]), SExt(o[3], H)))
    [] i.name = "addze"  -> Carried(ctx.XER, AddCarried(rr[o[2]], GetCA))
    [] i.name = "subfic" -> Carried(ctx.XER, SubCarried(rr[o[2]], SExt(o[3], H)))
    [] i.name = "srawi"  -> Carried(ctx.XER, SrawiCA(Trunc(RR(o[2]), W), o[3]))
    [] OTHER             -> ctx.XER

UpdateCR_CmpZero(i, v) == IF i.sfx = "RC" THEN SetCRField(ctx.CR, 0, CmpField(v, 0)) ELSE ctx.CR

(* subfe reports the difference it has before CA is added. *)
Reported(i, v) ==
  IF i.name = "subfe" THEN Sub(RR(i.ops[3]), RR(i.ops[2])) ELSE v

(* One instruction is done and the next one follows it. *)
Done == pc' = pc + 4

Compute64(i) ==
  \E v \in Values64(i) :
    LET rr == [ctx.RR EXCEPT ![i.ops[1]] = v] IN
    /\ ctx' = [ctx EXCEPT !.RR = rr, !.XER = NewXER(i, rr),
                           !.CR = UpdateCR_CmpZero(i, Reported(i, v))]
    /\ Done /\ UNCHANGED memory

Compute32(i) ==
  \E v \in Values32(i) :
    /\ ctx' = [ctx EXCEPT !.RR[i.ops[1]] = StoreLow(@, v), !.CR = UpdateCR_CmpZero(i, v)]
    /\ Done /\ UNCHANGED memory
-----------------------------------------------------------------------------
(* The operands of a comparison, widened to 64 bits.  cmpli assigns its    *)
(* test, so that it always takes the whole register.                       *)
Low(r) == Trunc(RR(r), W)

Compared(i) ==
  LET o == i.ops IN
  CASE i.name \in {"cmplwi", "cmpldi"} -> {<<RR(o[3]), o[4]>>}
    [] i.name = "cmplw" -> {IF o[2] = 0 THEN <<Low(o[3]), Low(o[4])>>
                                        ELSE <<RR(o[3]), RR(o[4])>>}
    [] i.name = "cmpw"  -> {IF o[2] # 1 THEN <<SExt(Low(o[3]), W), SExt(Low(o[4]), W)>>
                                        ELSE <<RR(o[3]), RR(o[4])>>}
    [] i.name \in {"cmpwi", "cmpdi"} ->
         {<<IF o[2] = 0 THEN SExt(Low(o[3]), W) ELSE RR(o[3]), SExt(o[4], H)>>}
    [] OTHER -> {}

Compare(i) ==
  \E p \in Compared(i) :
    /\ ctx' = [ctx EXCEPT !.CR = SetCRField(@, i.ops[1], CmpField(p[1], p[2]))]
    /\ Done /\ UNCHANGED memory
-----------------------------------------------------------------------------
(* The host is little-endian; what it loads and stores is swapped.  Bytes  *)
(* never written hold what the image loaded.                               *)
ByteAt(a) == IF a \in DOMAIN memory THEN memory[a] ELSE a % 2^Byte

HostLoad(a, n) ==
  LET f[k \in 0 .. n] == IF k = 0 THEN 0 ELSE f[k - 1] + ByteAt(a + k - 1) * 2^(Byte * (k - 1))
  IN f[n]

HostStore(a, n, v) ==
  [x \in DOMAIN memory \cup (a .. a + n - 1) |->
     IF x \in a .. a + n - 1 THEN (v \div 2^(Byte * (x - a))) % 2^Byte ELSE memory[x]]

(* bswap of n bytes. *)
Swap(v, n) ==
  LET f[k \in 0 .. n] ==
        IF k = 0 THEN 0 ELSE 2^Byte * f[k - 1] + ((v \div 2^(Byte * (k - 1))) % 2^Byte)
  IN f[n]

Size == [lbz |-> 1, lbzu |-> 1, lbzx |-> 1, stb |-> 1, stbu |-> 1,
         lhz |-> 2, lhzu |-> 2, lhzx |-> 2, lha |-> 2, sth |-> 2, sthu |-> 2, sthx |-> 2,
         lwz |-> 4, lwzu |-> 4, lwzx |-> 4, lwa |-> 4, stw |-> 4, stwu |-> 4, stwx |-> 4,
         ld |-> 8, ldu |-> 8, std |-> 8, stdu |-> 8]

(* Effective addresses; the one of doublewords reads register 0 as well.   *)
GetEA_D(d, r) == Trunc((IF r = 0 THEN 0 ELSE RR(r)) + SExt(d, H), W)

GetEA_DWORD_D(d, r) == Trunc(RR(r) + SExt(Trunc(4 * d, H), H), W)

GetEA_R(r, x) == Trunc((IF r = 0 THEN 0 ELSE RR(r)) + RR(x), W)

EA(i) ==
  LET o == i.ops IN
  CASE i.name \in {"ld", "ldu", "std", "stdu"}              -> GetEA_DWORD_D(o[2], o[3])
    [] i.name \in {"lwzx", "lhzx", "lbzx", "stwx", "sthx"} -> GetEA_R(o[2], o[3])
    [] OTHER                                               -> GetEA_D(o[2], o[3])

Updates == {"lwzu", "lhzu", "lbzu", "ldu", "stwu", "sthu", "stbu", "stdu"}

UpdateRA_EA(i, rr) == IF i.name \in Updates THEN [rr EXCEPT ![i.ops[3]] = EA(i)] ELSE rr

Load(i) ==
  /\ i.name \in {"lbz", "lbzu", "lbzx", "lhz", "lhzu", "lhzx", "lha",
                 "lwz", "lwzu", "lwzx", "lwa", "ld", "ldu"}
  /\ LET n == Size[i.name]
         v == Swap(HostLoad(EA(i), n), n)
         x == IF i.name \in {"lha", "lwa"} THEN SExt(v, n * Byte) ELSE v
     IN ctx' = [ctx EXCEPT !.RR = UpdateRA_EA(i, [@ EXCEPT ![i.ops[1]] = x])]
  /\ Done /\ UNCHANGED memory

Stored(i) ==
  LET n == Size[i.name] IN HostStore(EA(i), n, Swap(Trunc(RR(i.ops[1]), n * Byte), n))

Store(i) ==
  /\ i.name \in {"stb", "stbu", "sth", "sthu", "sthx", "stw", "stwu", "stwx", "std", "stdu"}
  /\ memory' = Stored(i)
  /\ ctx' = [ctx EXCEPT !.RR = UpdateRA_EA(i, @)]
  /\ Done
-----------------------------------------------------------------------------
(* What the five bits of BO ask for: to count CTR down, and when to branch *)
(* with the counted CTR and the bit of CR.  Other forms stop the           *)
(* recompiler.                                                             *)
GetBOOperation(bo, bi, ctr) ==
  LET bit(k) == BitAt(bo, k) = 1
      counted == Trunc(ctr - 1, W)
  IN CASE bo = 0 -> {<<counted, counted # 0 /\ bi = 0>>}
       [] bit(2) /\ ~ bit(3) /\ ~ bit(4)   -> {<<ctr, bi = 0>>}
       [] bit(2) /\ bit(3) /\ ~ bit(4)     -> {<<ctr, bi = 1>>}
       [] ~ bit(1) /\ ~ bit(2) /\ bit(4)   -> {<<counted, counted # 0>>}
       [] bit(1) /\ ~ bit(2) /\ bit(4)     -> {<<counted, counted = 0>>}
       [] OTHER -> {}

Bcx(i) ==
  /\ i.name = "bc"
  /\ \E b \in GetBOOperation(i.ops[1], BitAt(ctx.CR, i.ops[2]), Trunc(ctx.CTR, W)) :
       /\ ctx' = [ctx EXCEPT !.CTR = StoreLow(@, b[1])]
       /\ pc' = IF b[2] THEN pc + Signed(Trunc(4 * i.ops[3], H), H) ELSE pc + 4
  /\ UNCHANGED memory

Mtspr(i) ==
  /\ i.name = "mtspr"
  /\ ctx' = [ctx EXCEPT ![Spr(i.ops[1])] = StoreLow(@, Low(i.ops[2]))]
  /\ Done /\ UNCHANGED memory

(* nop, dcbt and dcbtst generate nothing. *)
Nothing(i) ==
  /\ i.name \in {"nop", "dcbt", "dcbtst"}
  /\ Done /\ UNCHANGED <<ctx, memory>>
-----------------------------------------------------------------------------
Init ==
  /\ ctx \in Machines
  /\ memory = <<>>
  /\ pc = 0
  /\ last = [name |-> "nop", sfx |-> "", ops |-> <<>>]
  /\ steps = 0

Execute(i) ==
  Compute64(i) \/ Compute32(i) \/ Compare(i) \/ Load(i) \/ Store(i)
    \/ Bcx(i) \/ Mtspr(i) \/ Nothing(i)

Next ==
  /\ steps < MaxSteps /\ steps' = steps + 1
  /\ \E i \in Instrs : Execute(i) /\ last' = i

Spec == Init /\ [][Next]_vars
-----------------------------------------------------------------------------
(* The machine PowerPC.tla describes, of 64 bits, seen in the context: its *)
(* CR is kept the other way round, with bit 0 the lowest.                  *)
CrBits == [k \in 0 .. W - 1 |-> BitAt(ctx.CR, k)]

CA == BitAt(ctx.XER, 2)

Isa64 == INSTANCE PowerPC WITH
  G <- D, gpr <- ctx.RR, cr <- CrBits, ca <- CA, ctr <- Trunc(ctx.CTR, W),
  lr <- Trunc(ctx.LR, W), mem <- memory, nip <- pc

(* The same of 32 bits, seen in the lower halves of the registers. *)
Isa32 == INSTANCE PowerPC WITH
  G <- W, gpr <- [r \in DOMAIN ctx.RR |-> Low(r)], cr <- CrBits, ca <- CA,
  ctr <- Trunc(ctx.CTR, W), lr <- Trunc(ctx.LR, W), mem <- memory, nip <- pc

Clean(r) == RR(r) = Low(r)

(* Where the emitters keep to the architecture whatever the registers hold *)
Always ==
  {"li", "addi", "lis", "addis", "add", "subf", "neg", "or", "ori", "oris", "and", "andc",
   "andi", "xor", "xori", "extsb", "extsh", "extsw", "cmpw", "cmpwi", "cmplw",
   "lbz", "lbzu", "lbzx", "lhz", "lhzu", "lhzx", "lha", "lwz", "lwzu", "lwzx",
   "stb", "stbu", "sth", "sthu", "sthx", "stw", "stwu", "stwx",
   "mtspr", "bc", "nop"}

(* and where they do if the registers they use hold words, CA is clear (it *)
(* is set and never cleared), or a base is not register 0.                  *)
Within(i) ==
  LET n == i.name
      o == i.ops
  IN CASE n \in Always                    -> TRUE
       [] n \in {"addic", "srawi"}        -> CA = 0
       [] n = "addze"                     -> CA = 0 /\ o[1] # o[2]
       [] n = "rlwinm"                    -> Clean(o[2]) /\ o[4] <= o[5]
       [] n = "rlwimi"                    -> Clean(o[2]) /\ o[4] <= o[5]
       [] n = "slw"                       -> RR(o[3]) < D
       [] n = "mfspr"                     -> Spr(o[2]) # "XER"
       [] n = "cmplwi"                    -> Clean(o[3])
       [] n = "mulli"                     -> o[3] < 2^(H - 1)
       [] OTHER                           -> FALSE

Within64(i) ==
  \/ Within(i)
  \/ i.name \in {"mulld", "divdu", "cmpdi"}
  \/ i.name \in {"ld", "ldu", "std", "stdu"} /\ i.ops[3] # 0
  \/ i.name = "cmpldi" /\ RR(i.ops[3]) < 2^(D - 1)
  \/ i.name = "cntlzw" /\ Clean(i.ops[1])

Within32(i) == i.sfx # "RC" /\ (Within(i) \/ i.name \in {"mullw", "divw", "divwu", "cntlzw"})

(* An instruction within these conditions does what the 64-bit machine     *)
(* does, in every register, flag, special register and byte of memory, and *)
(* goes on where it goes on.                                               *)
AsPowerPC == [][Within64(last') => Isa64!Execute(last')]_vars

(* The words of a 32-bit program are those of the 32-bit machine, also     *)
(* where upper halves are left stale, as by mullw and cntlzw.              *)
WordsAsPowerPC == [][Within32(last') => Isa32!Execute(last')]_vars

(* XEMASK is what its comment says: ones from mstart to mstop, or from     *)
(* mstart to the end and from the start to mstop; and the masks of the     *)
(* rotates are ones between their two ends.                                *)
Between(s, e) == IF s <= e THEN s .. e ELSE (s .. D - 1) \cup (0 .. e)

MasksAreRanges ==
  steps = 0 => \A s, e \in 0 .. D - 1 : \A k \in 0 .. D - 1 :
    /\ (BitAt(XEMASK(s, e), D - 1 - k) = 1) <=> (k \in Between(s, e))
    /\ s <= e /\ e < W => ((BitAt(DMASK(s, e), D - 1 - k) = 1) <=> (k - W \in s .. e))
    /\ (BitAt(QMASK(s, D - 1), D - 1 - k) = 1) <=> (k >= s)

(* srawi by 0 is said to be "a fancy sign extend and CA clearer": CA is    *)
(* the carry of the last instruction that sets it.                         *)
CarryCleared ==
  [][last'.name = "srawi" /\ last'.ops[3] = 0 => CA' = 0]_vars
=============================================================================
