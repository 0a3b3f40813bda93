------------------------------ MODULE Decoder ------------------------------
(***************************************************************************)
(* The instruction decoder of the recompiler and pass_Decode, which runs   *)
(* it over the executable sections and fills instrsList.                   *)
(*                                                                         *)
(* A word is the sequence of its 32 bits, the most significant first, as   *)
(* the manuals of the PowerPC number them from 0.  A decoded instruction   *)
(* is [name, sfx, ops]: sfx is the "RC", "OE" or "OERC" that the code      *)
(* glues to the name, "none" where it adds nothing.  DecodeInstruction     *)
(* gives a set: of the instruction, or empty where the code returns size   *)
(* 0; a nested switch without a match falls out of it, so the next one is  *)
(* tried (Else).                                                           *)
(***************************************************************************)
EXTENDS Integers, Sequences

CONSTANT
  Programs   (* images: sequences of executable sections, each a sequence  *)
             (* of words                                                   *)

(* What is read from the image: 32 bits, after the bytes are swapped. *)
Words32 == [1 .. 32 -> {0, 1}]

ASSUME ProgramsAssumption == Programs \subseteq Seq(Seq(Words32))

VARIABLES
  program,     (* the image                                                *)
  instrsList,  (* <<section, index>> -> instruction                        *)
  sec, idx,    (* the loops over the sections and their addresses          *)
  ret,         (* what pass_Decode will return                             *)
  pc

vars == <<program, instrsList, sec, idx, ret, pc>>
-----------------------------------------------------------------------------
(* IBF::GetAt.  Mutant: one bit is left out of a longer field. *)
Bits(w, s, n) ==
  LET v[k \in 0 .. n] == IF k = 0 THEN 0 ELSE 2 * v[k - 1] + w[s + k] IN v[n]

GetAtNarrow(w, s, n) == IF n = 16 THEN Bits(w, s + 1, 15) ELSE Bits(w, s, n)

GetAt(w, s, n) == Bits(w, s, n)

Signed(v, n) == IF v >= 2^(n - 1) THEN v - 2^n ELSE v

(* The operands, named for the register or the field they hold. *)
S(w)   == GetAt(w, 6, 5)
A(w)   == GetAt(w, 11, 5)
B(w)   == GetAt(w, 16, 5)
C(w)   == GetAt(w, 21, 5)
E(w)   == GetAt(w, 26, 5)
Imm(w) == GetAt(w, 16, 16)
Ds(w)  == GetAt(w, 16, 14)
Crf(w) == GetAt(w, 6, 3)
L(w)   == GetAt(w, 10, 1)
Spr(w) == GetAt(w, 11, 10)
Li(w)  == 4 * Signed(GetAt(w, 6, 24), 24)
aa(w)  == GetAt(w, 30, 1) = 1
lk(w)  == GetAt(w, 31, 1) = 1

(* The 128 vector registers: two or three fields each. *)
VD(w) == 32 * GetAt(w, 28, 2) + S(w)
VA(w) == 64 * GetAt(w, 21, 1) + 32 * GetAt(w, 26, 1) + A(w)
VB(w) == 32 * GetAt(w, 30, 2) + B(w)
-----------------------------------------------------------------------------
Instr(name, sfx, ops) == {[name |-> name, sfx |-> sfx, ops |-> ops]}

(* One switch: the table gives each mnemonic the code of its case. *)
Pick(table, c, sfx, ops) ==
  UNION {Instr(n, sfx, ops) : n \in {m \in DOMAIN table : table[m] = c}}

Else(a, b) == IF a # {} THEN a ELSE b

Rc(w) == IF lk(w) THEN "RC" ELSE "none"

OeRc(w) == <<"none", "RC", "OE", "OERC">>[2 * GetAt(w, 21, 1) + GetAt(w, 31, 1) + 1]

(* The forms most mnemonics have.  Mutants: the last operand is left out,  *)
(* as it is of ldx; the target does not come first.                        *)
SA(w)  == <<S(w), A(w)>>
SAB(w) == <<S(w), A(w), B(w)>>

SourceFirst(w) == SAB(w)
ASB(w) == <<A(w), S(w), B(w)>>
VDAB(w) == <<VD(w), VA(w), VB(w)>>
-----------------------------------------------------------------------------
(* Vector operations: primary opcodes 4, 5 and 6. *)
VmxMoves == [lvlx |-> 64, lvlxl |-> 96, lvrx |-> 68, lvrxl |-> 100, lvx |-> 12,
             lvxl |-> 44, stvewx |-> 24, stvlx |-> 80, stvlxl |-> 112, stvrx |-> 84]

Vmx4(w) ==
  Else(CASE GetAt(w, 21, 11) = 199  -> Instr("stvewx", "none", SAB(w))
         [] GetAt(w, 21, 11) = 1156 ->
              IF A(w) = B(w) THEN Instr("mr", "none", <<S(w), A(w)>>) ELSE Instr("vor", "none", SAB(w))
         [] OTHER -> {},
  Else(Pick(VmxMoves, GetAt(w, 21, 7), "none", <<VD(w), A(w), B(w)>>)
         \cup Pick([stvx128 |-> 28], GetAt(w, 21, 7), "none", SAB(w)),
  Else(Pick([vmaddfp |-> 46], GetAt(w, 26, 6), "none", <<S(w), A(w), C(w), B(w)>>)
         \cup Pick([vnmsubfp |-> 47], GetAt(w, 26, 6), "none", <<S(w), A(w), B(w), C(w)>>),
       IF GetAt(w, 21, 1) = 0
       THEN Instr("vsldoi", "none", <<VD(w), VA(w), VB(w), GetAt(w, 22, 4)>>) ELSE {})))

Packs == [vpkshss |-> 8, vpkshus |-> 9, vpkswss |-> 10, vpkswus |-> 11,
          vpkuhum |-> 12, vpkuhus |-> 13, vpkuwum |-> 14, vpkuwus |-> 15]

VectorMath == [vaddfp |-> 0, vsubfp |-> 1, vmulfp128 |-> 2, vdot3fp |-> 6, vdot4fp |-> 7,
               vand |-> 8, vandc |-> 9, vnor |-> 10, vxor |-> 12]

Vmx5(w) ==
  LET c == GetAt(w, 22, 4) IN
  IF GetAt(w, 27, 1) = 0
  THEN (IF c < 8 THEN Instr("vperm", "none", Append(VDAB(w), c)) ELSE Pick(Packs, c, "none", VDAB(w)))
  ELSE Pick(VectorMath, c, "none", VDAB(w))
         \cup Pick([vmaddfp |-> 3, vnmsubfp |-> 5, vsel |-> 13], c, "none", Append(VDAB(w), VD(w)))
         \cup Pick([vmaddfp |-> 4], c, "none", <<VD(w), VA(w), VD(w), VB(w)>>)
         \cup (IF c # 11 THEN {}
               ELSE IF VA(w) = VB(w) THEN Instr("mr", "none", <<VD(w), VA(w)>>)
               ELSE Instr("vor", "none", VDAB(w)))

VectorCompares ==
  [vcmpeqfp |-> 0, vcmpgefp |-> 2, vcmpgtfp |-> 4, vcmpbfp |-> 6, vcmpequw |-> 8]

VectorPairs == [vmaxfp |-> 10, vminfp |-> 11, vmrghw |-> 12, vmrglw |-> 13]

Vmx6(w) ==
  LET b21 == GetAt(w, 21, 7)
      c   == GetAt(w, 22, 4)
      d   == VD(w)
      b   == VB(w)
  IN Else(
       (IF b21 \in {33 + 4 * k : k \in 0 .. 7}
        THEN Instr("vpermwi128", "none", <<d, b, A(w) + 32 * ((b21 - 33) \div 4)>>) ELSE {})
         \cup (IF b21 \in {97, 101, 105, 109}
               THEN Instr("vpkd3d128", "none", <<d, b, A(w) \div 4, A(w) % 4, (b21 - 97) \div 4>>)
               ELSE {})
         \cup Pick([vlogefp |-> 111, vexptefp |-> 107, vrsqrtefp |-> 103], b21, "none", <<d, b>>)
         \cup Pick([vcfpsxws |-> 35, vcfpuxws |-> 39, vcsxwfp |-> 43], b21, "none", <<d, b, A(w)>>)
         \cup Pick([vspltisw |-> 119], b21, "none", <<d, A(w)>>),
       IF GetAt(w, 27, 1) = 0
       THEN Pick(VectorCompares, 2 * (c \div 2), IF c % 2 = 1 THEN "RC" ELSE "none", VDAB(w))
              \cup Pick(VectorPairs, c, "none", VDAB(w))
       ELSE Pick([vrlw |-> 1, vslw |-> 3, vsraw |-> 5, vsrw |-> 7], c, "none", VDAB(w))
              \cup Pick([vrfim |-> 12, vrfin |-> 13, vrfip |-> 14, vrfiz |-> 15], c, "none", <<d, b>>))
-----------------------------------------------------------------------------
(* Immediates, branches and rotates: primary opcodes 0 to 30. *)
Arithmetic == [tdi |-> 2, twi |-> 3, mulli |-> 7, subfic |-> 8, addic |-> 12]

LogicalImm == [ori |-> 24, oris |-> 25, xori |-> 26, xoris |-> 27]

AddImm(name, simplified, w) ==
  Instr(IF A(w) = 0 THEN simplified ELSE name, "none", <<S(w), A(w), Imm(w)>>)

Immediate(op, w) ==
  Pick(Arithmetic, op, "none", <<S(w), A(w), Imm(w)>>)
    \cup Pick([addic |-> 13], op, "RC", <<S(w), A(w), Imm(w)>>)
    \cup Pick(LogicalImm, op, "none", <<A(w), S(w), Imm(w)>>)
    \cup Pick([andi |-> 28, andis |-> 29], op, "RC", <<A(w), S(w), Imm(w)>>)
    \cup (CASE op = 10 -> Instr(IF L(w) = 0 THEN "cmplwi" ELSE "cmpldi", "none",
                                <<Crf(w), L(w), A(w), Imm(w)>>)
            [] op = 11 -> Instr(IF L(w) = 0 THEN "cmpwi" ELSE "cmpdi", "none",
                                <<Crf(w), L(w), A(w), Imm(w)>>)
            [] op = 14 -> AddImm("addi", "li", w)
            [] op = 15 -> AddImm("addis", "lis", w)
            [] OTHER   -> {})

Branch(op, w) ==
  LET k == 2 * GetAt(w, 30, 1) + GetAt(w, 31, 1) + 1
      c == GetAt(w, 21, 10)
  IN CASE op = 16 -> Instr(<<"bc", "bcl", "bca", "bcla">>[k], "none", <<S(w), A(w), Ds(w)>>)
       [] op = 18 -> Instr(<<"b", "bl", "ba", "bla">>[k], "none", <<Li(w)>>)
       [] op = 19 -> Pick(IF lk(w) THEN [bclrl |-> 16, bcctrl |-> 528]
                                   ELSE [bclr |-> 16, bcctr |-> 528],
                          c, "none", <<S(w), A(w)>>)
       [] OTHER -> {}

Rotates == [rlwimi |-> 20, rlwinm |-> 21, rlwnm |-> 23]

(* rldicr. alone has its name misspelt. *)
Rotate(op, w) ==
  Pick(Rotates, op, Rc(w), <<A(w), S(w), B(w), C(w), E(w)>>)
    \cup (IF op # 30 THEN {} ELSE
      LET mb == C(w) + 32 * GetAt(w, 26, 1)
          long == <<A(w), S(w), B(w) + 32 * GetAt(w, 30, 1), mb>>
      IN Else(Pick([rldicl |-> 0, rldic |-> 2, rldimi |-> 3], GetAt(w, 27, 3), Rc(w), long)
                \cup Pick(IF lk(w) THEN [rldicrl |-> 1] ELSE [rldicr |-> 1],
                          GetAt(w, 27, 3), Rc(w), long),
              Pick([rldcl |-> 8, rldcr |-> 9], GetAt(w, 27, 4), Rc(w), <<A(w), S(w), B(w), mb>>)))
-----------------------------------------------------------------------------
(* Primary opcode 31: three switches over fields that overlap. *)
Indexed ==
  [ldux |-> 53, lwzx |-> 23, lwzux |-> 55, lwax |-> 341, lwaux |-> 373,
   lhzx |-> 279, lhzux |-> 311, lhax |-> 343, lhaux |-> 375,
   lhbrx |-> 790, lwbrx |-> 534, sthbrx |-> 918, stwbrx |-> 662,
   stfsx |-> 663, stfsux |-> 695, stfdx |-> 727, stfdux |-> 759, stfiwx |-> 983,
   stwx |-> 151, stwux |-> 183, sthx |-> 407, sthux |-> 439, stbx |-> 215, stbux |-> 247,
   lbzx |-> 87, lbzux |-> 119, stdx |-> 149, stdux |-> 181,
   lfsx |-> 535, lfsux |-> 567, lfdx |-> 599, lfdux |-> 631, lwarx |-> 20, ldarx |-> 84]

Extends == [extsb |-> 954, extsh |-> 922, extsw |-> 986, cntlzw |-> 26, cntlzd |-> 58]

Logical ==
  [sld |-> 27, slw |-> 24, srd |-> 539, srw |-> 536, srad |-> 794, sraw |-> 792,
   and |-> 28, or |-> 444, xor |-> 316, nand |-> 476, nor |-> 124, eqv |-> 284,
   andc |-> 60, orc |-> 412, srawi |-> 824]

CacheOps == [dcbf |-> 86, dcbst |-> 54, dcbt |-> 278, dcbtst |-> 246, dcbz |-> 1014]

(* To and from system registers: the target comes first, but for mfocrf.   *)
Moves(c, w) ==
  Pick([mtspr |-> 467], c, "none", <<Spr(w), S(w)>>)
    \cup Pick([mfspr |-> 339, mftb |-> 371], c, "none", <<S(w), Spr(w)>>)
    \cup Pick([mfmsr |-> 83, mtmsrd |-> 178], c, "none", <<S(w)>>)
    \cup Pick(IF GetAt(w, 11, 1) = 0 THEN [mtcrf |-> 144] ELSE [mtocrf |-> 144],
              c, "none", <<GetAt(w, 12, 8), S(w)>>)
    \cup (IF GetAt(w, 11, 1) = 0 THEN Pick([mfcr |-> 19], c, "none", <<S(w)>>)
          ELSE Pick([mfocrf |-> 19], c, "none", <<GetAt(w, 12, 8), S(w)>>))

(* A sync of the reserved kind falls through to the case below it. *)
Barriers(c, w) ==
  Pick([eieio |-> 854], c, "none", <<>>)
    \cup (IF c = 598 THEN Instr(<<"sync", "lwsync", "ptesync", "eieio">>[GetAt(w, 9, 2) + 1], "none", <<>>)
          ELSE {})

Compares(c, w) ==
  Pick(IF L(w) = 0 THEN [cmpw |-> 0, cmplw |-> 32] ELSE [cmpd |-> 0, cmpld |-> 32],
       c, "none", <<Crf(w), L(w), A(w), B(w)>>)

ByExt21_10(w) ==
  LET c == GetAt(w, 21, 10) IN
  UNION { Compares(c, w), Barriers(c, w), Moves(c, w),
          Pick([ldx |-> 21], c, "none", <<S(w), A(w)>>),
          Pick(Indexed, c, "none", SAB(w)),
          Pick([stwcx |-> 150, stdcx |-> 214], c, "RC", SAB(w)),
          Pick([popcntb |-> 122], c, "none", <<A(w), S(w), S(w)>>),
          Pick(Extends, c, Rc(w), <<A(w), S(w), S(w)>>),
          Pick(Logical, c, Rc(w), ASB(w)),
          Pick([sradi |-> 826], 2 * (c \div 2), Rc(w), ASB(w)),
          Pick(CacheOps, c, "none", <<A(w), B(w)>>) }

VectorMoves ==
  [lvsl |-> 12, lvlx |-> 1038, lvlxl |-> 1550, lvrx |-> 1102, lvrxl |-> 1614, lvx |-> 206,
   lvxl |-> 718, lvsr |-> 76, stvebx |-> 270, stvehx |-> 334, stvewx |-> 398, stvlx |-> 1294,
   stvlxl |-> 1806, stvrx |-> 1358, stvrxl |-> 1870, stvx |-> 462, stvxl |-> 974]

Sums ==
  [addc |-> 10, subfe |-> 136, adde |-> 138, mullw |-> 235, mulld |-> 233, add |-> 266,
   subfc |-> 8, subf |-> 40, divd |-> 489, divw |-> 491, divdu |-> 457, divwu |-> 459]

OneSource == [neg |-> 104, subfze |-> 200, addze |-> 202, addme |-> 234]

Extended(w) ==
  Else(ByExt21_10(w),
  Else(Pick(VectorMoves, GetAt(w, 21, 11), "none", SAB(w)),
       Pick(Sums, GetAt(w, 22, 9), OeRc(w), SAB(w))
         \cup Pick(OneSource, GetAt(w, 22, 9), OeRc(w), <<S(w), A(w)>>)))
-----------------------------------------------------------------------------
(* Loads, stores and floating point: primary opcodes 32 to 63. *)
Displaced ==
  [lwz |-> 32, lwzu |-> 33, lbz |-> 34, lbzu |-> 35, stw |-> 36, stwu |-> 37, stb |-> 38,
   stbu |-> 39, lhz |-> 40, lhzu |-> 41, lha |-> 42, lhau |-> 43, sth |-> 44, sthu |-> 45,
   lfs |-> 48, lfsu |-> 49, lfd |-> 50, lfdu |-> 51, stfs |-> 52, stfsu |-> 53, stfd |-> 54,
   stfdu |-> 55]

Fused == [fmadd |-> 29, fmsub |-> 28, fnmadd |-> 31, fnmsub |-> 30]

SinglesFused == [fmadds |-> 29, fmsubs |-> 28, fnmadds |-> 31, fnmsubs |-> 30]

Single(w) ==
  LET c == GetAt(w, 26, 5) IN
  UNION { Pick([fsubs |-> 20, fadds |-> 21, fdivs |-> 18], c, Rc(w), SAB(w)),
          Pick([fmuls |-> 25], c, Rc(w), <<S(w), A(w), C(w)>>),
          Pick(SinglesFused, c, Rc(w), <<S(w), A(w), C(w), B(w)>>),
          Pick([fsqrts |-> 22, fres |-> 24], c, Rc(w), <<S(w), B(w)>>) }

FloatMoves ==
  [fctid |-> 814, fctiw |-> 14, fctiwz |-> 15, frsp |-> 12, fneg |-> 40, fmr |-> 72,
   fabs |-> 264, fnabs |-> 136, fctidz |-> 815, fcfid |-> 846]

(* fmul reads its second factor where the other sums have theirs. *)
Double(w) ==
  LET x == GetAt(w, 21, 10)
      c == GetAt(w, 26, 5)
  IN Else(UNION { Pick([fcmpu |-> 0, fcmpo |-> 32], x, "none", <<Crf(w), A(w), B(w)>>),
                  Pick(FloatMoves, x, Rc(w), <<S(w), B(w)>>),
                  Pick([mffs |-> 583], x, Rc(w), <<S(w)>>),
                  Pick([mtfsf |-> 711], x, Rc(w), <<GetAt(w, 7, 8), B(w)>>) },
          UNION { Pick([fadd |-> 21, fsub |-> 20, fmul |-> 25, fdiv |-> 18], c, Rc(w), SAB(w)),
                  Pick(Fused, c, Rc(w), <<S(w), A(w), C(w), B(w)>>),
                  Pick([fsel |-> 23], c, Rc(w), <<S(w), A(w), C(w), B(w)>>),
                  Pick([fsqrt |-> 22, fre |-> 24, frsqrte |-> 26], c, Rc(w), <<S(w), B(w)>>) })

(* 58 and 62 fall through: what neither knows is read as a single float. *)
Doubleword(op, w) ==
  LET k == 2 * GetAt(w, 30, 1) + GetAt(w, 31, 1) IN
  Else(Else(IF op = 58 THEN Pick([ld |-> 0, ldu |-> 1, lwa |-> 2], k, "none", <<S(w), Ds(w), A(w)>>)
            ELSE {},
            Pick([std |-> 0, stdu |-> 1], k, "none", <<S(w), Ds(w), A(w)>>)),
       Single(w))

Known == (0 .. 63) \ {1, 9, 17, 22, 46, 47, 56, 57, 60, 61}

DecodeInstruction(w) ==
  LET op == GetAt(w, 0, 6) IN
  CASE op = 0          -> Instr("nop", "none", <<>>)
    [] op = 4          -> Vmx4(w)
    [] op = 5          -> Vmx5(w)
    [] op = 6          -> Vmx6(w)
    [] op \in 16 .. 19 -> Branch(op, w)
    [] op \in {20, 21, 23, 30} -> Rotate(op, w)
    [] op = 31         -> Extended(w)
    [] op \in 32 .. 55 -> Pick(Displaced, op, "none", <<S(w), Imm(w), A(w)>>)
    [] op \in {58, 62} -> Doubleword(op, w)
    [] op = 59         -> Single(w)
    [] op = 63         -> Double(w)
    [] OTHER           -> Immediate(op, w)
-----------------------------------------------------------------------------
Init ==
  /\ program \in Programs
  /\ instrsList = <<>>
  /\ sec = 1 /\ idx = 1
  /\ ret = TRUE
  /\ pc = "decode"

Here == program[sec][idx]

InSection == pc = "decode" /\ sec <= Len(program) /\ idx <= Len(program[sec])

DecodeWord ==
  /\ InSection
  /\ \E i \in DecodeInstruction(Here) :
       instrsList' = [at \in DOMAIN instrsList \cup {<<sec, idx>>} |->
                        IF at = <<sec, idx>> THEN i ELSE instrsList[at]]
  /\ idx' = idx + 1
  /\ UNCHANGED <<program, sec, ret, pc>>

(* Size 0: the rest of this section is left out, the next one is decoded.  *)
(* Mutant: the return value is that of the last section.                   *)
RetOfSection(failed) == ~ failed

Ret(failed) == ret /\ ~ failed

NextSection(failed) ==
  /\ sec' = sec + 1 /\ idx' = 1
  /\ ret' = Ret(failed)
  /\ UNCHANGED <<program, instrsList, pc>>

Fails ==
  /\ InSection
  /\ DecodeInstruction(Here) = {}
  /\ GetAt(Here, 0, 6) \in Known
  /\ NextSection(TRUE)

SectionDone ==
  /\ pc = "decode" /\ sec <= Len(program)
  /\ idx > Len(program[sec])
  /\ NextSection(FALSE)

(* A primary opcode outside the switch stops in __debugbreak. *)
Breaks ==
  /\ InSection
  /\ DecodeInstruction(Here) = {}
  /\ GetAt(Here, 0, 6) \notin Known
  /\ pc' = "dead"
  /\ UNCHANGED <<program, instrsList, sec, idx, ret>>

(* main goes on to pass_Flow, or leaves with -1. *)
PassDone ==
  /\ pc = "decode" /\ sec > Len(program)
  /\ pc' = IF ret THEN "flow" ELSE "failed"
  /\ UNCHANGED <<program, instrsList, sec, idx, ret>>

Next == DecodeWord \/ Fails \/ SectionDone \/ Breaks \/ PassDone

Spec == Init /\ [][Next]_vars
-----------------------------------------------------------------------------
(* instructionMap: the mnemonics the emitter has, by how many operands     *)
(* their emitters read, and those it also has with RC.                     *)
Emitters ==
  << {"nop", "dcbt", "dcbtst", "twi", "tdi", "bclr", "bcctr", "bcctrl"},
     {"b", "bl", "mfcr"},
     {"mfspr", "mtspr", "neg", "cntlzw", "addze", "extsb", "extsh", "extsw"},
     {"stw", "stwu", "stwx", "sth", "sthu", "sthx", "stb", "stbu", "std", "stdu",
      "lwz", "lwzu", "lwzx", "lwa", "lhz", "lhzu", "lhzx", "lha", "lbz", "lbzu", "lbzx",
      "ld", "ldu", "lis", "addis", "li", "addi", "add", "adde", "addic", "subf", "subfe",
      "subfic", "mulli", "mullw", "mulld", "divw", "divwu", "divdu", "ori", "oris", "xori",
      "or", "and", "andc", "andi", "xor", "nor", "slw", "srawi", "bc"},
     {"cmpw", "cmpwi", "cmpdi", "cmplw", "cmplwi", "cmpldi", "rldicl"},
     {"rlwinm", "rlwimi"} >>

WithRc ==
  {"or", "subf", "subfe", "addic", "mullw", "addze", "extsb", "extsh", "extsw", "rlwinm", "andi"}

Emits(i) ==
  /\ \E n \in DOMAIN Emitters : i.name \in Emitters[n]
  /\ \/ i.sfx = "none" /\ i.name # "andi"
     \/ i.sfx = "RC" /\ i.name \in WithRc

OperandsRead(i) == (CHOOSE n \in DOMAIN Emitters : i.name \in Emitters[n]) - 1

(* The bits that the architecture reserves in the instructions of a name,  *)
(* and those that are only hints.                                          *)
Reserved(name) ==
  CASE name \in {"cmpwi", "cmpdi", "cmplwi", "cmpldi"} -> {9}
    [] name \in {"cmpw", "cmplw"}                      -> {9, 31}
    [] name \in {"extsb", "extsh", "extsw", "cntlzw", "neg", "addze",
                 "bclr", "bcctr", "bcctrl"}            -> 16 .. 20
    [] name = "mfcr"                                   -> (12 .. 20) \cup {31}
    [] name \in {"dcbt", "dcbtst"}                     -> (6 .. 10) \cup {31}
    [] name \in {"mtspr", "mfspr", "lwzx", "lhzx", "lbzx", "stwx", "sthx"} -> {31}
    [] name = "nop"                                    -> 6 .. 31   (* no instruction *)
    [] OTHER                                           -> {}

Flip(w, b) == [w EXCEPT ![b + 1] = 1 - @]

(* Of an instruction that the emitter takes, no bit is lost: a word that   *)
(* differs in one that is not reserved decodes to something else, so no    *)
(* field is read short, read twice or shared by two cases of the switches. *)
EveryBitCounts ==
  pc = "flow" =>
    \A at \in DOMAIN instrsList :
      LET i == instrsList[at]
          w == program[at[1]][at[2]]
      IN Emits(i) =>
           \A b \in (0 .. 31) \ Reserved(i.name) : DecodeInstruction(Flip(w, b)) # {i}

(* An emitter finds every operand it reads: ops is a vector that is read   *)
(* unchecked.                                                              *)
EnoughOperands ==
  \A at \in DOMAIN instrsList :
    Emits(instrsList[at]) => OperandsRead(instrsList[at]) <= Len(instrsList[at].ops)

(* The instructions that name their source before their target. *)
TargetIsA ==
  {"or", "and", "andc", "andi", "xor", "nor", "ori", "oris", "xori", "slw", "srawi",
   "cntlzw", "extsb", "extsh", "extsw", "rlwinm", "rlwimi", "rldicl"}

ComparesOrBranches(i) ==
  i.name \in {"mtspr", "bc"} \cup (Emitters[5] \ {"rldicl"})

(* An emitter stores to the register of its first operand, and stw and its *)
(* like load from it: it is the one the architecture means, although half  *)
(* the instructions have it in the second field.                           *)
TargetFirst ==
  \A at \in DOMAIN instrsList :
    LET i == instrsList[at]
        w == program[at[1]][at[2]]
    IN Emits(i) /\ OperandsRead(i) \in 2 .. 5 /\ ~ ComparesOrBranches(i) =>
         i.ops[1] = IF i.name \in TargetIsA THEN A(w) ELSE S(w)

(* The flow passes begin only when each word of each section has been      *)
(* decoded, and main leaves only when one could not be: a failure in one   *)
(* section is not forgotten in the next.                                   *)
AllOrNothing ==
  LET decoded == \A s \in DOMAIN program : \A k \in DOMAIN program[s] : <<s, k>> \in DOMAIN instrsList
  IN (pc = "flow" => decoded) /\ (pc = "failed" => ~ decoded)
=============================================================================
