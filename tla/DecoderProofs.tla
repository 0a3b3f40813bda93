--------------------------- MODULE DecoderProofs ---------------------------
(***************************************************************************)
(* Proofs about pass_Decode and its switches.  For every image, the flow   *)
(* passes start only when each word of each executable section is in       *)
(* instrsList, and main leaves only when one is not.  For every word: what *)
(* DecodeInstruction gives of the mnemonics that the emitter knows has one *)
(* of five forms (FormIs), which say from which fields of the word its     *)
(* operands came and which fields chose it; the three properties of the    *)
(* tables follow from the forms.                                           *)
(***************************************************************************)
EXTENDS Decoder, FoldLemmas

(* g holds the number read after each bit of a field. *)
ReadBits(g, w, s, n) ==
  /\ g[0] = 0 /\ g[n] = GetAt(w, s, n)
  /\ \A k \in 0 .. n : g[k] \in Nat
  /\ \A k \in 1 .. n : g[k] = 2 * g[k - 1] + w[s + k]

(* A field is within the word. *)
Inside(s, n) == s \in Nat /\ n \in Nat /\ s + n <= 32

(* A field is read bit by bit. *)
LEMMA FieldIs ==
  ASSUME NEW w \in Words32, NEW s, NEW n, Inside(s, n)
  PROVE  \E g : ReadBits(g, w, s, n)
<1> DEFINE q == [k \in 1 .. n |-> w[s + k]]
           h == [p \in Nat \X (1 .. n) |-> 2 * p[1] + q[p[2]]]
           Eq(g) == g = [k \in 0 .. n |-> IF k = 0 THEN 0 ELSE 2 * g[k - 1] + w[s + k]]
           v == CHOOSE g : Eq(g)
<1>1. s \in Nat /\ n \in Nat /\ \A k \in 1 .. n : s + k \in 1 .. 32 /\ w[s + k] \in {0, 1}
  BY DEF Words32, Inside
<1>2. \A a \in Nat, k \in 1 .. n : h[<<a, k>>] = 2 * a + w[s + k] /\ h[<<a, k>>] \in Nat
  <2>1. \A k \in 1 .. n : q[k] = w[s + k] /\ q[k] \in Nat
    BY <1>1
  <2> HIDE DEF q
  <2>2. \A a \in Nat, k \in 1 .. n : h[<<a, k>>] = 2 * a + q[k] /\ h[<<a, k>>] \in Nat
    BY <2>1
  <2> QED BY <2>1, <2>2
<1> HIDE DEF h, q
<1>3. PICK f \in [SUBSET (1 .. n) -> Nat] : FoldEquation(f, n, 0, h)
  BY <1>1, <1>2, FoldExists DEF FoldDefined
<1>4. FoldsWith(f, n, Nat, 0, h)
  BY <1>1, <1>2, <1>3 DEF FoldsWith, FoldEquation
<1>5. PICK g : InTurnBy(g, n, Nat, 0, h)
  BY <1>4, FoldInTurn
<1>6. Eq(g)
  <2>1. g \in [0 .. n -> Nat] /\ g[0] = 0 /\ \A k \in 1 .. n : g[k] = 2 * g[k - 1] + w[s + k]
    BY <1>1, <1>2, <1>5 DEF InTurnBy
  <2>2. \A k \in 0 .. n : g[k] = IF k = 0 THEN 0 ELSE 2 * g[k - 1] + w[s + k]
    BY <1>1, <2>1
  <2> QED BY <2>1, <2>2
<1>7. Eq(v)
  BY <1>6
<1>8. GetAt(w, s, n) = v[n]
  BY DEF GetAt, Bits
<1> HIDE DEF v
<1>9. v[0] = 0 /\ \A k \in 1 .. n : v[k] = 2 * v[k - 1] + w[s + k]
  BY <1>1, <1>7
<1>10. \A k \in 0 .. n : v[k] = g[k]
  <2> DEFINE T == {k \in Nat : k <= n => v[k] = g[k]}
  <2>1. 0 \in T
    BY <1>5, <1>9 DEF InTurnBy
  <2>2. ASSUME NEW k \in Nat, k \in T PROVE k + 1 \in T
    <3> SUFFICES ASSUME k + 1 <= n PROVE v[k + 1] = g[k + 1]
      OBVIOUS
    <3>1. k + 1 \in 1 .. n /\ (k + 1) - 1 = k /\ v[k] = g[k]
      BY <1>1, <2>2
    <3>2. g[k + 1] = 2 * g[k] + w[s + (k + 1)]
      BY <1>1, <1>2, <1>5, <3>1 DEF InTurnBy
    <3>3. v[k + 1] = 2 * v[k] + w[s + (k + 1)]
      BY <1>9, <3>1
    <3> QED BY <3>1, <3>2, <3>3
  <2>3. Nat \subseteq T
    <3> HIDE DEF T
    <3> QED BY <2>1, <2>2, Induction
  <2> QED BY <1>1, <2>3
<1>11. \A k \in 0 .. n : v[k] \in Nat
  BY <1>5, <1>10 DEF InTurnBy
<1>12. ReadBits(v, w, s, n)
  BY <1>8, <1>9, <1>11 DEF ReadBits
<1> QED BY <1>12

(* Two words agree on a field. *)
Agree(w, x, s, n) == \A k \in s + 1 .. s + n : w[k] = x[k]

(* What is read of a field tells its bits. *)
LEMMA FieldTells ==
  ASSUME NEW w \in Words32, NEW x \in Words32, NEW s, NEW n, Inside(s, n),
         GetAt(w, s, n) = GetAt(x, s, n)
  PROVE  Agree(w, x, s, n)
<1>1. PICK g : ReadBits(g, w, s, n)
  BY FieldIs
<1>2. PICK f : ReadBits(f, x, s, n)
  BY FieldIs
<1>3. s \in Nat /\ n \in Nat /\ \A k \in 1 .. n : w[s + k] \in {0, 1} /\ x[s + k] \in {0, 1}
  BY DEF Words32, Inside
<1>4. ASSUME NEW k \in 1 .. n, g[k] = f[k]
      PROVE  g[k - 1] = f[k - 1] /\ w[s + k] = x[s + k]
  <2>1. g[k] = 2 * g[k - 1] + w[s + k] /\ f[k] = 2 * f[k - 1] + x[s + k]
    BY <1>1, <1>2 DEF ReadBits
  <2>2. k - 1 \in 0 .. n /\ g[k - 1] \in Nat /\ f[k - 1] \in Nat
    BY <1>1, <1>2, <1>3 DEF ReadBits
  <2> DEFINE a == g[k - 1]
             b == f[k - 1]
             p == w[s + k]
             q == x[s + k]
  <2>3. a \in Nat /\ b \in Nat /\ p \in {0, 1} /\ q \in {0, 1} /\ 2 * a + p = 2 * b + q
    BY <1>3, <1>4, <2>1, <2>2
  <2> HIDE DEF a, b, p, q
  <2>4. a = b /\ p = q
    BY <2>3
  <2> QED BY <2>4 DEF a, b, p, q
<1> DEFINE T == {k \in Nat : k <= n => g[n - k] = f[n - k]}
<1>5. 0 \in T
  BY <1>1, <1>2, <1>3 DEF ReadBits
<1>6. ASSUME NEW k \in Nat, k \in T PROVE k + 1 \in T
  <2> SUFFICES ASSUME k + 1 <= n PROVE g[n - (k + 1)] = f[n - (k + 1)]
    OBVIOUS
  <2>1. n - k \in 1 .. n /\ (n - k) - 1 = n - (k + 1) /\ g[n - k] = f[n - k]
    BY <1>3, <1>6
  <2> QED BY <1>4, <2>1
<1>7. Nat \subseteq T
  <2> HIDE DEF T
  <2> QED BY <1>5, <1>6, Induction
<1>8. \A k \in 1 .. n : g[k] = f[k]
  <2> SUFFICES ASSUME NEW k \in 1 .. n PROVE g[k] = f[k]
    OBVIOUS
  <2>1. n - k \in Nat /\ n - k <= n /\ n - (n - k) = k
    BY <1>3
  <2> QED BY <1>7, <2>1
<1>9. \A k \in 1 .. n : w[s + k] = x[s + k]
  BY <1>4, <1>8
<1>10. ASSUME NEW k \in s + 1 .. s + n PROVE w[k] = x[k]
  <2>1. k - s \in 1 .. n /\ s + (k - s) = k
    BY <1>3
  <2> QED BY <1>9, <2>1
<1> QED BY <1>10 DEF Agree

(* A field of one bit is the bit. *)
LEMMA OneBit ==
  ASSUME NEW w \in Words32, NEW s, Inside(s, 1)
  PROVE  GetAt(w, s, 1) = w[s + 1] /\ GetAt(w, s, 1) \in {0, 1}
<1>1. PICK g : ReadBits(g, w, s, 1)
  BY FieldIs
<1>2. g[1] = 2 * g[1 - 1] + w[s + 1] /\ g[0] = 0 /\ g[1] = GetAt(w, s, 1)
  BY <1>1 DEF ReadBits
<1>3. w[s + 1] \in {0, 1}
  BY DEF Words32, Inside
<1> QED BY <1>2, <1>3

(* A field of two bits is one of four numbers. *)
LEMMA TwoBits ==
  ASSUME NEW w \in Words32, NEW s, Inside(s, 2)
  PROVE  GetAt(w, s, 2) \in 0 .. 3
<1>1. PICK g : ReadBits(g, w, s, 2)
  BY FieldIs
<1>2. w[s + 1] \in {0, 1} /\ w[s + 2] \in {0, 1}
  BY DEF Words32, Inside
<1>3. /\ g[0] = 0 /\ g[1] = 2 * g[0] + w[s + 1] /\ g[2] = 2 * g[1] + w[s + 2]
      /\ g[2] = GetAt(w, s, 2)
  BY <1>1 DEF ReadBits
<1> QED BY <1>2, <1>3

(* A register is one of 32. *)
LEMMA FiveBits ==
  ASSUME NEW w \in Words32, NEW s, Inside(s, 5)
  PROVE  GetAt(w, s, 5) \in 0 .. 31
<1>1. PICK g : ReadBits(g, w, s, 5)
  BY FieldIs
<1>2. /\ w[s + 1] \in {0, 1} /\ w[s + 2] \in {0, 1} /\ w[s + 3] \in {0, 1}
      /\ w[s + 4] \in {0, 1} /\ w[s + 5] \in {0, 1}
  BY DEF Words32, Inside
<1>3. /\ g[0] = 0 /\ g[1] = 2 * g[0] + w[s + 1] /\ g[2] = 2 * g[1] + w[s + 2]
      /\ g[3] = 2 * g[2] + w[s + 3] /\ g[4] = 2 * g[3] + w[s + 4]
      /\ g[5] = 2 * g[4] + w[s + 5] /\ g[5] = GetAt(w, s, 5)
  BY <1>1 DEF ReadBits
<1> QED BY <1>2, <1>3

(* Six bits more make a number 64 times as large, at most. *)
LEMMA SixBits ==
  ASSUME NEW w \in Words32, NEW s, NEW n, Inside(s, n), NEW g, ReadBits(g, w, s, n),
         NEW k \in Nat, k + 6 <= n, NEW m \in Nat, g[k] <= m
  PROVE  g[k + 6] <= 64 * m + 63
<1>1. \A i \in Nat : i < n => /\ g[i] \in Nat /\ g[i + 1] = 2 * g[i] + w[s + (i + 1)]
                              /\ w[s + (i + 1)] \in {0, 1}
  <2> SUFFICES ASSUME NEW i \in Nat, i < n
               PROVE  /\ g[i] \in Nat /\ g[i + 1] = 2 * g[i] + w[s + (i + 1)]
                      /\ w[s + (i + 1)] \in {0, 1}
    OBVIOUS
  <2>1. i + 1 \in 1 .. n /\ (i + 1) - 1 = i /\ i \in 0 .. n /\ s + (i + 1) \in 1 .. 32
    BY DEF Inside
  <2> QED BY <2>1 DEF ReadBits, Words32
<1>2. \A i, l \in Nat : i < n /\ g[i] <= l => g[i + 1] <= 2 * l + 1
  <2> SUFFICES ASSUME NEW i \in Nat, NEW l \in Nat, i < n, g[i] <= l
               PROVE  g[i + 1] <= 2 * l + 1
    OBVIOUS
  <2> DEFINE a == g[i]
             b == w[s + (i + 1)]
  <2>1. a \in Nat /\ a <= l /\ b \in {0, 1} /\ g[i + 1] = 2 * a + b
    BY <1>1
  <2> HIDE DEF a, b
  <2> QED BY <2>1
<1>3. n \in Nat
  BY DEF Inside
<1>4. g[k + 1] <= 2 * m + 1
  BY <1>2, <1>3
<1>5. g[k + 2] <= 4 * m + 3
  <2>1. (k + 1) + 1 = k + 2 /\ 2 * (2 * m + 1) + 1 = 4 * m + 3
    OBVIOUS
  <2> QED BY <1>2, <1>3, <1>4, <2>1
<1>6. g[k + 3] <= 8 * m + 7
  <2>1. (k + 2) + 1 = k + 3 /\ 2 * (4 * m + 3) + 1 = 8 * m + 7
    OBVIOUS
  <2> QED BY <1>2, <1>3, <1>5, <2>1
<1>7. g[k + 4] <= 16 * m + 15
  <2>1. (k + 3) + 1 = k + 4 /\ 2 * (8 * m + 7) + 1 = 16 * m + 15
    OBVIOUS
  <2> QED BY <1>2, <1>3, <1>6, <2>1
<1>8. g[k + 5] <= 32 * m + 31
  <2>1. (k + 4) + 1 = k + 5 /\ 2 * (16 * m + 15) + 1 = 32 * m + 31
    OBVIOUS
  <2> QED BY <1>2, <1>3, <1>7, <2>1
<1>9. (k + 5) + 1 = k + 6 /\ 2 * (32 * m + 31) + 1 = 64 * m + 63
  OBVIOUS
<1> QED BY <1>2, <1>3, <1>8, <1>9

(* The 24 bits of a displacement are below 2^24. *)
LEMMA DisplacementRange ==
  ASSUME NEW w \in Words32
  PROVE  GetAt(w, 6, 24) \in Nat /\ GetAt(w, 6, 24) <= 16777215
<1>1. Inside(6, 24)
  BY DEF Inside
<1>2. PICK g : ReadBits(g, w, 6, 24)
  BY <1>1, FieldIs
<1>3. \A k, m, j, l \in Nat :
        k + 6 = j /\ j <= 24 /\ l = 64 * m + 63 /\ g[k] <= m => g[j] <= l
  BY <1>1, <1>2, SixBits
<1>4. g[0] <= 0 /\ g[24] \in Nat /\ g[24] = GetAt(w, 6, 24)
  BY <1>2 DEF ReadBits
<1>5. g[6] <= 63
  BY <1>3, <1>4
<1>6. g[12] <= 4095
  BY <1>3, <1>5, SMT
<1>7. g[18] <= 262143
  BY <1>3, <1>6, SMT
<1>8. g[24] <= 16777215
  BY <1>3, <1>7, SMT
<1> QED BY <1>4, <1>8, SMT

(* The displacement of a branch tells its bits, although it has a sign. *)
LEMMA DisplacementTells ==
  ASSUME NEW w \in Words32, NEW x \in Words32, Li(w) = Li(x)
  PROVE  GetAt(w, 6, 24) = GetAt(x, 6, 24)
<1> DEFINE a == GetAt(w, 6, 24)
           b == GetAt(x, 6, 24)
<1>1. a \in Nat /\ a <= 16777215 /\ b \in Nat /\ b <= 16777215
  BY DisplacementRange, SMT
<1>2. 4 * Signed(a, 24) = 4 * Signed(b, 24)
  BY DEF Li
<1> HIDE DEF a, b
<1>3. 2^24 = 16777216
  BY SMT
<1>4. 2^(24 - 1) = 8388608
  BY SMT
<1>5. /\ Signed(a, 24) = IF a >= 8388608 THEN a - 16777216 ELSE a
      /\ Signed(b, 24) = IF b >= 8388608 THEN b - 16777216 ELSE b
  BY <1>3, <1>4, SMT DEF Signed
<1>6. a = b
  BY <1>1, <1>2, <1>5, SMT
<1> QED BY <1>6 DEF a, b
-----------------------------------------------------------------------------
(* The names the emitter knows. *)
Names == UNION {Emitters[n] : n \in 1 .. 6}

(* The fields that choose the case of a switch. *)
Op(w) == GetAt(w, 0, 6)

Last2(w) == 2 * GetAt(w, 30, 1) + GetAt(w, 31, 1)

(* An instruction is the one that a table gives for a code. *)
Is(table, i, c) == i.name \in DOMAIN table /\ table[i.name] = c

(* What the emitter takes: name, suffix and operands of an instruction,    *)
(* with the fields of the word that they were read from.                   *)
SAImm(w) == <<S(w), A(w), Imm(w)>>

ImmediateForm(i, w) ==
  \/ /\ i.name = "nop" /\ Op(w) = 0 /\ i.ops = <<>>
  \/ /\ i.name \in {"tdi", "twi", "mulli", "subfic"}
     /\ Is(Arithmetic, i, Op(w)) /\ i.ops = SAImm(w)
  \/ /\ i.name = "addic" /\ Op(w) = (IF i.sfx = "none" THEN 12 ELSE 13) /\ i.ops = SAImm(w)
  \/ /\ i.name \in {"addi", "li"} /\ Op(w) = 14 /\ i.ops = SAImm(w)
  \/ /\ i.name \in {"addis", "lis"} /\ Op(w) = 15 /\ i.ops = SAImm(w)
  \/ /\ i.name \in {"ori", "oris", "xori"}
     /\ Is(LogicalImm, i, Op(w)) /\ i.ops = <<A(w), S(w), Imm(w)>>
  \/ /\ i.name = "andi" /\ Op(w) = 28 /\ i.ops = <<A(w), S(w), Imm(w)>>
  \/ /\ i.name \in {"cmplwi", "cmpldi"} /\ Op(w) = 10 /\ i.ops = <<Crf(w), L(w), A(w), Imm(w)>>
  \/ /\ i.name \in {"cmpwi", "cmpdi"} /\ Op(w) = 11 /\ i.ops = <<Crf(w), L(w), A(w), Imm(w)>>

BranchForm(i, w) ==
  \/ /\ i.name = "bc" /\ Op(w) = 16 /\ Last2(w) = 0 /\ i.ops = <<S(w), A(w), Ds(w)>>
  \/ /\ Op(w) = 18 /\ i.ops = <<Li(w)>>
     /\ \/ i.name = "b" /\ Last2(w) = 0
        \/ i.name = "bl" /\ Last2(w) = 1
  \/ /\ Op(w) = 19 /\ i.ops = <<S(w), A(w)>>
     /\ \/ i.name = "bclr" /\ GetAt(w, 21, 10) = 16 /\ ~ lk(w)
        \/ i.name = "bcctr" /\ GetAt(w, 21, 10) = 528 /\ ~ lk(w)
        \/ i.name = "bcctrl" /\ GetAt(w, 21, 10) = 528 /\ lk(w)

RotateForm(i, w) ==
  /\ i.sfx = Rc(w)
  /\ \/ /\ i.name \in {"rlwinm", "rlwimi"}
        /\ Is(Rotates, i, Op(w)) /\ i.ops = <<A(w), S(w), B(w), C(w), E(w)>>
     \/ /\ i.name = "rldicl" /\ Op(w) = 30 /\ GetAt(w, 27, 3) = 0
        /\ i.ops = <<A(w), S(w), B(w) + 32 * GetAt(w, 30, 1), C(w) + 32 * GetAt(w, 26, 1)>>

ExtendedForm(i, w) ==
  LET ten  == GetAt(w, 21, 10)
      nine == GetAt(w, 22, 9)
  IN
  /\ Op(w) = 31
  /\ \/ /\ i.name \in {"stwx", "lwzx", "sthx", "lhzx", "lbzx"}
        /\ Is(Indexed, i, ten) /\ i.ops = SAB(w)
     \/ /\ i.name \in {"extsb", "extsh", "extsw", "cntlzw"}
        /\ Is(Extends, i, ten) /\ i.sfx = Rc(w) /\ i.ops = <<A(w), S(w), S(w)>>
     \/ /\ i.name \in {"slw", "and", "or", "xor", "nor", "andc", "srawi"}
        /\ Is(Logical, i, ten) /\ i.sfx = Rc(w) /\ i.ops = ASB(w)
     \/ /\ i.name \in {"dcbt", "dcbtst"}
        /\ Is(CacheOps, i, ten) /\ i.ops = <<A(w), B(w)>>
     \/ i.name = "mfspr" /\ ten = 339 /\ i.ops = <<S(w), Spr(w)>>
     \/ i.name = "mtspr" /\ ten = 467 /\ i.ops = <<Spr(w), S(w)>>
     \/ i.name = "mfcr" /\ ten = 19 /\ GetAt(w, 11, 1) = 0 /\ i.ops = <<S(w)>>
     \/ i.name = "cmpw" /\ ten = 0 /\ i.ops = <<Crf(w), L(w), A(w), B(w)>>
     \/ i.name = "cmplw" /\ ten = 32 /\ i.ops = <<Crf(w), L(w), A(w), B(w)>>
     \/ /\ i.name \in {"add", "adde", "subf", "subfe", "mullw", "mulld", "divw", "divwu", "divdu"}
        /\ Is(Sums, i, nine) /\ i.sfx = OeRc(w) /\ i.ops = SAB(w)
     \/ /\ i.name \in {"neg", "addze"}
        /\ Is(OneSource, i, nine) /\ i.sfx = OeRc(w) /\ i.ops = <<S(w), A(w)>>

LoadForm(i, w) ==
  \/ /\ i.name \in {"lwz", "lwzu", "lbz", "lbzu", "stw", "stwu", "stb", "stbu", "lhz", "lhzu", "lha",
                    "sth", "sthu"}
     /\ Is(Displaced, i, Op(w)) /\ i.ops = <<S(w), Imm(w), A(w)>>
  \/ /\ i.ops = <<S(w), Ds(w), A(w)>>
     /\ \/ i.name = "ld" /\ Op(w) = 58 /\ Last2(w) = 0
        \/ i.name = "ldu" /\ Op(w) = 58 /\ Last2(w) = 1
        \/ i.name = "lwa" /\ Op(w) = 58 /\ Last2(w) = 2
        \/ i.name = "std" /\ Op(w) = 62 /\ Last2(w) = 0
        \/ i.name = "stdu" /\ Op(w) = 62 /\ Last2(w) = 1

(* What one switch gives has the name of its case. *)
LEMMA PickIs ==
  ASSUME NEW t, NEW c, NEW x, NEW o, NEW i \in Pick(t, c, x, o)
  PROVE  Is(t, i, c) /\ i.sfx = x /\ i.ops = o
BY DEF Pick, Instr, Is

(* An instruction is what it was built of. *)
LEMMA InstrIs ==
  ASSUME NEW n, NEW x, NEW o, NEW i \in Instr(n, x, o)
  PROVE  i.name = n /\ i.sfx = x /\ i.ops = o
BY DEF Instr

(* Of two switches, the instruction is of one. *)
LEMMA ElseIs ==
  ASSUME NEW a, NEW b, NEW i \in Else(a, b)
  PROVE  i \in a \/ i \in b
BY DEF Else

(* Loads and stores with a displacement. *)
LEMMA DisplacedForm ==
  ASSUME NEW w, NEW i \in Pick(Displaced, Op(w), "none", <<S(w), Imm(w), A(w)>>),
         i.name \in Names
  PROVE  LoadForm(i, w)
<1>1. Is(Displaced, i, Op(w)) /\ i.ops = <<S(w), Imm(w), A(w)>>
  BY PickIs
<1>2. i.name \in {"lwz", "lwzu", "lbz", "lbzu", "stw", "stwu", "stb", "stbu", "lhz", "lhzu", "lha",
                    "sth", "sthu"}
  BY <1>1 DEF Names, Emitters, Displaced, Is
<1> QED BY <1>1, <1>2 DEF LoadForm

(* The opcodes of Immediate. *)
LEMMA ImmediateIs ==
  ASSUME NEW w, NEW i \in Immediate(Op(w), w), i.name \in Names
  PROVE  ImmediateForm(i, w)
<1> DEFINE op == Op(w)
<1>1. CASE i \in Pick(Arithmetic, op, "none", SAImm(w))
  <2>1. Is(Arithmetic, i, op) /\ i.sfx = "none" /\ i.ops = SAImm(w)
    BY <1>1, PickIs
  <2> QED BY <2>1 DEF ImmediateForm, Is, Arithmetic
<1>2. CASE i \in Pick([addic |-> 13], op, "RC", SAImm(w))
  <2>1. Is([addic |-> 13], i, op) /\ i.sfx = "RC" /\ i.ops = SAImm(w)
    BY <1>2, PickIs
  <2> QED BY <2>1 DEF ImmediateForm, Is
<1>3. CASE i \in Pick(LogicalImm, op, "none", <<A(w), S(w), Imm(w)>>)
  <2>1. Is(LogicalImm, i, op) /\ i.ops = <<A(w), S(w), Imm(w)>>
    BY <1>3, PickIs
  <2>2. i.name \in {"ori", "oris", "xori"}
    BY <2>1 DEF Names, Emitters, LogicalImm, Is
  <2> QED BY <2>1, <2>2 DEF ImmediateForm
<1>4. CASE i \in Pick([andi |-> 28, andis |-> 29], op, "RC", <<A(w), S(w), Imm(w)>>)
  <2>1. Is([andi |-> 28, andis |-> 29], i, op) /\ i.ops = <<A(w), S(w), Imm(w)>>
    BY <1>4, PickIs
  <2>2. i.name = "andi"
    BY <2>1 DEF Names, Emitters, Is
  <2> QED BY <2>1, <2>2 DEF ImmediateForm, Is
<1>5. CASE op = 10 /\ i \in Instr(IF L(w) = 0 THEN "cmplwi" ELSE "cmpldi", "none",
                                  <<Crf(w), L(w), A(w), Imm(w)>>)
  BY <1>5, InstrIs DEF ImmediateForm, Instr
<1>6. CASE op = 11 /\ i \in Instr(IF L(w) = 0 THEN "cmpwi" ELSE "cmpdi", "none",
                                  <<Crf(w), L(w), A(w), Imm(w)>>)
  BY <1>6, InstrIs DEF ImmediateForm, Instr
<1>7. CASE op = 14 /\ i \in AddImm("addi", "li", w)
  BY <1>7, InstrIs DEF ImmediateForm, AddImm, Instr, SAImm
<1>8. CASE op = 15 /\ i \in AddImm("addis", "lis", w)
  BY <1>8, InstrIs DEF ImmediateForm, AddImm, Instr, SAImm
<1> QED BY <1>1, <1>2, <1>3, <1>4, <1>5, <1>6, <1>7, <1>8 DEF Immediate, SAImm

(* The two bits at the end of a word. *)
LEMMA LastIs ==
  ASSUME NEW w \in Words32
  PROVE  Last2(w) \in 0 .. 3
<1>1. Inside(30, 1) /\ Inside(31, 1)
  BY DEF Inside
<1>2. GetAt(w, 30, 1) \in {0, 1} /\ GetAt(w, 31, 1) \in {0, 1}
  BY <1>1, OneBit
<1> QED BY <1>2 DEF Last2

(* The opcodes of Branch. *)
LEMMA BranchIs ==
  ASSUME NEW w \in Words32, NEW i \in Branch(Op(w), w), i.name \in Names
  PROVE  BranchForm(i, w)
<1> DEFINE k == Last2(w) + 1
           c == GetAt(w, 21, 10)
<1>1. k \in 1 .. 4 /\ Last2(w) = k - 1
  BY LastIs
<1>2. CASE Op(w) = 16 /\ i \in Instr(<<"bc", "bcl", "bca", "bcla">>[k], "none", <<S(w), A(w), Ds(w)>>)
  <2>1. i.name = <<"bc", "bcl", "bca", "bcla">>[k] /\ i.ops = <<S(w), A(w), Ds(w)>>
    BY <1>2, InstrIs
  <2>2. "bcl" \notin Names /\ "bca" \notin Names /\ "bcla" \notin Names
    BY DEF Names, Emitters
  <2>4. k = 1 \/ i.name \in {"bcl", "bca", "bcla"}
    BY <1>1, <2>1
  <2>5. i.name = "bc" /\ k = 1
    BY <2>1, <2>2, <2>4
  <2>3. Last2(w) = 0
    BY <1>1, <2>5
  <2> QED BY <1>2, <2>1, <2>5, <2>3 DEF BranchForm
<1>3. CASE Op(w) = 18 /\ i \in Instr(<<"b", "bl", "ba", "bla">>[k], "none", <<Li(w)>>)
  <2>1. i.name = <<"b", "bl", "ba", "bla">>[k] /\ i.ops = <<Li(w)>>
    BY <1>3, InstrIs
  <2>2. "ba" \notin Names /\ "bla" \notin Names
    BY DEF Names, Emitters
  <2>4. k \in {1, 2} \/ i.name \in {"ba", "bla"}
    BY <1>1, <2>1
  <2>5. (i.name = "b" /\ k = 1) \/ (i.name = "bl" /\ k = 2)
    BY <2>1, <2>2, <2>4
  <2>3. (i.name = "b" /\ Last2(w) = 0) \/ (i.name = "bl" /\ Last2(w) = 1)
    BY <1>1, <2>5
  <2> QED BY <1>3, <2>1, <2>3 DEF BranchForm
<1>4. CASE /\ Op(w) = 19
           /\ i \in Pick(IF lk(w) THEN [bclrl |-> 16, bcctrl |-> 528]
                                   ELSE [bclr |-> 16, bcctr |-> 528], c, "none", <<S(w), A(w)>>)
  <2>1. CASE lk(w)
    <3>1. Is([bclrl |-> 16, bcctrl |-> 528], i, c) /\ i.ops = <<S(w), A(w)>>
      BY <1>4, <2>1, PickIs
    <3>2. i.name = "bcctrl" /\ c = 528
      BY <3>1 DEF Is, Names, Emitters
    <3> QED BY <1>4, <2>1, <3>1, <3>2 DEF BranchForm
  <2>2. CASE ~ lk(w)
    <3>1. Is([bclr |-> 16, bcctr |-> 528], i, c) /\ i.ops = <<S(w), A(w)>>
      BY <1>4, <2>2, PickIs
    <3>2. (i.name = "bclr" /\ c = 16) \/ (i.name = "bcctr" /\ c = 528)
      BY <3>1 DEF Is
    <3> HIDE DEF c
    <3> QED BY <1>4, <2>2, <3>1, <3>2, Zenon DEF BranchForm, c
  <2> QED BY <2>1, <2>2
<1> QED BY <1>2, <1>3, <1>4 DEF Branch, Last2

(* The opcodes of Rotate. *)
LEMMA RotateIs ==
  ASSUME NEW w, NEW i \in Rotate(Op(w), w), i.name \in Names
  PROVE  RotateForm(i, w)
<1> DEFINE mb == C(w) + 32 * GetAt(w, 26, 1)
           long == <<A(w), S(w), B(w) + 32 * GetAt(w, 30, 1), mb>>
           c == GetAt(w, 27, 3)
<1>1. CASE i \in Pick(Rotates, Op(w), Rc(w), <<A(w), S(w), B(w), C(w), E(w)>>)
  <2>1. Is(Rotates, i, Op(w)) /\ i.sfx = Rc(w) /\ i.ops = <<A(w), S(w), B(w), C(w), E(w)>>
    BY <1>1, PickIs
  <2>2. i.name \in {"rlwinm", "rlwimi"}
    BY <2>1 DEF Is, Rotates, Names, Emitters
  <2> QED BY <2>1, <2>2 DEF RotateForm
<1>2. CASE Op(w) = 30 /\ i \in Pick([rldicl |-> 0, rldic |-> 2, rldimi |-> 3], c, Rc(w), long)
  <2>1. Is([rldicl |-> 0, rldic |-> 2, rldimi |-> 3], i, c) /\ i.sfx = Rc(w) /\ i.ops = long
    BY <1>2, PickIs
  <2>2. i.name = "rldicl" /\ c = 0
    BY <2>1 DEF Is, Names, Emitters
  <2> QED BY <1>2, <2>1, <2>2 DEF RotateForm
<1>3. i \notin Pick(IF lk(w) THEN [rldicrl |-> 1] ELSE [rldicr |-> 1], c, Rc(w), long)
  <2>1. i.name \notin {"rldicrl", "rldicr"}
    BY DEF Names, Emitters
  <2>2. ASSUME i \in Pick(IF lk(w) THEN [rldicrl |-> 1] ELSE [rldicr |-> 1], c, Rc(w), long)
        PROVE  FALSE
    <3>1. Is(IF lk(w) THEN [rldicrl |-> 1] ELSE [rldicr |-> 1], i, c)
      BY <2>2, PickIs
    <3> QED BY <2>1, <3>1 DEF Is
  <2> QED BY <2>2
<1>4. i \notin Pick([rldcl |-> 8, rldcr |-> 9], GetAt(w, 27, 4), Rc(w), <<A(w), S(w), B(w), mb>>)
  <2>1. i.name \notin {"rldcl", "rldcr"}
    BY DEF Names, Emitters
  <2>2. ASSUME i \in Pick([rldcl |-> 8, rldcr |-> 9], GetAt(w, 27, 4), Rc(w), <<A(w), S(w), B(w), mb>>)
        PROVE  FALSE
    <3>1. Is([rldcl |-> 8, rldcr |-> 9], i, GetAt(w, 27, 4))
      BY <2>2, PickIs
    <3> QED BY <2>1, <3>1 DEF Is
  <2> QED BY <2>2
<1> QED BY <1>1, <1>2, <1>3, <1>4, ElseIs DEF Rotate
-----------------------------------------------------------------------------
(* No instruction of a table without names of the emitter is one of them. *)
LEMMA Unnamed ==
  ASSUME NEW t, NEW c, NEW x, NEW o, NEW i, i.name \in Names, DOMAIN t \cap Names = {}
  PROVE  i \notin Pick(t, c, x, o)
BY PickIs DEF Is

(* Nor is an instruction that the emitter has no name for. *)
LEMMA NamedOnly ==
  ASSUME NEW i, NEW n, NEW x, NEW o, i.name \in Names, n \notin Names
  PROVE  i \notin Instr(n, x, o)
BY InstrIs

(* The first switch of opcode 31. *)
LEMMA ByExtIs ==
  ASSUME NEW w \in Words32, NEW i \in ByExt21_10(w), i.name \in Names, Op(w) = 31
  PROVE  ExtendedForm(i, w)
<1> DEFINE c == GetAt(w, 21, 10)
<1>1. CASE i \in Compares(c, w)
  <2>1. CASE L(w) = 0
    <3>1. Is([cmpw |-> 0, cmplw |-> 32], i, c) /\ i.ops = <<Crf(w), L(w), A(w), B(w)>>
      BY <1>1, <2>1, PickIs DEF Compares
    <3>2. (i.name = "cmpw" /\ c = 0) \/ (i.name = "cmplw" /\ c = 32)
      BY <3>1 DEF Is
    <3> QED BY <3>1, <3>2, Zenon DEF ExtendedForm
  <2>2. L(w) = 0
    <3> SUFFICES ASSUME L(w) # 0 PROVE FALSE
      OBVIOUS
    <3>1. Is([cmpd |-> 0, cmpld |-> 32], i, c)
      BY <1>1, PickIs DEF Compares
    <3> QED BY <3>1 DEF Is, Names, Emitters
  <2> QED BY <2>1, <2>2
<1>2. i \notin Barriers(c, w)
  <2>1. i \notin Pick([eieio |-> 854], c, "none", <<>>)
    <3>1. DOMAIN [eieio |-> 854] \cap Names = {}
      BY DEF Names, Emitters
    <3> QED BY <3>1, Unnamed
  <2>2. ASSUME NEW k \in 1 .. 4
        PROVE  <<"sync", "lwsync", "ptesync", "eieio">>[k] \notin Names
    BY DEF Names, Emitters
  <2>3. GetAt(w, 9, 2) + 1 \in 1 .. 4
    <3>1. Inside(9, 2)
      BY DEF Inside
    <3> QED BY <3>1, TwoBits
  <2> QED BY <2>1, <2>2, <2>3, NamedOnly DEF Barriers
<1>3. CASE i \in Moves(c, w)
  <2>1. CASE i \in Pick([mtspr |-> 467], c, "none", <<Spr(w), S(w)>>)
    <3>1. Is([mtspr |-> 467], i, c) /\ i.ops = <<Spr(w), S(w)>>
      BY <2>1, PickIs
    <3>2. i.name = "mtspr" /\ c = 467
      BY <3>1 DEF Is
    <3> QED BY <3>1, <3>2, Zenon DEF ExtendedForm
  <2>2. CASE i \in Pick([mfspr |-> 339, mftb |-> 371], c, "none", <<S(w), Spr(w)>>)
    <3>1. Is([mfspr |-> 339, mftb |-> 371], i, c) /\ i.ops = <<S(w), Spr(w)>>
      BY <2>2, PickIs
    <3>2. i.name = "mfspr" /\ c = 339
      BY <3>1 DEF Is, Names, Emitters
    <3> QED BY <3>1, <3>2, Zenon DEF ExtendedForm
  <2>3. i \notin Pick([mfmsr |-> 83, mtmsrd |-> 178], c, "none", <<S(w)>>)
    <3>1. DOMAIN [mfmsr |-> 83, mtmsrd |-> 178] \cap Names = {}
      BY DEF Names, Emitters
    <3> QED BY <3>1, Unnamed
  <2>4. i \notin Pick(IF GetAt(w, 11, 1) = 0 THEN [mtcrf |-> 144] ELSE [mtocrf |-> 144],
                      c, "none", <<GetAt(w, 12, 8), S(w)>>)
    <3>1. DOMAIN [mtcrf |-> 144] \cap Names = {} /\ DOMAIN [mtocrf |-> 144] \cap Names = {}
      BY DEF Names, Emitters
    <3> QED BY <3>1, Unnamed
  <2>5. CASE GetAt(w, 11, 1) = 0 /\ i \in Pick([mfcr |-> 19], c, "none", <<S(w)>>)
    <3>1. Is([mfcr |-> 19], i, c) /\ i.ops = <<S(w)>>
      BY <2>5, PickIs
    <3>2. i.name = "mfcr" /\ c = 19
      BY <3>1 DEF Is
    <3> QED BY <2>5, <3>1, <3>2, Zenon DEF ExtendedForm
  <2>6. i \notin Pick([mfocrf |-> 19], c, "none", <<GetAt(w, 12, 8), S(w)>>)
    <3>1. DOMAIN [mfocrf |-> 19] \cap Names = {}
      BY DEF Names, Emitters
    <3> QED BY <3>1, Unnamed
  <2> QED BY <1>3, <2>1, <2>2, <2>3, <2>4, <2>5, <2>6 DEF Moves
<1>4. i \notin Pick([ldx |-> 21], c, "none", <<S(w), A(w)>>)
  <2>1. DOMAIN [ldx |-> 21] \cap Names = {}
    BY DEF Names, Emitters
  <2> QED BY <2>1, Unnamed
<1>5. CASE i \in Pick(Indexed, c, "none", SAB(w))
  <2>1. Is(Indexed, i, c) /\ i.ops = SAB(w)
    BY <1>5, PickIs
  <2>2. i.name \in {"stwx", "lwzx", "sthx", "lhzx", "lbzx"}
    BY <2>1 DEF Is, Indexed, Names, Emitters
  <2> QED BY <2>1, <2>2, Zenon DEF ExtendedForm
<1>6. i \notin Pick([stwcx |-> 150, stdcx |-> 214], c, "RC", SAB(w))
  <2>1. DOMAIN [stwcx |-> 150, stdcx |-> 214] \cap Names = {}
    BY DEF Names, Emitters
  <2> QED BY <2>1, Unnamed
<1>7. i \notin Pick([popcntb |-> 122], c, "none", <<A(w), S(w), S(w)>>)
  <2>1. DOMAIN [popcntb |-> 122] \cap Names = {}
    BY DEF Names, Emitters
  <2> QED BY <2>1, Unnamed
<1>8. CASE i \in Pick(Extends, c, Rc(w), <<A(w), S(w), S(w)>>)
  <2>1. Is(Extends, i, c) /\ i.sfx = Rc(w) /\ i.ops = <<A(w), S(w), S(w)>>
    BY <1>8, PickIs
  <2>2. i.name \in {"extsb", "extsh", "extsw", "cntlzw"}
    BY <2>1 DEF Is, Extends, Names, Emitters
  <2> QED BY <2>1, <2>2, Zenon DEF ExtendedForm
<1>9. CASE i \in Pick(Logical, c, Rc(w), ASB(w))
  <2>1. Is(Logical, i, c) /\ i.sfx = Rc(w) /\ i.ops = ASB(w)
    BY <1>9, PickIs
  <2>2. i.name \in {"slw", "and", "or", "xor", "nor", "andc", "srawi"}
    BY <2>1 DEF Is, Logical, Names, Emitters
  <2> QED BY <2>1, <2>2, Zenon DEF ExtendedForm
<1>10. i \notin Pick([sradi |-> 826], 2 * (c \div 2), Rc(w), ASB(w))
  <2>1. DOMAIN [sradi |-> 826] \cap Names = {}
    BY DEF Names, Emitters
  <2> QED BY <2>1, Unnamed
<1>11. CASE i \in Pick(CacheOps, c, "none", <<A(w), B(w)>>)
  <2>1. Is(CacheOps, i, c) /\ i.ops = <<A(w), B(w)>>
    BY <1>11, PickIs
  <2>2. i.name \in {"dcbt", "dcbtst"}
    BY <2>1 DEF Is, CacheOps, Names, Emitters
  <2> QED BY <2>1, <2>2, Zenon DEF ExtendedForm
<1> QED BY <1>1, <1>2, <1>3, <1>4, <1>5, <1>6, <1>7, <1>8, <1>9, <1>10, <1>11 DEF ByExt21_10

(* The three switches of opcode 31. *)
LEMMA ExtendedIs ==
  ASSUME NEW w \in Words32, NEW i \in Extended(w), i.name \in Names, Op(w) = 31
  PROVE  ExtendedForm(i, w)
<1> DEFINE c == GetAt(w, 22, 9)
<1>1. CASE i \in ByExt21_10(w)
  BY <1>1, ByExtIs
<1>2. i \notin Pick(VectorMoves, GetAt(w, 21, 11), "none", SAB(w))
  <2>1. DOMAIN VectorMoves \cap Names = {}
    BY DEF VectorMoves, Names, Emitters
  <2> QED BY <2>1, Unnamed
<1>3. CASE i \in Pick(Sums, c, OeRc(w), SAB(w))
  <2>1. Is(Sums, i, c) /\ i.sfx = OeRc(w) /\ i.ops = SAB(w)
    BY <1>3, PickIs
  <2>2. i.name \in {"add", "adde", "subf", "subfe", "mullw", "mulld", "divw", "divwu", "divdu"}
    BY <2>1 DEF Is, Sums, Names, Emitters
  <2> QED BY <2>1, <2>2, Zenon DEF ExtendedForm
<1>4. CASE i \in Pick(OneSource, c, OeRc(w), <<S(w), A(w)>>)
  <2>1. Is(OneSource, i, c) /\ i.sfx = OeRc(w) /\ i.ops = <<S(w), A(w)>>
    BY <1>4, PickIs
  <2>2. i.name \in {"neg", "addze"}
    BY <2>1 DEF Is, OneSource, Names, Emitters
  <2> QED BY <2>1, <2>2, Zenon DEF ExtendedForm
<1> QED BY <1>1, <1>2, <1>3, <1>4, ElseIs DEF Extended
-----------------------------------------------------------------------------
LEMMA SingleIs ==
  ASSUME NEW w, NEW i \in Single(w)
  PROVE  i.name \notin Names
<1> SUFFICES ASSUME i.name \in Names PROVE FALSE
  OBVIOUS
<1> DEFINE c == GetAt(w, 26, 5)
<1>1. i \notin Pick([fsubs |-> 20, fadds |-> 21, fdivs |-> 18], c, Rc(w), SAB(w))
  <2>1. DOMAIN [fsubs |-> 20, fadds |-> 21, fdivs |-> 18] \cap Names = {}
    BY DEF Names, Emitters
  <2> QED BY <2>1, Unnamed
<1>2. i \notin Pick([fmuls |-> 25], c, Rc(w), <<S(w), A(w), C(w)>>)
  <2>1. DOMAIN [fmuls |-> 25] \cap Names = {}
    BY DEF Names, Emitters
  <2> QED BY <2>1, Unnamed
<1>3. i \notin Pick(SinglesFused, c, Rc(w), <<S(w), A(w), C(w), B(w)>>)
  <2>1. DOMAIN SinglesFused \cap Names = {}
    BY DEF SinglesFused, Names, Emitters
  <2> QED BY <2>1, Unnamed
<1>4. i \notin Pick([fsqrts |-> 22, fres |-> 24], c, Rc(w), <<S(w), B(w)>>)
  <2>1. DOMAIN [fsqrts |-> 22, fres |-> 24] \cap Names = {}
    BY DEF Names, Emitters
  <2> QED BY <2>1, Unnamed
<1> QED BY <1>1, <1>2, <1>3, <1>4 DEF Single

(* The emitter takes no float of double precision. *)
LEMMA DoubleIs ==
  ASSUME NEW w, NEW i \in Double(w)
  PROVE  i.name \notin Names
<1> SUFFICES ASSUME i.name \in Names PROVE FALSE
  OBVIOUS
<1> DEFINE x == GetAt(w, 21, 10)
           c == GetAt(w, 26, 5)
           moves == UNION { Pick([fcmpu |-> 0, fcmpo |-> 32], x, "none", <<Crf(w), A(w), B(w)>>),
                  Pick(FloatMoves, x, Rc(w), <<S(w), B(w)>>),
                  Pick([mffs |-> 583], x, Rc(w), <<S(w)>>),
                  Pick([mtfsf |-> 711], x, Rc(w), <<GetAt(w, 7, 8), B(w)>>) }
           sums == UNION { Pick([fadd |-> 21, fsub |-> 20, fmul |-> 25, fdiv |-> 18], c, Rc(w), SAB(w)),
                  Pick(Fused, c, Rc(w), <<S(w), A(w), C(w), B(w)>>),
                  Pick([fsel |-> 23], c, Rc(w), <<S(w), A(w), C(w), B(w)>>),
                  Pick([fsqrt |-> 22, fre |-> 24, frsqrte |-> 26], c, Rc(w), <<S(w), B(w)>>) }
<1>1. /\ DOMAIN [fcmpu |-> 0, fcmpo |-> 32] \cap Names = {}
      /\ DOMAIN [mffs |-> 583] \cap Names = {}
      /\ DOMAIN [mtfsf |-> 711] \cap Names = {}
  BY DEF Names, Emitters
<1>2. DOMAIN FloatMoves \cap Names = {}
  BY DEF FloatMoves, Names, Emitters
<1>3. /\ DOMAIN [fadd |-> 21, fsub |-> 20, fmul |-> 25, fdiv |-> 18] \cap Names = {}
      /\ DOMAIN [fsel |-> 23] \cap Names = {}
      /\ DOMAIN [fsqrt |-> 22, fre |-> 24, frsqrte |-> 26] \cap Names = {}
  BY DEF Names, Emitters
<1>4. DOMAIN Fused \cap Names = {}
  BY DEF Fused, Names, Emitters
<1>5. i \notin moves
  <2>1. /\ i \notin Pick([fcmpu |-> 0, fcmpo |-> 32], x, "none", <<Crf(w), A(w), B(w)>>)
        /\ i \notin Pick(FloatMoves, x, Rc(w), <<S(w), B(w)>>)
        /\ i \notin Pick([mffs |-> 583], x, Rc(w), <<S(w)>>)
        /\ i \notin Pick([mtfsf |-> 711], x, Rc(w), <<GetAt(w, 7, 8), B(w)>>)
    BY <1>1, <1>2, Unnamed
  <2> QED BY <2>1
<1>6. i \notin sums
  <2>1. /\ i \notin Pick([fadd |-> 21, fsub |-> 20, fmul |-> 25, fdiv |-> 18], c, Rc(w), SAB(w))
        /\ i \notin Pick(Fused, c, Rc(w), <<S(w), A(w), C(w), B(w)>>)
        /\ i \notin Pick([fsel |-> 23], c, Rc(w), <<S(w), A(w), C(w), B(w)>>)
        /\ i \notin Pick([fsqrt |-> 22, fre |-> 24, frsqrte |-> 26], c, Rc(w), <<S(w), B(w)>>)
    BY <1>3, <1>4, Unnamed
  <2> QED BY <2>1
<1> HIDE DEF moves, sums
<1>7. i \in Else(moves, sums)
  BY DEF Double, moves, sums
<1> QED BY <1>5, <1>6, <1>7, ElseIs

(* A switch with a matching case gives an instruction. *)
LEMMA PickFinds ==
  ASSUME NEW t, NEW c, NEW x, NEW o, NEW m \in DOMAIN t, t[m] = c
  PROVE  Pick(t, c, x, o) # {}
<1>1. [name |-> m, sfx |-> x, ops |-> o] \in Instr(m, x, o)
  BY DEF Instr
<1>2. m \in {n \in DOMAIN t : t[n] = c}
  OBVIOUS
<1> QED BY <1>1, <1>2 DEF Pick

(* Opcodes 58 and 62, which fall through. *)
LEMMA DoublewordIs ==
  ASSUME NEW w \in Words32, NEW i \in Doubleword(Op(w), w), i.name \in Names, Op(w) \in {58, 62}
  PROVE  LoadForm(i, w)
<1> DEFINE k == Last2(w)
           o == <<S(w), Ds(w), A(w)>>
<1>1. CASE Op(w) = 58 /\ i \in Pick([ld |-> 0, ldu |-> 1, lwa |-> 2], k, "none", o)
  <2>1. Is([ld |-> 0, ldu |-> 1, lwa |-> 2], i, k) /\ i.ops = o
    BY <1>1, PickIs
  <2>2. (i.name = "ld" /\ k = 0) \/ (i.name = "ldu" /\ k = 1) \/ (i.name = "lwa" /\ k = 2)
    BY <2>1 DEF Is
  <2> QED BY <1>1, <2>1, <2>2, Zenon DEF LoadForm
<1>2. CASE Op(w) # 58 /\ i \in Pick([std |-> 0, stdu |-> 1], k, "none", o)
  <2>1. Is([std |-> 0, stdu |-> 1], i, k) /\ i.ops = o
    BY <1>2, PickIs
  <2>2. (i.name = "std" /\ k = 0) \/ (i.name = "stdu" /\ k = 1)
    BY <2>1 DEF Is
  <2>3. Op(w) = 62
    BY <1>2
  <2> QED BY <2>1, <2>2, <2>3, Zenon DEF LoadForm
<1> DEFINE loads == IF Op(w) = 58 THEN Pick([ld |-> 0, ldu |-> 1, lwa |-> 2], k, "none", o) ELSE {}
           stores == Pick([std |-> 0, stdu |-> 1], k, "none", o)
<1>3. i \in Else(loads, stores)
  BY SingleIs, ElseIs DEF Doubleword, Last2
<1>4. ASSUME Op(w) = 58, i \in stores PROVE loads # {}
  <2>1. Is([std |-> 0, stdu |-> 1], i, k)
    BY <1>4, PickIs
  <2>2. k = 0 \/ k = 1
    BY <2>1 DEF Is
  <2>3. \E m \in DOMAIN [ld |-> 0, ldu |-> 1, lwa |-> 2] : [ld |-> 0, ldu |-> 1, lwa |-> 2][m] = k
    BY <2>2
  <2>4. Pick([ld |-> 0, ldu |-> 1, lwa |-> 2], k, "none", o) # {}
    BY <2>3, PickFinds
  <2> QED BY <1>4, <2>4
<1>5. i \in loads \/ (i \in stores /\ Op(w) # 58)
  <2> HIDE DEF loads, stores
  <2> QED BY <1>3, <1>4 DEF Else
<1> QED BY <1>1, <1>2, <1>5
-----------------------------------------------------------------------------
LEMMA Vmx4Is ==
  ASSUME NEW w, NEW i \in Vmx4(w)
  PROVE  i.name \notin Names
<1> SUFFICES ASSUME i.name \in Names PROVE FALSE
  OBVIOUS
<1>1. "stvewx" \notin Names /\ "mr" \notin Names /\ "vor" \notin Names /\ "vsldoi" \notin Names
  BY DEF Names, Emitters
<1>2. DOMAIN VmxMoves \cap Names = {} /\ DOMAIN [stvx128 |-> 28] \cap Names = {}
  BY DEF VmxMoves, Names, Emitters
<1>3. DOMAIN [vmaddfp |-> 46] \cap Names = {} /\ DOMAIN [vnmsubfp |-> 47] \cap Names = {}
  BY DEF Names, Emitters
<1> DEFINE first ==
             CASE GetAt(w, 21, 11) = 199  -> Instr("stvewx", "none", SAB(w))
               [] GetAt(w, 21, 11) = 1156 ->
                    IF A(w) = B(w) THEN Instr("mr", "none", <<S(w), A(w)>>) ELSE Instr("vor", "none", SAB(w))
               [] OTHER -> {}
           second == Pick(VmxMoves, GetAt(w, 21, 7), "none", <<VD(w), A(w), B(w)>>)
                       \cup Pick([stvx128 |-> 28], GetAt(w, 21, 7), "none", SAB(w))
           third == Pick([vmaddfp |-> 46], GetAt(w, 26, 6), "none", <<S(w), A(w), C(w), B(w)>>)
                      \cup Pick([vnmsubfp |-> 47], GetAt(w, 26, 6), "none", <<S(w), A(w), B(w), C(w)>>)
           fourth == IF GetAt(w, 21, 1) = 0
                     THEN Instr("vsldoi", "none", <<VD(w), VA(w), VB(w), GetAt(w, 22, 4)>>) ELSE {}
<1>4. i \notin first
  <2>1. /\ i \notin Instr("stvewx", "none", SAB(w))
        /\ i \notin Instr("mr", "none", <<S(w), A(w)>>)
        /\ i \notin Instr("vor", "none", SAB(w))
    BY <1>1, NamedOnly
  <2> QED BY <2>1
<1>5. i \notin second
  BY <1>2, Unnamed
<1>6. i \notin third
  BY <1>3, Unnamed
<1>7. i \notin fourth
  BY <1>1, NamedOnly
<1>8. i \in Else(first, Else(second, Else(third, fourth)))
  BY DEF Vmx4
<1> HIDE DEF first, second, third, fourth
<1> QED BY <1>4, <1>5, <1>6, <1>7, <1>8, ElseIs

(* Nor of opcode 5. *)
LEMMA Vmx5Is ==
  ASSUME NEW w, NEW i \in Vmx5(w)
  PROVE  i.name \notin Names
<1> SUFFICES ASSUME i.name \in Names PROVE FALSE
  OBVIOUS
<1>1. "vperm" \notin Names /\ "mr" \notin Names /\ "vor" \notin Names
  BY DEF Names, Emitters
<1>2. DOMAIN Packs \cap Names = {} /\ DOMAIN VectorMath \cap Names = {}
  BY DEF Packs, VectorMath, Names, Emitters
<1>3. /\ DOMAIN [vmaddfp |-> 3, vnmsubfp |-> 5, vsel |-> 13] \cap Names = {}
      /\ DOMAIN [vmaddfp |-> 4] \cap Names = {}
  BY DEF Names, Emitters
<1> DEFINE c == GetAt(w, 22, 4)
<1>4. /\ i \notin Instr("vperm", "none", Append(VDAB(w), c))
      /\ i \notin Instr("mr", "none", <<VD(w), VA(w)>>)
      /\ i \notin Instr("vor", "none", VDAB(w))
  BY <1>1, NamedOnly
<1>5. i \notin Pick(Packs, c, "none", VDAB(w)) /\ i \notin Pick(VectorMath, c, "none", VDAB(w))
  BY <1>2, Unnamed
<1>6. /\ i \notin Pick([vmaddfp |-> 3, vnmsubfp |-> 5, vsel |-> 13], c, "none", Append(VDAB(w), VD(w)))
      /\ i \notin Pick([vmaddfp |-> 4], c, "none", <<VD(w), VA(w), VD(w), VB(w)>>)
  BY <1>3, Unnamed
<1> QED BY <1>4, <1>5, <1>6 DEF Vmx5

(* Nor of opcode 6. *)
LEMMA Vmx6Is ==
  ASSUME NEW w, NEW i \in Vmx6(w)
  PROVE  i.name \notin Names
<1> SUFFICES ASSUME i.name \in Names PROVE FALSE
  OBVIOUS
<1>1. "vpermwi128" \notin Names /\ "vpkd3d128" \notin Names
  BY DEF Names, Emitters
<1>2. /\ DOMAIN [vlogefp |-> 111, vexptefp |-> 107, vrsqrtefp |-> 103] \cap Names = {}
      /\ DOMAIN [vcfpsxws |-> 35, vcfpuxws |-> 39, vcsxwfp |-> 43] \cap Names = {}
      /\ DOMAIN [vspltisw |-> 119] \cap Names = {}
  BY DEF Names, Emitters
<1>3. DOMAIN VectorCompares \cap Names = {} /\ DOMAIN VectorPairs \cap Names = {}
  BY DEF VectorCompares, VectorPairs, Names, Emitters
<1>4. /\ DOMAIN [vrlw |-> 1, vslw |-> 3, vsraw |-> 5, vsrw |-> 7] \cap Names = {}
      /\ DOMAIN [vrfim |-> 12, vrfin |-> 13, vrfip |-> 14, vrfiz |-> 15] \cap Names = {}
  BY DEF Names, Emitters
<1> DEFINE b21 == GetAt(w, 21, 7)
           c == GetAt(w, 22, 4)
           d == VD(w)
           b == VB(w)
           first ==
             (IF b21 \in {33 + 4 * k : k \in 0 .. 7}
              THEN Instr("vpermwi128", "none", <<d, b, A(w) + 32 * ((b21 - 33) \div 4)>>) ELSE {})
               \cup (IF b21 \in {97, 101, 105, 109}
                     THEN Instr("vpkd3d128", "none", <<d, b, A(w) \div 4, A(w) % 4, (b21 - 97) \div 4>>)
                     ELSE {})
               \cup Pick([vlogefp |-> 111, vexptefp |-> 107, vrsqrtefp |-> 103], b21, "none", <<d, b>>)
               \cup Pick([vcfpsxws |-> 35, vcfpuxws |-> 39, vcsxwfp |-> 43], b21, "none", <<d, b, A(w)>>)
               \cup Pick([vspltisw |-> 119], b21, "none", <<d, A(w)>>)
           second ==
             IF GetAt(w, 27, 1) = 0
             THEN Pick(VectorCompares, 2 * (c \div 2), IF c % 2 = 1 THEN "RC" ELSE "none", VDAB(w))
                    \cup Pick(VectorPairs, c, "none", VDAB(w))
             ELSE Pick([vrlw |-> 1, vslw |-> 3, vsraw |-> 5, vsrw |-> 7], c, "none", VDAB(w))
                    \cup Pick([vrfim |-> 12, vrfin |-> 13, vrfip |-> 14, vrfiz |-> 15], c, "none", <<d, b>>)
<1>5. i \notin first
  <2>1. /\ i \notin Instr("vpermwi128", "none", <<d, b, A(w) + 32 * ((b21 - 33) \div 4)>>)
        /\ i \notin Instr("vpkd3d128", "none", <<d, b, A(w) \div 4, A(w) % 4, (b21 - 97) \div 4>>)
    BY <1>1, NamedOnly
  <2>2. /\ i \notin Pick([vlogefp |-> 111, vexptefp |-> 107, vrsqrtefp |-> 103], b21, "none", <<d, b>>)
        /\ i \notin Pick([vcfpsxws |-> 35, vcfpuxws |-> 39, vcsxwfp |-> 43], b21, "none", <<d, b, A(w)>>)
        /\ i \notin Pick([vspltisw |-> 119], b21, "none", <<d, A(w)>>)
    BY <1>2, Unnamed
  <2> HIDE DEF b21, c, d, b
  <2> QED BY <2>1, <2>2
<1>6. i \notin second
  <2>1. /\ i \notin Pick(VectorCompares, 2 * (c \div 2), IF c % 2 = 1 THEN "RC" ELSE "none", VDAB(w))
        /\ i \notin Pick(VectorPairs, c, "none", VDAB(w))
    BY <1>3, Unnamed
  <2>2. /\ i \notin Pick([vrlw |-> 1, vslw |-> 3, vsraw |-> 5, vsrw |-> 7], c, "none", VDAB(w))
        /\ i \notin Pick([vrfim |-> 12, vrfin |-> 13, vrfip |-> 14, vrfiz |-> 15], c, "none", <<d, b>>)
    BY <1>4, Unnamed
  <2> QED BY <2>1, <2>2
<1>7. i \in Else(first, second)
  BY DEF Vmx6
<1> HIDE DEF first, second
<1> QED BY <1>5, <1>6, <1>7, ElseIs

(* What the emitter takes has one of five forms. *)
Form(i, w) ==
  ImmediateForm(i, w) \/ BranchForm(i, w) \/ RotateForm(i, w) \/ ExtendedForm(i, w) \/ LoadForm(i, w)

(* Each case of DecodeInstruction gives one of the forms. *)
LEMMA FormIs ==
  ASSUME NEW w \in Words32, NEW i \in DecodeInstruction(w), i.name \in Names
  PROVE  Form(i, w)
<1>1. CASE Op(w) = 0 /\ i \in Instr("nop", "none", <<>>)
  <2>1. i.name = "nop" /\ i.ops = <<>>
    BY <1>1, InstrIs
  <2>2. ImmediateForm(i, w)
    BY <1>1, <2>1, Zenon DEF ImmediateForm
  <2> QED BY <2>2 DEF Form
<1>2. CASE i \in Vmx4(w) \/ i \in Vmx5(w) \/ i \in Vmx6(w) \/ i \in Single(w) \/ i \in Double(w)
  BY <1>2, Vmx4Is, Vmx5Is, Vmx6Is, SingleIs, DoubleIs
<1>3. CASE i \in Branch(Op(w), w)
  BY <1>3, BranchIs DEF Form
<1>4. CASE i \in Rotate(Op(w), w)
  BY <1>4, RotateIs DEF Form
<1>5. CASE Op(w) = 31 /\ i \in Extended(w)
  BY <1>5, ExtendedIs DEF Form
<1>6. CASE i \in Pick(Displaced, Op(w), "none", <<S(w), Imm(w), A(w)>>)
  BY <1>6, DisplacedForm DEF Form
<1>7. CASE Op(w) \in {58, 62} /\ i \in Doubleword(Op(w), w)
  BY <1>7, DoublewordIs DEF Form
<1>8. CASE i \in Immediate(Op(w), w)
  BY <1>8, ImmediateIs DEF Form
<1>9. i \in LET op == Op(w) IN
  CASE op = 0          -> Instr("nop", "none", <<>>)
    [] op = 4          -> Vmx4(w)
    [] op = 5          -> Vmx5(w)
    [] op = 6          -> Vmx6(w)
    [] op \in 16 .. 19 -> Branch(op, w)
    [] op \in {20, 21, 23, 30} -> Rotate(op, w)
    [] op = 31         -> Extended(w)
    [] op \in 32 .. 55 -> Pick(Displaced, op, "none", <<S(w), Imm(w), A(w)>>)
    [] op \in {58, 62} -> Doubleword(op, w)
    [] op = 59         -> Single(w)
    [] op = 63         -> Double(w)
    [] OTHER           -> Immediate(op, w)
  BY DEF DecodeInstruction, Op
<1> QED BY <1>1, <1>2, <1>3, <1>4, <1>5, <1>6, <1>7, <1>8, <1>9
-----------------------------------------------------------------------------
(* Each name is in one row of Emitters. *)
LEMMA ReadIs ==
  ASSUME NEW i, NEW n \in 1 .. 6, i.name \in Emitters[n]
  PROVE  OperandsRead(i) = n - 1
<1>1. DOMAIN Emitters = 1 .. 6
  BY DEF Emitters
<1>2. \A m, k \in 1 .. 6 : m < k => Emitters[m] \cap Emitters[k] = {}
  BY DEF Emitters
<1>3. \A m \in 1 .. 6 : i.name \in Emitters[m] => m = n
  <2> SUFFICES ASSUME NEW m \in 1 .. 6, i.name \in Emitters[m], m # n PROVE FALSE
    OBVIOUS
  <2>1. m < n \/ n < m
    OBVIOUS
  <2> QED BY <1>2, <2>1
<1> QED BY <1>1, <1>3 DEF OperandsRead

(* A name of the emitter is in one row. *)
LEMMA RowIs ==
  ASSUME NEW i, i.name \in Names
  PROVE  \E n \in 1 .. 6 : i.name \in Emitters[n] /\ OperandsRead(i) = n - 1
BY ReadIs DEF Names

(* The operands that a form gives are those that the emitter reads. *)
LEMMA Enough ==
  ASSUME NEW i, NEW w, Form(i, w), i.name \in Names
  PROVE  OperandsRead(i) <= Len(i.ops)
<1> USE DEF SAImm, SAB, ASB
<1>1. PICK n \in 1 .. 6 : i.name \in Emitters[n] /\ OperandsRead(i) = n - 1
  BY RowIs
<1>2. /\ Len(<<>>) = 0
      /\ \A a : Len(<<a>>) = 1
      /\ \A a, b : Len(<<a, b>>) = 2
      /\ \A a, b, c : Len(<<a, b, c>>) = 3
      /\ \A a, b, c, d : Len(<<a, b, c, d>>) = 4
      /\ \A a, b, c, d, e : Len(<<a, b, c, d, e>>) = 5
  OBVIOUS
<1>3. /\ i.name \in {"nop", "dcbt", "dcbtst", "bclr", "bcctr", "bcctrl"} => n = 1
      /\ i.name \in {"b", "bl", "mfcr"} => n = 2
      /\ i.name \in {"mfspr", "mtspr", "neg", "addze"} => n = 3
      /\ i.name \in {"cmpw", "cmpwi", "cmpdi", "cmplw", "cmplwi", "cmpldi", "rldicl"} => n = 5
      /\ i.name \notin {"cmpw", "cmpwi", "cmpdi", "cmplw", "cmplwi", "cmpldi", "rldicl",
                        "rlwinm", "rlwimi"} => n <= 4
  BY <1>1 DEF Emitters
<1> DEFINE Reads(m, l) == n <= m + 1 /\ Len(i.ops) = l
<1>4. \A m, l \in Nat : Reads(m, l) /\ m <= l => OperandsRead(i) <= Len(i.ops)
  BY <1>1
<1>5. ImmediateForm(i, w) => Reads(0, 0) \/ Reads(3, 3) \/ Reads(4, 4)
  <2>1. ASSUME i.name = "nop", i.ops = <<>> PROVE Reads(0, 0)
    BY <1>2, <1>3, <2>1
  <2>2. ASSUME i.name \in {"tdi", "twi", "mulli", "subfic", "addic", "addi", "li", "addis", "lis"},
               i.ops = SAImm(w)
        PROVE  Reads(3, 3)
    BY <1>2, <1>3, <2>2
  <2>3. ASSUME i.name \in {"ori", "oris", "xori", "andi"}, i.ops = <<A(w), S(w), Imm(w)>>
        PROVE  Reads(3, 3)
    BY <1>2, <1>3, <2>3
  <2>4. ASSUME i.name \in {"cmpwi", "cmpdi", "cmplwi", "cmpldi"}, i.ops = <<Crf(w), L(w), A(w), Imm(w)>>
        PROVE  Reads(4, 4)
    BY <1>2, <1>3, <2>4
  <2> HIDE DEF Reads
  <2> QED BY <2>1, <2>2, <2>3, <2>4 DEF ImmediateForm
<1>6. BranchForm(i, w) => Reads(0, 2) \/ Reads(1, 1) \/ Reads(3, 3)
  BY <1>2, <1>3 DEF BranchForm
<1>7. RotateForm(i, w) => Reads(5, 5) \/ Reads(4, 4)
  BY <1>1, <1>2, <1>3 DEF RotateForm
<1>8. ExtendedForm(i, w) =>
        Reads(0, 2) \/ Reads(1, 1) \/ Reads(2, 2) \/ Reads(3, 3) \/ Reads(4, 4)
  BY <1>2, <1>3 DEF ExtendedForm
<1>9. LoadForm(i, w) => Reads(3, 3)
  BY <1>2, <1>3 DEF LoadForm
<1> HIDE DEF Reads
<1> QED BY <1>4, <1>5, <1>6, <1>7, <1>8, <1>9 DEF Form

(* The first operand of a form is the register that is written. *)
LEMMA Target ==
  ASSUME NEW i, NEW w, Form(i, w), i.name \in Names,
         OperandsRead(i) \in 2 .. 5, ~ ComparesOrBranches(i)
  PROVE  i.ops[1] = IF i.name \in TargetIsA THEN A(w) ELSE S(w)
<1> USE DEF SAImm, SAB, ASB
<1>1. PICK n \in 3 .. 6 : i.name \in Emitters[n]
  BY RowIs
<1>2. i.name \notin {"nop", "b", "bl", "mfcr", "dcbt", "dcbtst", "tdi", "twi", "bclr", "bcctr", "bcctrl"}
  BY <1>1 DEF Emitters
<1>3. i.name \notin {"mtspr", "bc", "cmpw", "cmpwi", "cmpdi", "cmplw", "cmplwi", "cmpldi"}
  BY DEF ComparesOrBranches, Emitters
<1>4. CASE ImmediateForm(i, w)
  BY <1>2, <1>3, <1>4 DEF ImmediateForm, TargetIsA
<1>5. CASE BranchForm(i, w)
  BY <1>2, <1>3, <1>5 DEF BranchForm, TargetIsA
<1>6. CASE RotateForm(i, w)
  BY <1>6 DEF RotateForm, TargetIsA
<1>7. CASE ExtendedForm(i, w)
  BY <1>2, <1>3, <1>7 DEF ExtendedForm, TargetIsA
<1>8. CASE LoadForm(i, w)
  BY <1>8 DEF LoadForm, TargetIsA
<1> QED BY <1>4, <1>5, <1>6, <1>7, <1>8 DEF Form
-----------------------------------------------------------------------------
(* Two words have the same bits at the places T. *)
Same(w, x, T) == \A b \in T : w[b + 1] = x[b + 1]

(* The bits of a field, counted from 0. *)
LEMMA AgreeSame ==
  ASSUME NEW w, NEW x, NEW s, NEW n, Inside(s, n), Agree(w, x, s, n)
  PROVE  Same(w, x, s .. s + n - 1)
<1> SUFFICES ASSUME NEW b \in s .. s + n - 1 PROVE w[b + 1] = x[b + 1]
  BY DEF Same
<1>1. b + 1 \in s + 1 .. s + n
  BY DEF Inside
<1> QED BY <1>1 DEF Agree

(* A field that is the same in two words has the same bits. *)
LEMMA FieldSame ==
  ASSUME NEW w \in Words32, NEW x \in Words32, NEW s, NEW n, Inside(s, n),
         GetAt(w, s, n) = GetAt(x, s, n), NEW t, t = s + n - 1
  PROVE  Same(w, x, s .. t)
BY FieldTells, AgreeSame

(* The same of the operands and the fields that choose an instruction. *)
LEMMA FieldsSame ==
  ASSUME NEW w \in Words32, NEW x \in Words32
  PROVE  /\ Op(w) = Op(x) => Same(w, x, 0 .. 5)
         /\ S(w) = S(x) => Same(w, x, 6 .. 10)
         /\ A(w) = A(x) => Same(w, x, 11 .. 15)
         /\ B(w) = B(x) => Same(w, x, 16 .. 20)
         /\ C(w) = C(x) => Same(w, x, 21 .. 25)
         /\ E(w) = E(x) => Same(w, x, 26 .. 30)
         /\ Imm(w) = Imm(x) => Same(w, x, 16 .. 31)
         /\ Ds(w) = Ds(x) => Same(w, x, 16 .. 29)
         /\ Crf(w) = Crf(x) => Same(w, x, 6 .. 8)
         /\ L(w) = L(x) => Same(w, x, 10 .. 10)
         /\ Spr(w) = Spr(x) => Same(w, x, 11 .. 20)
         /\ Li(w) = Li(x) => Same(w, x, 6 .. 29)
         /\ GetAt(w, 11, 1) = GetAt(x, 11, 1) => Same(w, x, 11 .. 11)
         /\ GetAt(w, 21, 1) = GetAt(x, 21, 1) => Same(w, x, 21 .. 21)
         /\ GetAt(w, 21, 10) = GetAt(x, 21, 10) => Same(w, x, 21 .. 30)
         /\ GetAt(w, 22, 9) = GetAt(x, 22, 9) => Same(w, x, 22 .. 30)
         /\ GetAt(w, 26, 1) = GetAt(x, 26, 1) => Same(w, x, 26 .. 26)
         /\ GetAt(w, 27, 3) = GetAt(x, 27, 3) => Same(w, x, 27 .. 29)
         /\ GetAt(w, 30, 1) = GetAt(x, 30, 1) => Same(w, x, 30 .. 30)
         /\ GetAt(w, 31, 1) = GetAt(x, 31, 1) => Same(w, x, 31 .. 31)
<1>1. \A s, n, t : Inside(s, n) /\ t = s + n - 1 /\ GetAt(w, s, n) = GetAt(x, s, n) => Same(w, x, s .. t)
  BY FieldSame
<1>2. /\ Inside(0, 6) /\ 5 = 0 + 6 - 1
      /\ Inside(6, 5) /\ 10 = 6 + 5 - 1
      /\ Inside(11, 5) /\ 15 = 11 + 5 - 1
      /\ Inside(16, 5) /\ 20 = 16 + 5 - 1
      /\ Inside(21, 5) /\ 25 = 21 + 5 - 1
      /\ Inside(26, 5) /\ 30 = 26 + 5 - 1
      /\ Inside(16, 16) /\ 31 = 16 + 16 - 1
      /\ Inside(16, 14) /\ 29 = 16 + 14 - 1
      /\ Inside(6, 3) /\ 8 = 6 + 3 - 1
      /\ Inside(10, 1) /\ 10 = 10 + 1 - 1
  BY DEF Inside
<1>3. /\ Inside(11, 10) /\ 20 = 11 + 10 - 1
      /\ Inside(6, 24) /\ 29 = 6 + 24 - 1
      /\ Inside(11, 1) /\ 11 = 11 + 1 - 1
      /\ Inside(21, 1) /\ 21 = 21 + 1 - 1
      /\ Inside(21, 10) /\ 30 = 21 + 10 - 1
      /\ Inside(22, 9) /\ 30 = 22 + 9 - 1
      /\ Inside(26, 1) /\ 26 = 26 + 1 - 1
      /\ Inside(27, 3) /\ 29 = 27 + 3 - 1
      /\ Inside(30, 1) /\ 30 = 30 + 1 - 1
      /\ Inside(31, 1) /\ 31 = 31 + 1 - 1
  BY DEF Inside
<1>4. Li(w) = Li(x) => Same(w, x, 6 .. 29)
  BY <1>1, <1>3, DisplacementTells
<1>5. /\ Op(w) = Op(x) => Same(w, x, 0 .. 5)
      /\ S(w) = S(x) => Same(w, x, 6 .. 10)
      /\ A(w) = A(x) => Same(w, x, 11 .. 15)
      /\ B(w) = B(x) => Same(w, x, 16 .. 20)
      /\ C(w) = C(x) => Same(w, x, 21 .. 25)
  BY <1>1, <1>2 DEF Op, S, A, B, C
<1>6. /\ E(w) = E(x) => Same(w, x, 26 .. 30)
      /\ Imm(w) = Imm(x) => Same(w, x, 16 .. 31)
      /\ Ds(w) = Ds(x) => Same(w, x, 16 .. 29)
      /\ Crf(w) = Crf(x) => Same(w, x, 6 .. 8)
      /\ L(w) = L(x) => Same(w, x, 10 .. 10)
      /\ Spr(w) = Spr(x) => Same(w, x, 11 .. 20)
  BY <1>1, <1>2, <1>3 DEF E, Imm, Ds, Crf, L, Spr
<1>7. /\ GetAt(w, 11, 1) = GetAt(x, 11, 1) => Same(w, x, 11 .. 11)
      /\ GetAt(w, 21, 1) = GetAt(x, 21, 1) => Same(w, x, 21 .. 21)
      /\ GetAt(w, 21, 10) = GetAt(x, 21, 10) => Same(w, x, 21 .. 30)
      /\ GetAt(w, 22, 9) = GetAt(x, 22, 9) => Same(w, x, 22 .. 30)
      /\ GetAt(w, 26, 1) = GetAt(x, 26, 1) => Same(w, x, 26 .. 26)
      /\ GetAt(w, 27, 3) = GetAt(x, 27, 3) => Same(w, x, 27 .. 29)
      /\ GetAt(w, 30, 1) = GetAt(x, 30, 1) => Same(w, x, 30 .. 30)
      /\ GetAt(w, 31, 1) = GetAt(x, 31, 1) => Same(w, x, 31 .. 31)
  BY <1>1, <1>3
<1> QED BY <1>4, <1>5, <1>6, <1>7

(* The bits that are added up or turned into a suffix. *)
LEMMA LastSame ==
  ASSUME NEW w \in Words32, NEW x \in Words32
  PROVE  /\ Last2(w) = Last2(x) => Same(w, x, 30 .. 31)
         /\ (lk(w) <=> lk(x)) => Same(w, x, 31 .. 31)
         /\ Rc(w) = Rc(x) => Same(w, x, 31 .. 31)
         /\ OeRc(w) = OeRc(x) => Same(w, x, 21 .. 21) /\ Same(w, x, 31 .. 31)
<1> DEFINE a(y) == GetAt(y, 21, 1)
           b(y) == GetAt(y, 30, 1)
           c(y) == GetAt(y, 31, 1)
<1>1. Inside(21, 1) /\ Inside(30, 1) /\ Inside(31, 1)
  BY DEF Inside
<1>2. /\ a(w) \in {0, 1} /\ a(x) \in {0, 1}
      /\ b(w) \in {0, 1} /\ b(x) \in {0, 1}
      /\ c(w) \in {0, 1} /\ c(x) \in {0, 1}
  BY <1>1, OneBit
<1>3. /\ a(w) = a(x) => Same(w, x, 21 .. 21)
      /\ b(w) = b(x) => Same(w, x, 30 .. 30)
      /\ c(w) = c(x) => Same(w, x, 31 .. 31)
  BY FieldsSame
<1>4. /\ \A y : Last2(y) = 2 * b(y) + c(y)
      /\ \A y : lk(y) <=> c(y) = 1
      /\ \A y : OeRc(y) = <<"none", "RC", "OE", "OERC">>[2 * a(y) + c(y) + 1]
  BY DEF Last2, lk, OeRc
<1> HIDE DEF a, b, c
<1>5. Last2(w) = Last2(x) => b(w) = b(x) /\ c(w) = c(x)
  BY <1>2, <1>4
<1>6. (lk(w) <=> lk(x)) => c(w) = c(x)
  BY <1>2, <1>4
<1>7. Rc(w) = Rc(x) => c(w) = c(x)
  BY <1>6 DEF Rc
<1>8. OeRc(w) = OeRc(x) => a(w) = a(x) /\ c(w) = c(x)
  <2>1. \A p, q \in 1 .. 4 :
          <<"none", "RC", "OE", "OERC">>[p] = <<"none", "RC", "OE", "OERC">>[q] => p = q
    OBVIOUS
  <2>2. 2 * a(w) + c(w) + 1 \in 1 .. 4 /\ 2 * a(x) + c(x) + 1 \in 1 .. 4
    BY <1>2
  <2>3. OeRc(w) = OeRc(x) => 2 * a(w) + c(w) + 1 = 2 * a(x) + c(x) + 1
    BY <1>4, <2>1, <2>2
  <2> QED BY <1>2, <2>3
<1>9. Same(w, x, 30 .. 30) /\ Same(w, x, 31 .. 31) => Same(w, x, 30 .. 31)
  <2>1. \A d \in 30 .. 31 : d \in 30 .. 30 \/ d \in 31 .. 31
    OBVIOUS
  <2> QED BY <2>1 DEF Same
<1> QED BY <1>3, <1>5, <1>6, <1>7, <1>8, <1>9
-----------------------------------------------------------------------------
(* The same places, and fewer of them. *)
LEMMA SameSubset ==
  ASSUME NEW w, NEW x, NEW T, NEW U, Same(w, x, T), U \subseteq T
  PROVE  Same(w, x, U)
BY DEF Same

(* Of the instructions with an immediate operand. *)
LEMMA ImmediateSame ==
  ASSUME NEW w \in Words32, NEW x \in Words32, NEW i, ImmediateForm(i, w), ImmediateForm(i, x)
  PROVE  Same(w, x, (0 .. 31) \ Reserved(i.name))
<1>1. Op(w) = Op(x)
  BY DEF ImmediateForm, Is
<1>2. Same(w, x, 0 .. 5)
  BY <1>1, FieldsSame
<1>3. CASE i.name = "nop"
  <2>1. Reserved(i.name) = 6 .. 31
    BY <1>3 DEF Reserved
  <2>2. (0 .. 31) \ (6 .. 31) \subseteq 0 .. 5
    OBVIOUS
  <2> QED BY <1>2, <2>1, <2>2, SameSubset
<1>4. CASE i.name \in {"cmplwi", "cmpldi", "cmpwi", "cmpdi"}
  <2>1. /\ i.ops = <<Crf(w), L(w), A(w), Imm(w)>>
        /\ i.ops = <<Crf(x), L(x), A(x), Imm(x)>>
    BY <1>4 DEF ImmediateForm
  <2>2. Crf(w) = Crf(x) /\ L(w) = L(x) /\ A(w) = A(x) /\ Imm(w) = Imm(x)
    BY <2>1
  <2>3. Same(w, x, 6 .. 8) /\ Same(w, x, 10 .. 10) /\ Same(w, x, 11 .. 15) /\ Same(w, x, 16 .. 31)
    BY <2>2, FieldsSame
  <2>4. Reserved(i.name) = {9}
    BY <1>4 DEF Reserved
  <2>5. \A b \in (0 .. 31) \ {9} :
          b \in 0 .. 5 \/ b \in 6 .. 8 \/ b \in 10 .. 10 \/ b \in 11 .. 15 \/ b \in 16 .. 31
    OBVIOUS
  <2> QED BY <1>2, <2>3, <2>4, <2>5 DEF Same
<1>5. CASE i.name \in {"tdi", "twi", "mulli", "subfic", "addic", "addi", "li", "addis", "lis",
                       "ori", "oris", "xori", "andi"}
  <2>1. \/ i.ops = SAImm(w) /\ i.ops = SAImm(x)
        \/ i.ops = <<A(w), S(w), Imm(w)>> /\ i.ops = <<A(x), S(x), Imm(x)>>
    BY <1>5 DEF ImmediateForm
  <2>2. S(w) = S(x) /\ A(w) = A(x) /\ Imm(w) = Imm(x)
    BY <2>1 DEF SAImm
  <2>3. Same(w, x, 6 .. 10) /\ Same(w, x, 11 .. 15) /\ Same(w, x, 16 .. 31)
    BY <2>2, FieldsSame
  <2>4. \A b \in 0 .. 31 : b \in 0 .. 5 \/ b \in 6 .. 10 \/ b \in 11 .. 15 \/ b \in 16 .. 31
    OBVIOUS
  <2> QED BY <1>2, <2>3, <2>4 DEF Same
<1> QED BY <1>3, <1>4, <1>5 DEF ImmediateForm

(* Of the branches. *)
LEMMA BranchSame ==
  ASSUME NEW w \in Words32, NEW x \in Words32, NEW i, BranchForm(i, w), BranchForm(i, x)
  PROVE  Same(w, x, (0 .. 31) \ Reserved(i.name))
<1>1. Op(w) = Op(x)
  BY DEF BranchForm
<1>2. Same(w, x, 0 .. 5)
  BY <1>1, FieldsSame
<1>3. CASE i.name = "bc"
  <2>1. i.ops = <<S(w), A(w), Ds(w)>> /\ i.ops = <<S(x), A(x), Ds(x)>> /\ Last2(w) = Last2(x)
    BY <1>3 DEF BranchForm
  <2>2. S(w) = S(x) /\ A(w) = A(x) /\ Ds(w) = Ds(x)
    BY <2>1
  <2>3. Same(w, x, 6 .. 10) /\ Same(w, x, 11 .. 15) /\ Same(w, x, 16 .. 29) /\ Same(w, x, 30 .. 31)
    BY <2>1, <2>2, FieldsSame, LastSame
  <2>4. \A b \in 0 .. 31 :
          b \in 0 .. 5 \/ b \in 6 .. 10 \/ b \in 11 .. 15 \/ b \in 16 .. 29 \/ b \in 30 .. 31
    OBVIOUS
  <2> QED BY <1>2, <2>3, <2>4 DEF Same
<1>4. CASE i.name \in {"b", "bl"}
  <2>1. i.ops = <<Li(w)>> /\ i.ops = <<Li(x)>> /\ Last2(w) = Last2(x)
    BY <1>4 DEF BranchForm
  <2>2. Li(w) = Li(x)
    BY <2>1
  <2>3. Same(w, x, 6 .. 29) /\ Same(w, x, 30 .. 31)
    BY <2>1, <2>2, FieldsSame, LastSame
  <2>4. \A b \in 0 .. 31 : b \in 0 .. 5 \/ b \in 6 .. 29 \/ b \in 30 .. 31
    OBVIOUS
  <2> QED BY <1>2, <2>3, <2>4 DEF Same
<1>5. CASE i.name \in {"bclr", "bcctr", "bcctrl"}
  <2>1. /\ i.ops = <<S(w), A(w)>> /\ i.ops = <<S(x), A(x)>>
        /\ GetAt(w, 21, 10) = GetAt(x, 21, 10) /\ (lk(w) <=> lk(x))
    BY <1>5 DEF BranchForm
  <2>2. S(w) = S(x) /\ A(w) = A(x)
    BY <2>1
  <2>3. Same(w, x, 6 .. 10) /\ Same(w, x, 11 .. 15) /\ Same(w, x, 21 .. 30) /\ Same(w, x, 31 .. 31)
    BY <2>1, <2>2, FieldsSame, LastSame
  <2>4. Reserved(i.name) = 16 .. 20
    BY <1>5 DEF Reserved
  <2>5. \A b \in (0 .. 31) \ (16 .. 20) :
          b \in 0 .. 5 \/ b \in 6 .. 10 \/ b \in 11 .. 15 \/ b \in 21 .. 30 \/ b \in 31 .. 31
    OBVIOUS
  <2> QED BY <1>2, <2>3, <2>4, <2>5 DEF Same
<1> QED BY <1>3, <1>4, <1>5 DEF BranchForm

(* Of the rotates. *)
LEMMA RotateSame ==
  ASSUME NEW w \in Words32, NEW x \in Words32, NEW i, RotateForm(i, w), RotateForm(i, x)
  PROVE  Same(w, x, (0 .. 31) \ Reserved(i.name))
<1>1. Op(w) = Op(x) /\ Rc(w) = Rc(x)
  BY DEF RotateForm, Is
<1>2. Same(w, x, 0 .. 5) /\ Same(w, x, 31 .. 31)
  BY <1>1, FieldsSame, LastSame
<1>3. CASE i.name \in {"rlwinm", "rlwimi"}
  <2>1. /\ i.ops = <<A(w), S(w), B(w), C(w), E(w)>>
        /\ i.ops = <<A(x), S(x), B(x), C(x), E(x)>>
    BY <1>3 DEF RotateForm
  <2>2. A(w) = A(x) /\ S(w) = S(x) /\ B(w) = B(x) /\ C(w) = C(x) /\ E(w) = E(x)
    BY <2>1
  <2>3. /\ Same(w, x, 6 .. 10) /\ Same(w, x, 11 .. 15) /\ Same(w, x, 16 .. 20)
        /\ Same(w, x, 21 .. 25) /\ Same(w, x, 26 .. 30)
    BY <2>2, FieldsSame
  <2>4. \A b \in 0 .. 31 : \/ b \in 0 .. 5 \/ b \in 6 .. 10 \/ b \in 11 .. 15 \/ b \in 16 .. 20
                           \/ b \in 21 .. 25 \/ b \in 26 .. 30 \/ b \in 31 .. 31
    OBVIOUS
  <2> QED BY <1>2, <2>3, <2>4 DEF Same
<1>4. CASE i.name = "rldicl"
  <2> DEFINE hi(y) == GetAt(y, 30, 1)
             mb(y) == GetAt(y, 26, 1)
  <2>1. /\ i.ops = <<A(w), S(w), B(w) + 32 * hi(w), C(w) + 32 * mb(w)>>
        /\ i.ops = <<A(x), S(x), B(x) + 32 * hi(x), C(x) + 32 * mb(x)>>
        /\ GetAt(w, 27, 3) = GetAt(x, 27, 3)
    BY <1>4 DEF RotateForm
  <2>2. /\ B(w) \in 0 .. 31 /\ B(x) \in 0 .. 31 /\ C(w) \in 0 .. 31 /\ C(x) \in 0 .. 31
    <3>1. Inside(16, 5) /\ Inside(21, 5)
      BY DEF Inside
    <3> QED BY <3>1, FiveBits DEF B, C
  <2>3. hi(w) \in {0, 1} /\ hi(x) \in {0, 1} /\ mb(w) \in {0, 1} /\ mb(x) \in {0, 1}
    <3>1. Inside(26, 1) /\ Inside(30, 1)
      BY DEF Inside
    <3> QED BY <3>1, OneBit
  <2>4. A(w) = A(x) /\ S(w) = S(x) /\ B(w) = B(x) /\ hi(w) = hi(x) /\ C(w) = C(x) /\ mb(w) = mb(x)
    <3> HIDE DEF hi, mb
    <3>1. /\ A(w) = A(x) /\ S(w) = S(x) /\ B(w) + 32 * hi(w) = B(x) + 32 * hi(x)
          /\ C(w) + 32 * mb(w) = C(x) + 32 * mb(x)
      BY <2>1
    <3> QED BY <2>2, <2>3, <3>1
  <2>5. /\ Same(w, x, 6 .. 10) /\ Same(w, x, 11 .. 15) /\ Same(w, x, 16 .. 20)
        /\ Same(w, x, 21 .. 25) /\ Same(w, x, 26 .. 26) /\ Same(w, x, 27 .. 29)
        /\ Same(w, x, 30 .. 30)
    BY <2>1, <2>4, FieldsSame
  <2>6. \A b \in 0 .. 31 : \/ b \in 0 .. 5 \/ b \in 6 .. 10 \/ b \in 11 .. 15 \/ b \in 16 .. 20
                           \/ b \in 21 .. 25 \/ b \in 26 .. 26 \/ b \in 27 .. 29 \/ b \in 30 .. 30
                           \/ b \in 31 .. 31
    OBVIOUS
  <2> QED BY <1>2, <2>5, <2>6 DEF Same
<1> QED BY <1>3, <1>4 DEF RotateForm
-----------------------------------------------------------------------------
LEMMA ExtendedSame ==
  ASSUME NEW w \in Words32, NEW x \in Words32, NEW i, ExtendedForm(i, w), ExtendedForm(i, x)
  PROVE  Same(w, x, (0 .. 31) \ Reserved(i.name))
<1> DEFINE ten(y) == GetAt(y, 21, 10)
           nine(y) == GetAt(y, 22, 9)
<1>1. Op(w) = Op(x)
  BY DEF ExtendedForm
<1>2. Same(w, x, 0 .. 5)
  BY <1>1, FieldsSame
<1>3. CASE i.name \in {"stwx", "lwzx", "sthx", "lhzx", "lbzx"}
  <2>1. i.ops = SAB(w) /\ i.ops = SAB(x) /\ ten(w) = ten(x)
    BY <1>3 DEF ExtendedForm, Is
  <2>2. S(w) = S(x) /\ A(w) = A(x) /\ B(w) = B(x)
    BY <2>1 DEF SAB
  <2>3. Same(w, x, 6 .. 10) /\ Same(w, x, 11 .. 15) /\ Same(w, x, 16 .. 20) /\ Same(w, x, 21 .. 30)
    BY <2>1, <2>2, FieldsSame
  <2>4. Reserved(i.name) = {31}
    BY <1>3 DEF Reserved
  <2>5. \A b \in (0 .. 31) \ {31} :
          b \in 0 .. 5 \/ b \in 6 .. 10 \/ b \in 11 .. 15 \/ b \in 16 .. 20 \/ b \in 21 .. 30
    OBVIOUS
  <2> QED BY <1>2, <2>3, <2>4, <2>5 DEF Same
<1>4. CASE i.name \in {"extsb", "extsh", "extsw", "cntlzw"}
  <2>1. /\ i.ops = <<A(w), S(w), S(w)>> /\ i.ops = <<A(x), S(x), S(x)>>
        /\ ten(w) = ten(x) /\ Rc(w) = Rc(x)
    BY <1>4 DEF ExtendedForm, Is
  <2>2. S(w) = S(x) /\ A(w) = A(x)
    BY <2>1
  <2>3. Same(w, x, 6 .. 10) /\ Same(w, x, 11 .. 15) /\ Same(w, x, 21 .. 30) /\ Same(w, x, 31 .. 31)
    BY <2>1, <2>2, FieldsSame, LastSame
  <2>4. Reserved(i.name) = 16 .. 20
    BY <1>4 DEF Reserved
  <2>5. \A b \in (0 .. 31) \ (16 .. 20) :
          b \in 0 .. 5 \/ b \in 6 .. 10 \/ b \in 11 .. 15 \/ b \in 21 .. 30 \/ b \in 31 .. 31
    OBVIOUS
  <2> QED BY <1>2, <2>3, <2>4, <2>5 DEF Same
<1>5. CASE i.name \in {"slw", "and", "or", "xor", "nor", "andc", "srawi"}
  <2>1. i.ops = ASB(w) /\ i.ops = ASB(x) /\ ten(w) = ten(x) /\ Rc(w) = Rc(x)
    BY <1>5 DEF ExtendedForm, Is
  <2>2. S(w) = S(x) /\ A(w) = A(x) /\ B(w) = B(x)
    BY <2>1 DEF ASB
  <2>3. /\ Same(w, x, 6 .. 10) /\ Same(w, x, 11 .. 15) /\ Same(w, x, 16 .. 20)
        /\ Same(w, x, 21 .. 30) /\ Same(w, x, 31 .. 31)
    BY <2>1, <2>2, FieldsSame, LastSame
  <2>4. \A b \in 0 .. 31 : \/ b \in 0 .. 5 \/ b \in 6 .. 10 \/ b \in 11 .. 15 \/ b \in 16 .. 20
                           \/ b \in 21 .. 30 \/ b \in 31 .. 31
    OBVIOUS
  <2> QED BY <1>2, <2>3, <2>4 DEF Same
<1>6. CASE i.name \in {"dcbt", "dcbtst"}
  <2>1. i.ops = <<A(w), B(w)>> /\ i.ops = <<A(x), B(x)>> /\ ten(w) = ten(x)
    BY <1>6 DEF ExtendedForm, Is
  <2>2. A(w) = A(x) /\ B(w) = B(x)
    BY <2>1
  <2>3. Same(w, x, 11 .. 15) /\ Same(w, x, 16 .. 20) /\ Same(w, x, 21 .. 30)
    BY <2>1, <2>2, FieldsSame
  <2>4. Reserved(i.name) = (6 .. 10) \cup {31}
    BY <1>6 DEF Reserved
  <2>5. \A b \in (0 .. 31) \ ((6 .. 10) \cup {31}) :
          b \in 0 .. 5 \/ b \in 11 .. 15 \/ b \in 16 .. 20 \/ b \in 21 .. 30
    OBVIOUS
  <2> QED BY <1>2, <2>3, <2>4, <2>5 DEF Same
<1>7. CASE i.name \in {"mfspr", "mtspr"}
  <2>1. /\ \/ i.ops = <<S(w), Spr(w)>> /\ i.ops = <<S(x), Spr(x)>>
           \/ i.ops = <<Spr(w), S(w)>> /\ i.ops = <<Spr(x), S(x)>>
        /\ ten(w) = ten(x)
    BY <1>7 DEF ExtendedForm
  <2>2. S(w) = S(x) /\ Spr(w) = Spr(x)
    BY <2>1
  <2>3. Same(w, x, 6 .. 10) /\ Same(w, x, 11 .. 20) /\ Same(w, x, 21 .. 30)
    BY <2>1, <2>2, FieldsSame
  <2>4. Reserved(i.name) = {31}
    BY <1>7 DEF Reserved
  <2>5. \A b \in (0 .. 31) \ {31} : b \in 0 .. 5 \/ b \in 6 .. 10 \/ b \in 11 .. 20 \/ b \in 21 .. 30
    OBVIOUS
  <2> QED BY <1>2, <2>3, <2>4, <2>5 DEF Same
<1>8. CASE i.name = "mfcr"
  <2>1. /\ i.ops = <<S(w)>> /\ i.ops = <<S(x)>> /\ ten(w) = ten(x)
        /\ GetAt(w, 11, 1) = GetAt(x, 11, 1)
    BY <1>8 DEF ExtendedForm
  <2>2. S(w) = S(x)
    BY <2>1
  <2>3. Same(w, x, 6 .. 10) /\ Same(w, x, 11 .. 11) /\ Same(w, x, 21 .. 30)
    BY <2>1, <2>2, FieldsSame
  <2>4. Reserved(i.name) = (12 .. 20) \cup {31}
    BY <1>8 DEF Reserved
  <2>5. \A b \in (0 .. 31) \ ((12 .. 20) \cup {31}) :
          b \in 0 .. 5 \/ b \in 6 .. 10 \/ b \in 11 .. 11 \/ b \in 21 .. 30
    OBVIOUS
  <2> QED BY <1>2, <2>3, <2>4, <2>5 DEF Same
<1>9. CASE i.name \in {"cmpw", "cmplw"}
  <2>1. /\ i.ops = <<Crf(w), L(w), A(w), B(w)>> /\ i.ops = <<Crf(x), L(x), A(x), B(x)>>
        /\ ten(w) = ten(x)
    BY <1>9 DEF ExtendedForm
  <2>2. Crf(w) = Crf(x) /\ L(w) = L(x) /\ A(w) = A(x) /\ B(w) = B(x)
    BY <2>1
  <2>3. /\ Same(w, x, 6 .. 8) /\ Same(w, x, 10 .. 10) /\ Same(w, x, 11 .. 15)
        /\ Same(w, x, 16 .. 20) /\ Same(w, x, 21 .. 30)
    BY <2>1, <2>2, FieldsSame
  <2>4. Reserved(i.name) = {9, 31}
    BY <1>9 DEF Reserved
  <2>5. \A b \in (0 .. 31) \ {9, 31} : \/ b \in 0 .. 5 \/ b \in 6 .. 8 \/ b \in 10 .. 10
                                       \/ b \in 11 .. 15 \/ b \in 16 .. 20 \/ b \in 21 .. 30
    OBVIOUS
  <2> QED BY <1>2, <2>3, <2>4, <2>5 DEF Same
<1>10. CASE i.name \in {"add", "adde", "subf", "subfe", "mullw", "mulld", "divw", "divwu", "divdu"}
  <2>1. i.ops = SAB(w) /\ i.ops = SAB(x) /\ nine(w) = nine(x) /\ OeRc(w) = OeRc(x)
    BY <1>10 DEF ExtendedForm, Is
  <2>2. S(w) = S(x) /\ A(w) = A(x) /\ B(w) = B(x)
    BY <2>1 DEF SAB
  <2>3. /\ Same(w, x, 6 .. 10) /\ Same(w, x, 11 .. 15) /\ Same(w, x, 16 .. 20)
        /\ Same(w, x, 21 .. 21) /\ Same(w, x, 22 .. 30) /\ Same(w, x, 31 .. 31)
    BY <2>1, <2>2, FieldsSame, LastSame
  <2>4. \A b \in 0 .. 31 : \/ b \in 0 .. 5 \/ b \in 6 .. 10 \/ b \in 11 .. 15 \/ b \in 16 .. 20
                           \/ b \in 21 .. 21 \/ b \in 22 .. 30 \/ b \in 31 .. 31
    OBVIOUS
  <2> QED BY <1>2, <2>3, <2>4 DEF Same
<1>11. CASE i.name \in {"neg", "addze"}
  <2>1. i.ops = <<S(w), A(w)>> /\ i.ops = <<S(x), A(x)>> /\ nine(w) = nine(x) /\ OeRc(w) = OeRc(x)
    BY <1>11 DEF ExtendedForm, Is
  <2>2. S(w) = S(x) /\ A(w) = A(x)
    BY <2>1
  <2>3. /\ Same(w, x, 6 .. 10) /\ Same(w, x, 11 .. 15)
        /\ Same(w, x, 21 .. 21) /\ Same(w, x, 22 .. 30) /\ Same(w, x, 31 .. 31)
    BY <2>1, <2>2, FieldsSame, LastSame
  <2>4. Reserved(i.name) = 16 .. 20
    BY <1>11 DEF Reserved
  <2>5. \A b \in (0 .. 31) \ (16 .. 20) :
          \/ b \in 0 .. 5 \/ b \in 6 .. 10 \/ b \in 11 .. 15
          \/ b \in 21 .. 21 \/ b \in 22 .. 30 \/ b \in 31 .. 31
    OBVIOUS
  <2> QED BY <1>2, <2>3, <2>4, <2>5 DEF Same
<1> QED BY <1>3, <1>4, <1>5, <1>6, <1>7, <1>8, <1>9, <1>10, <1>11 DEF ExtendedForm

(* Of the loads and stores with a displacement. *)
LEMMA LoadSame ==
  ASSUME NEW w \in Words32, NEW x \in Words32, NEW i, LoadForm(i, w), LoadForm(i, x)
  PROVE  Same(w, x, (0 .. 31) \ Reserved(i.name))
<1>1. Op(w) = Op(x)
  BY DEF LoadForm, Is
<1>2. Same(w, x, 0 .. 5)
  BY <1>1, FieldsSame
<1>3. CASE i.name \in {"ld", "ldu", "lwa", "std", "stdu"}
  <2>1. /\ i.ops = <<S(w), Ds(w), A(w)>> /\ i.ops = <<S(x), Ds(x), A(x)>>
        /\ Last2(w) = Last2(x)
    BY <1>3 DEF LoadForm
  <2>2. S(w) = S(x) /\ Ds(w) = Ds(x) /\ A(w) = A(x)
    BY <2>1
  <2>3. Same(w, x, 6 .. 10) /\ Same(w, x, 11 .. 15) /\ Same(w, x, 16 .. 29) /\ Same(w, x, 30 .. 31)
    BY <2>1, <2>2, FieldsSame, LastSame
  <2>4. \A b \in 0 .. 31 :
          b \in 0 .. 5 \/ b \in 6 .. 10 \/ b \in 11 .. 15 \/ b \in 16 .. 29 \/ b \in 30 .. 31
    OBVIOUS
  <2> QED BY <1>2, <2>3, <2>4 DEF Same
<1>4. CASE i.name \notin {"ld", "ldu", "lwa", "std", "stdu"}
  <2>1. i.ops = <<S(w), Imm(w), A(w)>> /\ i.ops = <<S(x), Imm(x), A(x)>>
    BY <1>4 DEF LoadForm
  <2>2. S(w) = S(x) /\ Imm(w) = Imm(x) /\ A(w) = A(x)
    BY <2>1
  <2>3. Same(w, x, 6 .. 10) /\ Same(w, x, 11 .. 15) /\ Same(w, x, 16 .. 31)
    BY <2>2, FieldsSame
  <2>4. \A b \in 0 .. 31 : b \in 0 .. 5 \/ b \in 6 .. 10 \/ b \in 11 .. 15 \/ b \in 16 .. 31
    OBVIOUS
  <2> QED BY <1>2, <2>3, <2>4 DEF Same
<1> QED BY <1>3, <1>4

(* Each name has one form. *)
LEMMA OneForm ==
  ASSUME NEW i, NEW w, NEW x, Form(i, w), Form(i, x)
  PROVE  \/ ImmediateForm(i, w) /\ ImmediateForm(i, x)
         \/ BranchForm(i, w) /\ BranchForm(i, x)
         \/ RotateForm(i, w) /\ RotateForm(i, x)
         \/ ExtendedForm(i, w) /\ ExtendedForm(i, x)
         \/ LoadForm(i, w) /\ LoadForm(i, x)
<1> DEFINE imm == {"nop", "tdi", "twi", "mulli", "subfic", "addic", "addi", "li", "addis", "lis",
                   "ori", "oris", "xori", "andi", "cmplwi", "cmpldi", "cmpwi", "cmpdi"}
           branch == {"bc", "b", "bl", "bclr", "bcctr", "bcctrl"}
           rotate == {"rlwinm", "rlwimi", "rldicl"}
           ext == {"stwx", "lwzx", "sthx", "lhzx", "lbzx", "extsb", "extsh", "extsw", "cntlzw",
                   "slw", "and", "or", "xor", "nor", "andc", "srawi", "dcbt", "dcbtst", "mfspr",
                   "mtspr", "mfcr", "cmpw", "cmplw", "add", "adde", "subf", "subfe", "mullw",
                   "mulld", "divw", "divwu", "divdu", "neg", "addze"}
           load == {"lwz", "lwzu", "lbz", "lbzu", "stw", "stwu", "stb", "stbu", "lhz", "lhzu",
                    "lha", "sth", "sthu", "ld", "ldu", "lwa", "std", "stdu"}
<1>1. \A y : ImmediateForm(i, y) => i.name \in imm
  BY DEF ImmediateForm
<1>2. \A y : BranchForm(i, y) => i.name \in branch
  BY DEF BranchForm
<1>3. \A y : RotateForm(i, y) => i.name \in rotate
  BY DEF RotateForm
<1>4. \A y : ExtendedForm(i, y) => i.name \in ext
  BY DEF ExtendedForm
<1>5. \A y : LoadForm(i, y) => i.name \in load
  BY DEF LoadForm
<1>6. /\ i.name \in imm => i.name \notin branch /\ i.name \notin rotate
      /\ i.name \in imm => i.name \notin ext /\ i.name \notin load
      /\ i.name \in branch => i.name \notin rotate /\ i.name \notin ext /\ i.name \notin load
      /\ i.name \in rotate => i.name \notin ext /\ i.name \notin load
      /\ i.name \in ext => i.name \notin load
  OBVIOUS
<1> HIDE DEF imm, branch, rotate, ext, load
<1> QED BY <1>1, <1>2, <1>3, <1>4, <1>5, <1>6 DEF Form

(* Words that decode to the same instruction differ in reserved bits only. *)
LEMMA SameWord ==
  ASSUME NEW w \in Words32, NEW x \in Words32, NEW i, i.name \in Names,
         i \in DecodeInstruction(w), i \in DecodeInstruction(x)
  PROVE  Same(w, x, (0 .. 31) \ Reserved(i.name))
<1>1. Form(i, w) /\ Form(i, x)
  BY FormIs
<1> QED BY <1>1, OneForm, ImmediateSame, BranchSame, RotateSame, ExtendedSame, LoadSame

(* A bit that is not reserved tells two instructions apart. *)
LEMMA FlipTells ==
  ASSUME NEW w \in Words32, NEW i \in DecodeInstruction(w), i.name \in Names,
         NEW b \in (0 .. 31) \ Reserved(i.name)
  PROVE  DecodeInstruction(Flip(w, b)) # {i}
<1> SUFFICES ASSUME DecodeInstruction(Flip(w, b)) = {i} PROVE FALSE
  OBVIOUS
<1>1. b + 1 \in 1 .. 32 /\ w[b + 1] \in {0, 1} /\ 1 - w[b + 1] \in {0, 1} /\ 1 - w[b + 1] # w[b + 1]
  BY DEF Words32
<1>2. Flip(w, b) \in Words32 /\ Flip(w, b)[b + 1] = 1 - w[b + 1]
  BY <1>1 DEF Flip, Words32
<1>3. w[b + 1] = Flip(w, b)[b + 1]
  BY <1>2, SameWord DEF Same
<1> QED BY <1>1, <1>2, <1>3
-----------------------------------------------------------------------------
(* The loops stand at word idx of section sec, and nothing at that place   *)
(* or behind it is in instrsList yet.                                      *)
Cursor ==
  /\ program \in Seq(Seq(Words32))
  /\ sec \in Nat \ {0} /\ idx \in Nat \ {0}
  /\ ret \in BOOLEAN

Ahead ==
  \A s \in DOMAIN program : \A k \in DOMAIN program[s] :
    s > sec \/ (s = sec /\ k >= idx) => <<s, k>> \notin DOMAIN instrsList

(* What the loops have passed is in instrsList, but for a section that     *)
(* failed; and ret tells whether one did.                                  *)
Begun ==
  sec \in DOMAIN program =>
    \A k \in DOMAIN program[sec] : k < idx => <<sec, k>> \in DOMAIN instrsList

Passed ==
  ret => \A s \in DOMAIN program : \A k \in DOMAIN program[s] :
           s < sec => <<s, k>> \in DOMAIN instrsList

Missed ==
  ~ ret => \E s \in DOMAIN program : \E k \in DOMAIN program[s] :
             s < sec /\ <<s, k>> \notin DOMAIN instrsList

Ended ==
  /\ pc = "flow" => sec > Len(program) /\ ret
  /\ pc = "failed" => ~ ret

(* Each entry of instrsList was decoded from the word at its place. *)
Entered ==
  \A at \in DOMAIN instrsList :
    \E s \in DOMAIN program : \E k \in DOMAIN program[s] :
      at = <<s, k>> /\ instrsList[at] \in DecodeInstruction(program[s][k])

IInv == Cursor /\ Ahead /\ Begun /\ Passed /\ Missed /\ Ended /\ Entered

(* The sections are counted from 1. *)
LEMMA SectionsCounted ==
  Cursor => Len(program) \in Nat /\ \A s \in DOMAIN program : s \in Nat /\ s <= Len(program)
<1> SUFFICES ASSUME Cursor
             PROVE  Len(program) \in Nat /\ \A s \in DOMAIN program : s \in Nat /\ s <= Len(program)
  OBVIOUS
<1>1. program \in Seq(Seq(Words32))
  BY DEF Cursor
<1> QED BY <1>1

(* An empty instrsList is as the loops want it in front of the first word. *)
LEMMA InitInv == Init => IInv
<1> SUFFICES ASSUME Init PROVE IInv
  OBVIOUS
<1>1. DOMAIN instrsList = {}
  BY DEF Init
<1>2. Cursor
  BY ProgramsAssumption DEF Init, Cursor
<1>3. Ahead /\ Begun /\ Passed /\ Missed /\ Ended /\ Entered
  BY <1>1, <1>2 DEF Init, Cursor, Ahead, Begun, Passed, Missed, Ended, Entered
<1> QED BY <1>2, <1>3 DEF IInv

(* A decoded word goes into its place and nowhere else. *)
LEMMA DecodeWordInv == IInv /\ DecodeWord => IInv'
<1> SUFFICES ASSUME IInv, DecodeWord PROVE IInv'
  OBVIOUS
<1>1. DOMAIN instrsList' = DOMAIN instrsList \cup {<<sec, idx>>}
  BY DEF DecodeWord
<1>2. idx' = idx + 1 /\ UNCHANGED <<program, sec, ret, pc>>
  BY DEF DecodeWord
<1>3. sec \in DOMAIN program /\ idx \in DOMAIN program[sec] /\ pc = "decode"
  BY DEF DecodeWord, InSection, IInv, Cursor
<1>4. \A s, k : <<s, k>> = <<sec, idx>> => s = sec /\ k = idx
  OBVIOUS
<1>5. Cursor'
  BY <1>2 DEF IInv, Cursor
<1>6. Ahead'
  BY <1>1, <1>2, <1>4 DEF IInv, Cursor, Ahead
<1>7. Begun'
  <2>1. \A k \in DOMAIN program[sec] : k \in Nat
    BY <1>3 DEF IInv, Cursor
  <2>2. \A k \in DOMAIN program[sec] : k < idx + 1 => k < idx \/ k = idx
    BY <2>1 DEF IInv, Cursor
  <2> QED BY <1>1, <1>2, <1>3, <2>2 DEF IInv, Begun
<1>8. Passed'
  BY <1>1, <1>2 DEF IInv, Passed
<1>9. Missed'
  <2> SUFFICES ASSUME ~ ret PROVE Missed'
    BY <1>2 DEF Missed
  <2>1. PICK s \in DOMAIN program : \E k \in DOMAIN program[s] :
               s < sec /\ <<s, k>> \notin DOMAIN instrsList
    BY DEF IInv, Missed
  <2>2. PICK k \in DOMAIN program[s] : s < sec /\ <<s, k>> \notin DOMAIN instrsList
    BY <2>1
  <2>3. s # sec
    BY <2>2 DEF IInv, Cursor
  <2>4. <<s, k>> \notin DOMAIN instrsList'
    BY <1>1, <1>4, <2>2, <2>3
  <2> QED BY <1>2, <2>2, <2>4 DEF Missed
<1>10. Ended'
  BY <1>2, <1>3 DEF Ended
<1>11. Entered'
  <2>1. PICK i \in DecodeInstruction(Here) :
          instrsList' = [at \in DOMAIN instrsList \cup {<<sec, idx>>} |->
                           IF at = <<sec, idx>> THEN i ELSE instrsList[at]]
    BY DEF DecodeWord
  <2> SUFFICES ASSUME NEW at \in DOMAIN instrsList'
               PROVE  \E s \in DOMAIN program : \E k \in DOMAIN program[s] :
                        at = <<s, k>> /\ instrsList'[at] \in DecodeInstruction(program[s][k])
    BY <1>2 DEF Entered
  <2>2. CASE at = <<sec, idx>>
    <3>1. instrsList'[at] \in DecodeInstruction(program[sec][idx])
      BY <2>1, <2>2 DEF Here
    <3> QED BY <1>3, <2>2, <3>1
  <2>3. CASE at # <<sec, idx>>
    <3>1. at \in DOMAIN instrsList /\ instrsList'[at] = instrsList[at]
      BY <1>1, <2>1, <2>3
    <3> QED BY <3>1 DEF IInv, Entered
  <2> QED BY <2>2, <2>3
<1> QED BY <1>5, <1>6, <1>7, <1>8, <1>9, <1>10, <1>11 DEF IInv

(* The first word that fails is missing for good: the loops go on behind   *)
(* its section.                                                            *)
LEMMA FailsInv == IInv /\ Fails => IInv'
<1> SUFFICES ASSUME IInv, Fails PROVE IInv'
  OBVIOUS
<1>1. sec' = sec + 1 /\ idx' = 1 /\ ret' = FALSE /\ UNCHANGED <<program, instrsList, pc>>
  BY DEF Fails, NextSection, Ret
<1>2. sec \in DOMAIN program /\ idx \in DOMAIN program[sec] /\ pc = "decode"
  BY DEF Fails, InSection, IInv, Cursor
<1>3. <<sec, idx>> \notin DOMAIN instrsList
  BY <1>2 DEF IInv, Ahead, Cursor
<1>4. Cursor'
  <2>1. sec + 1 \in Nat \ {0} /\ 1 \in Nat \ {0}
    BY DEF IInv, Cursor
  <2> QED BY <1>1, <2>1, Zenon DEF IInv, Cursor
<1>5. Ahead'
  BY <1>1 DEF IInv, Cursor, Ahead
<1>6. Begun' /\ Passed'
  BY <1>1 DEF IInv, Cursor, Begun, Passed
<1>7. Missed'
  <2>1. sec < sec + 1
    BY DEF IInv, Cursor
  <2> QED BY <1>1, <1>2, <1>3, <2>1, Zenon DEF Missed
<1>8. Ended'
  BY <1>1, <1>2 DEF Ended
<1>9. Entered'
  BY <1>1 DEF IInv, Entered
<1> QED BY <1>4, <1>5, <1>6, <1>7, <1>8, <1>9 DEF IInv

(* A section whose end was reached is decoded.                             *)
LEMMA SectionDoneInv == IInv /\ SectionDone => IInv'
<1> SUFFICES ASSUME IInv, SectionDone PROVE IInv'
  OBVIOUS
<1>1. sec' = sec + 1 /\ idx' = 1 /\ ret' = ret /\ UNCHANGED <<program, instrsList, pc>>
  BY DEF SectionDone, NextSection, Ret, IInv, Cursor
<1>2. sec \in DOMAIN program /\ idx > Len(program[sec]) /\ pc = "decode"
  BY DEF SectionDone, IInv, Cursor
<1>3. \A k \in DOMAIN program[sec] : <<sec, k>> \in DOMAIN instrsList
  BY <1>2 DEF IInv, Cursor, Begun
<1>4. Cursor'
  BY <1>1 DEF IInv, Cursor
<1>5. Ahead'
  BY <1>1 DEF IInv, Cursor, Ahead
<1>6. Begun'
  BY <1>1 DEF IInv, Cursor, Begun
<1>7. Passed'
  <2>1. \A s \in DOMAIN program : s < sec + 1 => s < sec \/ s = sec
    BY SectionsCounted DEF IInv, Cursor
  <2> QED BY <1>1, <1>3, <2>1, Zenon DEF IInv, Passed
<1>8. Missed'
  <2>1. \A s \in DOMAIN program : s < sec => s < sec + 1
    BY SectionsCounted DEF IInv, Cursor
  <2> QED BY <1>1, <2>1, Zenon DEF IInv, Missed
<1>9. Ended'
  BY <1>1, <1>2 DEF Ended
<1>10. Entered'
  BY <1>1 DEF IInv, Entered
<1> QED BY <1>4, <1>5, <1>6, <1>7, <1>8, <1>9, <1>10 DEF IInv

LEMMA NextInv == IInv /\ [Next]_vars => IInv'
<1> SUFFICES ASSUME IInv, [Next]_vars PROVE IInv'
  OBVIOUS
<1>1. CASE DecodeWord
  BY <1>1, DecodeWordInv
<1>2. CASE Fails
  BY <1>2, FailsInv
<1>3. CASE SectionDone
  BY <1>3, SectionDoneInv
<1>4. CASE Breaks
  BY <1>4 DEF Breaks, IInv, Cursor, Ahead, Begun, Passed, Missed, Ended, Entered
<1>5. CASE PassDone
  BY <1>5 DEF PassDone, IInv, Cursor, Ahead, Begun, Passed, Missed, Ended, Entered
<1>6. CASE UNCHANGED vars
  BY <1>6 DEF vars, IInv, Cursor, Ahead, Begun, Passed, Missed, Ended, Entered
<1> QED BY <1>1, <1>2, <1>3, <1>4, <1>5, <1>6 DEF Next

(* pass_Decode keeps track of what it has decoded, in every image. *)
THEOREM CursorTheorem == Spec => []IInv
<1>1. Init => IInv
  BY InitInv
<1>2. IInv /\ [Next]_vars => IInv'
  BY NextInv
<1> QED BY <1>1, <1>2, PTL DEF Spec

(* pass_Flow sees a full instrsList, and main returns -1 only for a word   *)
(* that could not be decoded.                                              *)
THEOREM DecodeTheorem == Spec => []AllOrNothing
<1>1. IInv => AllOrNothing
  <2> SUFFICES ASSUME IInv PROVE AllOrNothing
    OBVIOUS
  <2>1. ASSUME pc = "flow"
        PROVE  \A s \in DOMAIN program : \A k \in DOMAIN program[s] : <<s, k>> \in DOMAIN instrsList
    <3>1. \A s \in DOMAIN program : s < sec
      BY <2>1, SectionsCounted DEF IInv, Cursor, Ended
    <3> QED BY <2>1, <3>1 DEF IInv, Passed, Ended
  <2>2. ASSUME pc = "failed"
        PROVE  ~ \A s \in DOMAIN program : \A k \in DOMAIN program[s] : <<s, k>> \in DOMAIN instrsList
    BY <2>2 DEF IInv, Missed, Ended
  <2> QED BY <2>1, <2>2 DEF AllOrNothing
<1> QED BY <1>1, CursorTheorem, PTL

(* Behind each entry that the emitter takes is a word of 32 bits. *)
LEMMA EntryIs ==
  ASSUME IInv, NEW at \in DOMAIN instrsList, Emits(instrsList[at])
  PROVE  /\ program[at[1]][at[2]] \in Words32
         /\ instrsList[at] \in DecodeInstruction(program[at[1]][at[2]])
         /\ instrsList[at].name \in Names
<1>1. PICK s \in DOMAIN program : \E k \in DOMAIN program[s] :
        at = <<s, k>> /\ instrsList[at] \in DecodeInstruction(program[s][k])
  BY DEF IInv, Entered
<1>2. PICK k \in DOMAIN program[s] :
        at = <<s, k>> /\ instrsList[at] \in DecodeInstruction(program[s][k])
  BY <1>1
<1>3. at[1] = s /\ at[2] = k
  BY <1>2
<1>4. program[s][k] \in Words32
  <2>1. program \in Seq(Seq(Words32))
    BY DEF IInv, Cursor
  <2>2. program[s] \in Seq(Words32)
    BY <2>1
  <2> QED BY <2>2
<1>5. instrsList[at].name \in Names
  <2>1. DOMAIN Emitters = 1 .. 6
    BY DEF Emitters
  <2> QED BY <2>1 DEF Emits, Names
<1> QED BY <1>2, <1>3, <1>4, <1>5

(* No emitter reads ops, which it reads unchecked, behind its end: whatever *)
(* the words of the image.                                                 *)
THEOREM OperandsTheorem == Spec => []EnoughOperands
<1>1. IInv => EnoughOperands
  <2> SUFFICES ASSUME IInv, NEW at \in DOMAIN instrsList, Emits(instrsList[at])
               PROVE  OperandsRead(instrsList[at]) <= Len(instrsList[at].ops)
    BY DEF EnoughOperands
  <2> QED BY EntryIs, FormIs, Enough
<1> QED BY <1>1, CursorTheorem, PTL

(* An emitter stores to the register that the architecture means. *)
THEOREM TargetTheorem == Spec => []TargetFirst
<1>1. IInv => TargetFirst
  <2> SUFFICES ASSUME IInv, NEW at \in DOMAIN instrsList, Emits(instrsList[at]),
                      OperandsRead(instrsList[at]) \in 2 .. 5,
                      ~ ComparesOrBranches(instrsList[at])
               PROVE  instrsList[at].ops[1] = IF instrsList[at].name \in TargetIsA
                                              THEN A(program[at[1]][at[2]])
                                              ELSE S(program[at[1]][at[2]])
    BY DEF TargetFirst
  <2> QED BY EntryIs, FormIs, Target
<1> QED BY <1>1, CursorTheorem, PTL

(* No bit of an instruction that the emitter takes is lost by a short      *)
(* field, by one read twice or by two cases that are the same, in any of   *)
(* the 2^32 words.                                                         *)
THEOREM BitsTheorem == Spec => []EveryBitCounts
<1>1. IInv => EveryBitCounts
  <2> SUFFICES ASSUME IInv, NEW at \in DOMAIN instrsList, Emits(instrsList[at]),
                      NEW b \in (0 .. 31) \ Reserved(instrsList[at].name)
               PROVE  DecodeInstruction(Flip(program[at[1]][at[2]], b)) # {instrsList[at]}
    BY DEF EveryBitCounts
  <2> QED BY EntryIs, FlipTells
<1> QED BY <1>1, CursorTheorem, PTL
=============================================================================
