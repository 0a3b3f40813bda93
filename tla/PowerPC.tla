------------------------------ MODULE PowerPC ------------------------------
(***************************************************************************)
(* What the emitted code has to compute: one step of the user-level        *)
(* PowerPC for the instructions the recompiler emits, after the            *)
(* architecture's books and not after the source.  Registers have G bits:  *)
(* D for the 64-bit machine, W for the 32-bit one.  Instructions have the  *)
(* decoder's operands.  CR is numbered from its first bit on: LT, GT, EQ   *)
(* and SO of field 0, then those of field 1.  CA is the carry out of a     *)
(* word and CTR and LR are words, as they are in 32-bit mode.              *)
(***************************************************************************)
EXTENDS Words, Sequences, FiniteSetsExt, Bitwise

CONSTANT G

VARIABLES gpr, cr, ca, ctr, lr, mem, nip

ppc == <<gpr, cr, ca, ctr, lr, mem, nip>>
-----------------------------------------------------------------------------
Extend(v, n) == Trunc(Signed(v, n), G)

(* A general register, the one named 0 read as zero. *)
OrZero(r) == IF r = 0 THEN 0 ELSE gpr[r]

Low(r) == Trunc(gpr[r], W)

Rotl(v, k) == Trunc(v * 2^k, W) + v \div 2^(W - k)

(* Bits mb to me of a word, counted from the left and around its end. *)
Mask(mb, me) ==
  LET in == IF mb <= me THEN mb .. me ELSE (0 .. W - 1) \ (me + 1 .. mb - 1)
  IN FoldSet(LAMBDA b, acc : acc + 2^(W - 1 - b), 0, in)

LeadingZeros(v) ==
  Cardinality({k \in 0 .. W - 1 : \A j \in 0 .. k : BitAt(v, W - 1 - j) = 0})

(* The value an instruction other than a load puts in its first operand. *)
Value(i) ==
  LET n == i.name
      o == i.ops
      a == gpr[o[2]]
      b == gpr[o[3]]
      im == Extend(o[3], H)
  IN CASE n \in {"li", "addi"}   -> Trunc(OrZero(o[2]) + im, G)
       [] n \in {"lis", "addis"} -> Trunc(OrZero(o[2]) + Signed(o[3], H) * 2^H, G)
       [] n = "addic"  -> Trunc(a + im, G)
       [] n = "mulli"  -> Trunc(Mul(a, SExt(o[3], H)), G)
       [] n = "add"    -> Trunc(a + b, G)
       [] n = "subf"   -> Trunc(b - a, G)
       [] n = "neg"    -> Trunc(- a, G)
       [] n = "adde"   -> Trunc(a + b + ca, G)
       [] n = "addze"  -> Trunc(a + ca, G)
       [] n = "mullw"  -> Trunc(Mul(SExt(Low(o[2]), W), SExt(Low(o[3]), W)), G)
       [] n = "mulld"  -> Mul(a, b)
       [] n = "divw"   -> Trunc(SDiv(Signed(Low(o[2]), W), Signed(Low(o[3]), W)), W)
       [] n = "divwu"  -> Low(o[2]) \div Low(o[3])
       [] n = "divdu"  -> a \div b
       [] n = "or"     -> a | b
       [] n = "and"    -> a & b
       [] n = "andc"   -> a & (Ones(G) - b)
       [] n = "xor"    -> a ^^ b
       [] n = "ori"    -> a | o[3]
       [] n = "oris"   -> a | (o[3] * 2^H)
       [] n = "andi"   -> a & o[3]
       [] n = "xori"   -> a ^^ o[3]
       [] n = "extsb"  -> Extend(Trunc(a, Byte), Byte)
       [] n = "extsh"  -> Extend(Trunc(a, H), H)
       [] n = "extsw"  -> Extend(Trunc(a, W), W)
       [] n = "cntlzw" -> LeadingZeros(Low(o[2]))
       [] n = "slw"    -> IF b % D >= W THEN 0 ELSE Trunc(Low(o[2]) * 2^(b % D), W)
       [] n = "srawi"  -> Trunc(Signed(Low(o[2]), W) \div 2^o[3], G)
       [] n = "rlwinm" -> Rotl(Low(o[2]), o[3]) & Mask(o[4], o[5])
       [] n = "rlwimi" -> (Rotl(Low(o[2]), o[3]) & Mask(o[4], o[5]))
                            | (gpr[o[1]] & (Ones(G) - Mask(o[4], o[5])))
       [] n = "mfspr"  -> IF o[2] = 8 * 2^5 THEN lr ELSE ctr

(* The carry out of a word. *)
Carry(i) ==
  LET a == Low(i.ops[2]) IN
  CASE i.name = "addic" -> (a + Trunc(Extend(i.ops[3], H), W)) \div 2^W
    [] i.name = "addze" -> (a + ca) \div 2^W
    [] i.name = "srawi" -> IF Signed(a, W) < 0 /\ a % 2^i.ops[3] # 0 THEN 1 ELSE 0
    [] OTHER            -> ca
-----------------------------------------------------------------------------
(* Memory is big-endian; only the bytes written so far are kept, the       *)
(* others hold what the image loaded.                                      *)
Initially(a) == a % 2^Byte

At(a) == IF a \in DOMAIN mem THEN mem[a] ELSE Initially(a)

Fetch(a, n) ==
  LET f[k \in 0 .. n] == IF k = 0 THEN 0 ELSE 2^Byte * f[k - 1] + At(a + k - 1) IN f[n]

Put(a, n, v) ==
  [x \in DOMAIN mem \cup (a .. a + n - 1) |->
     IF x \in a .. a + n - 1 THEN (v \div 2^(Byte * (a + n - 1 - x))) % 2^Byte ELSE mem[x]]

(* Bytes, and the address: register plus displacement or plus register. *)
Bytes == [lbz |-> 1, lhz |-> 2, lha |-> 2, lwz |-> 4, lwa |-> 4, ld |-> 8,
          lbzu |-> 1, lhzu |-> 2, lwzu |-> 4, ldu |-> 8,
          lbzx |-> 1, lhzx |-> 2, lwzx |-> 4,
          stb |-> 1, sth |-> 2, stw |-> 4, std |-> 8,
          stbu |-> 1, sthu |-> 2, stwu |-> 4, stdu |-> 8, sthx |-> 2, stwx |-> 4]

Loading   == {"lbz", "lhz", "lha", "lwz", "lwa", "ld", "lbzu", "lhzu", "lwzu", "ldu",
              "lbzx", "lhzx", "lwzx"}
Updating  == {"lbzu", "lhzu", "lwzu", "ldu", "stbu", "sthu", "stwu", "stdu"}
ByTwo     == {"lbzx", "lhzx", "lwzx", "sthx", "stwx"}
ByFour    == {"ld", "ldu", "std", "stdu", "lwa"}
Algebraic == {"lha", "lwa"}

Ea(i) ==
  LET o == i.ops IN
  Trunc(CASE i.name \in ByTwo  -> OrZero(o[2]) + gpr[o[3]]
          [] i.name \in ByFour -> OrZero(o[3]) + Signed(4 * o[2], H)
          [] OTHER             -> OrZero(o[3]) + Signed(o[2], H), W)

Loaded(i) ==
  LET v == Fetch(Ea(i), Bytes[i.name]) IN
  IF i.name \in Algebraic THEN Extend(v, Byte * Bytes[i.name]) ELSE v
-----------------------------------------------------------------------------
(* LT, GT and EQ of a against b; SO is never set. *)
Compare(a, b) == <<IF a < b THEN 1 ELSE 0, IF a > b THEN 1 ELSE 0, IF a = b THEN 1 ELSE 0, 0>>

WithField(f, c) == [k \in DOMAIN cr |-> IF k \div 4 = f THEN c[(k % 4) + 1] ELSE cr[k]]

Comparing == {"cmpw", "cmpwi", "cmpdi", "cmplw", "cmplwi", "cmpldi"}

Compared(i) ==
  LET o == i.ops
      a == IF o[2] = 0 THEN Low(o[3]) ELSE gpr[o[3]]
      n == IF o[2] = 0 THEN W ELSE G
  IN CASE i.name = "cmpw"             -> Compare(Signed(a, n), Signed(Low(o[4]), W))
       [] i.name \in {"cmpwi", "cmpdi"}   -> Compare(Signed(a, n), Signed(o[4], H))
       [] i.name = "cmplw"            -> Compare(a, Low(o[4]))
       [] i.name \in {"cmplwi", "cmpldi"} -> Compare(a, o[4])

(* BO: bit 16 not to test CR, 8 the value wanted, 4 not to count, 2 to     *)
(* branch at zero.                                                         *)
CtrAfter(i) == IF BitAt(i.ops[1], 2) = 1 THEN ctr ELSE Trunc(ctr - 1, W)

Taken(i) ==
  LET bo == i.ops[1] IN
  /\ BitAt(bo, 2) = 0 => ((CtrAfter(i) = 0) <=> (BitAt(bo, 1) = 1))
  /\ BitAt(bo, 4) = 0 => cr[i.ops[2]] = BitAt(bo, 3)
-----------------------------------------------------------------------------
Compute(i) ==
  /\ gpr' = [gpr EXCEPT ![i.ops[1]] = Value(i)]
  /\ ca' = Carry(i)
  /\ cr' = IF i.sfx = "RC" THEN WithField(0, Compare(Signed(gpr'[i.ops[1]], G), 0)) ELSE cr
  /\ nip' = nip + 4
  /\ UNCHANGED <<ctr, lr, mem>>

Load(i) ==
  /\ gpr' = LET loaded == [gpr EXCEPT ![i.ops[1]] = Loaded(i)]
            IN IF i.name \in Updating THEN [loaded EXCEPT ![i.ops[3]] = Ea(i)] ELSE loaded
  /\ nip' = nip + 4
  /\ UNCHANGED <<cr, ca, ctr, lr, mem>>

Store(i) ==
  /\ mem' = Put(Ea(i), Bytes[i.name], gpr[i.ops[1]])
  /\ gpr' = IF i.name \in Updating THEN [gpr EXCEPT ![i.ops[3]] = Ea(i)] ELSE gpr
  /\ nip' = nip + 4
  /\ UNCHANGED <<cr, ca, ctr, lr>>

CompareAs(i) ==
  /\ cr' = WithField(i.ops[1], Compared(i))
  /\ nip' = nip + 4
  /\ UNCHANGED <<gpr, ca, ctr, lr, mem>>

Branch(i) ==
  /\ ctr' = CtrAfter(i)
  /\ nip' = IF Taken(i) THEN nip + Signed(4 * i.ops[3], H) ELSE nip + 4
  /\ UNCHANGED <<gpr, cr, ca, lr, mem>>

MoveToSpecial(i) ==
  /\ IF i.ops[1] = 8 * 2^5 THEN lr' = Low(i.ops[2]) /\ ctr' = ctr
                           ELSE ctr' = Low(i.ops[2]) /\ lr' = lr
  /\ nip' = nip + 4
  /\ UNCHANGED <<gpr, cr, ca, mem>>

Execute(i) ==
  IF i.name \in DOMAIN Bytes
  THEN (IF i.name \in Loading THEN Load(i) ELSE Store(i))
  ELSE (CASE i.name \in Comparing -> CompareAs(i)
          [] i.name = "bc"        -> Branch(i)
          [] i.name = "mtspr"     -> MoveToSpecial(i)
          [] i.name = "nop"       -> nip' = nip + 4 /\ UNCHANGED <<gpr, cr, ca, ctr, lr, mem>>
          [] OTHER                -> Compute(i))
=============================================================================
