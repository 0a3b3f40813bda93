----------------------------- MODULE MCEmitters -----------------------------
(***************************************************************************)
(* Words of 8 bits.  Every emitter with a few operands, on registers that  *)
(* hold small and large words, negative ones, and double words with        *)
(* something in the upper half; then a second instruction on what the      *)
(* first one left.                                                         *)
(***************************************************************************)
EXTENDS Emitters, TLC

I(n, ops) == [name |-> n, sfx |-> "", ops |-> ops]

R(n, ops) == [name |-> n, sfx |-> "RC", ops |-> ops]

Three == {<<1, 1, 2>>, <<2, 2, 1>>, <<0, 1, 2>>, <<1, 2, 2>>}

ByImm == {<<1, 1, 3>>, <<2, 1, 13>>, <<1, 0, 8>>}

Sources == {<<1, 1>>, <<2, 1>>}

Memories == {<<1, 0, 2>>, <<2, 3, 2>>, <<1, 12, 2>>, <<0, 1, 0>>}

Rotations ==
  {<<1, 2, 0, 0, 7>>, <<1, 2, 3, 0, 4>>, <<2, 1, 5, 2, 2>>, <<1, 1, 7, 4, 7>>,
   <<2, 1, 3, 6, 1>>}

Branches ==
  {<<bo, bi, 1>> : bo \in {0, 4, 12, 16, 18}, bi \in {0, 2, 5}} \cup {<<16, 0, 2>>}

LR == 8 * 2^5
CTR == 9 * 2^5

All(names, operands) == {I(n, o) : n \in names, o \in operands}

MCInstrs ==
  All({"li", "lis"}, {<<1, 0, 7>>, <<2, 0, 9>>})
  \cup All({"addi", "addis", "addic", "ori", "oris", "xori", "mulli", "subfic"}, ByImm)
  \cup {R(n, o) : n \in {"andi", "addic"}, o \in ByImm}
  \cup All({"add", "adde", "subf", "subfe", "or", "and", "andc", "xor", "nor", "slw",
            "mullw", "mulld", "divw", "divwu", "divdu"}, Three)
  \cup {R(n, o) : n \in {"subf", "subfe", "or", "mullw"}, o \in {<<1, 1, 2>>, <<0, 2, 1>>}}
  \cup All({"neg", "addze", "extsb", "extsh", "extsw", "cntlzw"}, Sources)
  \cup {R(n, <<2, 1>>) : n \in {"extsb", "extsh", "extsw", "addze"}}
  \cup All({"rlwinm", "rlwimi"}, Rotations) \cup {R("rlwinm", <<1, 2, 3, 0, 4>>)}
  \cup All({"rldicl"}, {<<1, 1, 0, 8>>, <<2, 1, 4, 3>>})
  \cup All({"srawi"}, {<<1, 2, 0>>, <<2, 1, 1>>, <<1, 1, 4>>, <<2, 2, 7>>})
  \cup All({"cmpw", "cmplw"}, {<<0, 0, 1, 2>>, <<1, 0, 2, 1>>})
  \cup All({"cmpwi", "cmplwi"}, {<<0, 0, 1, 5>>, <<1, 0, 2, 12>>})
  \cup All({"cmpdi", "cmpldi"}, {<<0, 1, 1, 5>>, <<1, 1, 2, 12>>})
  \cup All({"lbz", "lhz", "lha", "lwz", "lbzu", "lhzu", "lwzu", "stb", "sth", "stw", "stbu",
            "sthu", "stwu"}, Memories)
  \cup All({"lwa", "ld", "ldu", "std", "stdu"}, {<<1, 0, 2>>, <<2, 3, 1>>, <<1, 1, 0>>})
  \cup All({"lwzx", "lhzx", "lbzx", "stwx", "sthx"}, {<<1, 0, 2>>, <<2, 1, 2>>})
  \cup All({"bc"}, Branches)
  \cup {I("mtspr", <<s, 1>>) : s \in {LR, CTR}} \cup {I("mfspr", <<2, s>>) : s \in {LR, CTR}}
  \cup {I("mfcr", <<1>>), I("nop", <<>>)}

Context(r0, r1, r2, cr, xer, ctr) ==
  [RR |-> (0 :> r0) @@ (1 :> r1) @@ (2 :> r2), CR |-> cr, XER |-> xer, CTR |-> ctr, LR |-> 77]

Pairs == {<<0, 0>>, <<1, 127>>, <<128, 4>>, <<255, 130>>, <<32768, 3>>, <<65408, 65535>>,
          <<341, 43690>>, <<20, 9>>}

MCMachines ==
  {Context(6, p[1], p[2], f[1], f[2], f[3]) :
     p \in Pairs, f \in {<<0, 0, 1>>, <<34, 4, 0>>}}

(* Contexts in which no instruction has set CA yet. *)
MCFresh == {m \in MCMachines : m.XER = 0}
=============================================================================
