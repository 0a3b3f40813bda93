----------------------------- MODULE MCDecoder -----------------------------
(***************************************************************************)
(* One word of every opcode and extended opcode, with a few choices of its *)
(* registers, and short images of several sections with words that cannot  *)
(* be decoded.                                                             *)
(***************************************************************************)
EXTENDS Decoder

Binary(v, n) == [k \in 1 .. n |-> (v \div 2^(n - k)) % 2]

Word(op, s, a, b, low) == Binary(op, 6) \o Binary(s, 5) \o Binary(a, 5) \o Binary(b, 5) \o Binary(low, 11)

Registers == {<<3, 4, 5>>, <<8, 0, 16>>}

(* Primary opcodes that end in an extended one; the low bits of the others *)
(* belong to an operand.                                                   *)
ExtendedOps == {4, 5, 6, 19, 30, 31, 59, 63}

One ==
  {<< <<Word(op, r[1], r[2], r[3], low)>> >> :
     op \in ExtendedOps, r \in {<<3, 4, 5>>}, low \in 0 .. 2047}
  \cup {<< <<Word(31, 8, 0, 16, low)>> >> : low \in 0 .. 2047}
  \cup {<< <<Word(op, r[1], r[2], r[3], low)>> >> :
     op \in (0 .. 63) \ ExtendedOps, r \in Registers, low \in {0, 1, 2, 3, 4, 1024, 2047}}

(* A word for each way to end: decoded, size 0, no such opcode. *)
Few == {Word(24, 1, 1, 0, 0), Word(31, 0, 0, 0, 3), Word(1, 0, 0, 0, 0)}

Sections == {<<>>} \cup {<<x>> : x \in Few} \cup {<<x, y>> : x, y \in Few}

Several == {<<s, t>> : s, t \in Sections}

MCPrograms == One \cup Several
=============================================================================
