------------------------------- MODULE Words -------------------------------
(***************************************************************************)
(* The integers of the machine: a value of n bits is a number of           *)
(* 0 .. 2^n - 1.  The source has half-words of 16 bits; all the widths     *)
(* scale with H, so that TLC's own integers of 32 bits can hold a product. *)
(***************************************************************************)
EXTENDS Integers

CONSTANT H   (* bits of a half-word and of an immediate: 16 in the source *)

ASSUME HAssumption == H \in Nat /\ H >= 4 /\ H % 2 = 0

W == 2 * H          (* a word: i32       *)
D == 4 * H          (* a double word: i64 *)
Byte == H \div 2    (* i8                *)

Ones(n) == 2^n - 1

Trunc(v, n) == v % 2^n

Signed(v, n) == IF v >= 2^(n - 1) THEN v - 2^n ELSE v

(* Sign extension from n bits to a double word; zero extension is nothing. *)
SExt(v, n) == Trunc(Signed(v, n), D)

Add(a, b) == Trunc(a + b, D)

Sub(a, b) == Trunc(a - b, D)

(* By the halves of b, so that no product is longer than D + W bits. *)
Mul(a, b) == Trunc(a * (b % 2^W) + 2^W * Trunc(a * (b \div 2^W), W), D)

(* The quotient of signed words, rounded towards zero. *)
SDiv(a, b) ==
  LET m == (IF a < 0 THEN - a ELSE a) \div (IF b < 0 THEN - b ELSE b)
  IN IF (a < 0) = (b < 0) THEN m ELSE - m

BitAt(v, k) == (v \div 2^k) % 2
=============================================================================
