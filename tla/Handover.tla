------------------------------ MODULE Handover ------------------------------
(***************************************************************************)
(* What pass_Emit takes from pass_Flow: a program is [code, funcs,         *)
(* imports, tables] -- instrsList; m_function_map as start -> end; the     *)
(* starts whose emission_done is set already, the import stubs; the jump   *)
(* tables as [owner, first, last, targets].  EmitPass assumes these facts  *)
(* of its programs, and the flow passes establish them.                    *)
(***************************************************************************)
EXTENDS Integers, Sequences

Mnemonics == {"plain", "unknown", "nop", "b", "bc", "bl", "bclr", "bcctr", "bcctrl"}

Span(t) == t.first .. t.last

(* The target of every bl is in m_function_map, so that bl never adds to   *)
(* the map while pass_Emit walks it.                                       *)
CallsKnown(prg) ==
  /\ prg.imports \subseteq DOMAIN prg.funcs
  /\ \A a \in DOMAIN prg.code :
       prg.code[a].op = "bl" => prg.code[a].to \in DOMAIN prg.funcs

(* What these programs are made of.  A pattern ends at its bcctr, so two   *)
(* tables about one bcctr are the same one, found in two functions that    *)
(* overlap; its targets are read from the image and do not tell.           *)
WellMade(prg) ==
  /\ DOMAIN prg.funcs \subseteq Nat /\ \A f \in DOMAIN prg.funcs : prg.funcs[f] \in Int
  /\ DOMAIN prg.code \subseteq Nat
  /\ \A a \in DOMAIN prg.code : prg.code[a].op \in Mnemonics /\ prg.code[a].to \in Int
  /\ \A t \in prg.tables : t.first \in Int /\ t.last \in Int /\ t.targets \in Seq(Int)
  /\ \A t, u \in prg.tables : \A a \in DOMAIN prg.code \cap Span(t) \cap Span(u) :
       prg.code[a].op = "bcctr" => t.targets = u.targets

(* No function with a body runs over an address that was not decoded.      *)
AllDecoded(prg) ==
  \A f \in DOMAIN prg.funcs \ prg.imports : f .. prg.funcs[f] \subseteq DOMAIN prg.code
=============================================================================
