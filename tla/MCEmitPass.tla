----------------------------- MODULE MCEmitPass -----------------------------
(***************************************************************************)
(* Every way to fill a few instructions behind one another, under several  *)
(* layouts of functions, and some programs with a jump table.              *)
(***************************************************************************)
EXTENDS EmitPass, TLC

Instr(op, to) == [op |-> op, to |-> to, cond |-> FALSE]

Op(op) == Instr(op, 0)

(* Two functions apart, one inside the other, and one of them a stub. *)
Layouts ==
  { [funcs |-> 0 :> 2, imports |-> {}],
    [funcs |-> (0 :> 0) @@ (1 :> 2), imports |-> {}],
    [funcs |-> (0 :> 2) @@ (1 :> 2), imports |-> {}],
    [funcs |-> (0 :> 1) @@ (2 :> 6), imports |-> {2}] }

Branches(last) == {Instr(op, to) : op \in {"b", "bc"}, to \in 0 .. last}

Alphabet(layout) ==
  {Op("plain"), Op("nop"), Op("bclr"), [Op("bclr") EXCEPT !.cond = TRUE]}
    \cup Branches(2)
    \cup {Instr("bl", to) : to \in DOMAIN layout.funcs}

Short ==
  UNION { {[code |-> c, funcs |-> l.funcs, imports |-> l.imports, tables |-> {}] :
             c \in [0 .. 2 -> Alphabet(l)]} : l \in Layouts }

(* Four instructions in one function, the last of them a return. *)
Long ==
  {[code |-> (3 :> Op("bclr")) @@ c, funcs |-> 0 :> 3, imports |-> {}, tables |-> {}] :
     c \in [0 .. 2 -> {Op("plain"), Op("bclr")} \cup Branches(3)]}

Program(c, f, t) == [code |-> c, funcs |-> f, imports |-> {}, tables |-> t]

(* A jump table behind some code, with its targets before and behind it,   *)
(* the default alone, or nothing in it, an unknown mnemonic, a bcctr       *)
(* outside any table, a function that runs past what was decoded.          *)
Special ==
  LET c == [i \in 0 .. 5 |-> <<Op("plain"), Op("plain"), Op("bcctr"), Op("plain"),
                               Instr("b", 1), Op("bclr")>>[i + 1]]
      t(s) == {[owner |-> 0, first |-> 1, last |-> 3, targets |-> s]}
  IN { Program(c, 0 :> 5, t(<<3, 5, 3, 1>>)),
       Program(c, 0 :> 5, t(<<5, 4, 3>>)),
       Program(c, 0 :> 5, t(<<4>>)),
       Program(c, 0 :> 5, t(<<>>)),
       Program(c, 0 :> 5, {}),
       Program([c EXCEPT ![2] = Op("unknown")], 0 :> 5, {}),
       Program([c EXCEPT ![2] = Op("bcctrl"), ![5] = Instr("bl", 0)], 0 :> 5, {}),
       Program([c EXCEPT ![2] = Op("plain")], 0 :> 7, {}) }

MCPrograms == Short \cup Long \cup Special
=============================================================================
