------------------------------- MODULE MCFlow -------------------------------
(***************************************************************************)
(* Short sections filled in every way, with what the other sources of      *)
(* functions may add to them, and programs made for jump tables, save      *)
(* routines, addresses in the code and two sections.                       *)
(***************************************************************************)
EXTENDS Flow, TLC

Instr(op, to) == [op |-> op, to |-> to, crf |-> 0, imm |-> 0]

Plain(op) == Instr(op, 0)

Program(c, s) ==
  [code |-> c, sections |-> s, imports |-> {}, pdata |-> <<>>, data |-> {}, cases |-> <<>>]

Branch(to) == {Instr(op, t) : op \in {"b", "bl"}, t \in to} \cup {Instr("bc", 3)}

(* Four instructions before a return; the first of them is the entry. *)
Short ==
  {Program(Append(c, Plain("bclr")), << <<1, 5>> >>) :
     c \in [1 .. 4 -> {Plain(op) : op \in {"plain", "nop", "bclr"}} \cup Branch({2, 4})]}

(* The same with prologues and epilogues, .pdata and .data. *)
Saving ==
  {[Program(<<Plain("plain")>> \o c, << <<1, 4>> >>)
      EXCEPT !.data = d, !.pdata = p] :
     c \in [1 .. 3 -> {Plain(op) : op \in {"mflr", "mtlr", "stw", "bclr", "addr"}} \cup {Instr("b", 4)}],
     d \in {{}, {3, 5}}, p \in {<<>>, 2 :> 2} }

(* Two sections that call and jump into each other, a stub behind them. *)
Apart ==
  {[Program(c \o <<x, y, z, Plain("bclr")>> \o [i \in 1 .. 5 |-> Plain("plain")],
            << <<1, 4>>, <<5, 7>> >>)
      EXCEPT !.imports = {8}] :
     c \in [1 .. 3 -> {Plain(op) : op \in {"plain", "nop", "bclr"}} \cup {Instr("b", 3), Instr("b", 6), Instr("bl", 8)}],
     x \in {Plain("bclr"), Instr("b", 3), Instr("b", 6)},
     y \in {Instr("bl", 2), Instr("bl", 6), Plain("bclr")}, z \in {Instr("bl", 3), Plain("nop")} }

(* A compare, a branch to a default, a table of three cases. *)
Guard(to, imm) ==
  << [Plain("cmplwi") EXCEPT !.imm = imm], Instr("bc", to), Plain("lis"), Plain("bcctr") >>

Tabled ==
  { [Program(x \o Guard(to, imm) \o <<Plain("plain"), Plain("plain"), Plain("plain"), Plain("bclr")>>,
             << <<1, Len(x) + 8>> >>)
       EXCEPT !.cases = (Len(x) + 3) :> <<6, 7, 8, 9>>] :
     x \in {<<>>, <<Plain("plain")>>, <<Plain("plain"), Instr("bc", 2)>>,
            <<Instr("bc", 2), Plain("plain"), Plain("plain")>>},
     to \in {1, 8}, imm \in 0 .. 2 }

(* A table whose bc is not in the window, and so has no targets. *)
Unguarded ==
  { [Program(<<Plain("cmplwi"), Plain("plain"), Plain("lis"), Plain("bcctr"), Plain("plain"), Plain("bclr")>>,
             << <<1, 6>> >>)
       EXCEPT !.cases = 3 :> <<5, 6>>] }

Routines ==
  { Program(<<Plain(op), Plain("plain"), Plain("plain"), Plain("bclr"), Instr("bl", 1), x>>,
            << <<1, 6>> >>) :
      op \in {"savegpr", "restgpr", "savevr"}, x \in {Plain("bclr"), Plain("lis")} }

(* Two sections with a gap between, and .pdata with lengths that cross it. *)
Gap ==
  { [Program((1 :> Plain("plain")) @@ (2 :> x) @@ (3 :> Plain("bclr"))
               @@ (6 :> Instr("bl", to)) @@ (7 :> Plain("bclr")),
             << <<1, 3>>, <<6, 7>> >>)
       EXCEPT !.pdata = p] :
     x \in {Plain("plain"), Instr("bl", 6)}, to \in {2, 6},
     p \in {<<>>, 2 :> 2, 2 :> 5, 1 :> 6} }

MCPrograms == Short \cup Saving \cup Apart \cup Tabled \cup Unguarded \cup Routines \cup Gap

MCPattern == <<"lis", "bcctr">>
=============================================================================
