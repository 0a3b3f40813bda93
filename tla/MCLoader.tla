------------------------------ MODULE MCLoader ------------------------------
(***************************************************************************)
(* Executables with an image of up to eight cells: in three shapes of      *)
(* blocks, encrypted or not, with a guess of the key that is right or      *)
(* wrong, sections that end in the image or lead out of it, and imports of *)
(* two libraries, of variables, functions and words that are neither.      *)
(* 32 bits count 32 cells; some blocks, sections and raw data have sums    *)
(* that wrap.                                                              *)
(***************************************************************************)
EXTENDS Loader, TLC

Word(type, lib, ordinal) == [type |-> type, lib |-> lib, ordinal |-> ordinal]

Opt(key, body) == [key |-> key, crosses |-> FALSE, short |-> FALSE] @@ body

Base == Opt("base", [value |-> 100])

(* Four sources; the words of the imports stand in the image's cells.  The *)
(* last asks for functions of one name under two ordinals.                 *)
Sources ==
  {<<Mz, Code, Word(0, 0, 1), Word(1, 0, 1), Word(0, 1, 1), Code>>,
   <<Mz, Word(0, 1, 2), Word(1, 1, 2), Word(0, 0, 3), Word(0, 7, 1)>>,
   <<Mz, Word(0, 0, 2), Code, Word(1, 1, 1)>>,
   <<Mz, Code, Word(0, 0, 4), Word(1, 0, 5), Word(0, 0, 1)>>}

Blocks ==
  {<< >>, <<[data |-> 4, zero |-> 2]>>,
   <<[data |-> 2, zero |-> 1], [data |-> 3, zero |-> 0], [data |-> 0, zero |-> 1]>>,
   <<[data |-> 1, zero |-> 0], [data |-> 4, zero |-> 1]>>,
   <<[data |-> 5, zero |-> 5]>>}

(* Blocks whose sizes wrap: in a block, over the blocks, and so that more  *)
(* is consumed than the check at the end can see.                          *)
WrappingBlocks ==
  {<<[data |-> 4, zero |-> 31]>>, <<[data |-> 4, zero |-> 2], [data |-> 2, zero |-> 29]>>,
   <<[data |-> 5, zero |-> 0], [data |-> 29, zero |-> 3]>>}

Formats ==
  {Opt("format", [encrypted |-> e, compression |-> "basic", blocks |-> b]) :
     e \in BOOLEAN, b \in Blocks \cup WrappingBlocks}
  \cup {Opt("format", [encrypted |-> FALSE, compression |-> c, blocks |-> <<>>]) :
          c \in {"none", "normal"}}

Sec(name, voff, vsize, poff, psize) ==
  [name |-> name, voff |-> voff, vsize |-> vsize, poff |-> poff, psize |-> psize]

Sections ==
  {<<Sec("text", 1, 3, 1, 3)>>,
   <<Sec("text", 1, 2, 1, 2), Sec("data", 4, 4, 2, 3)>>,
   <<Sec("data", 6, 3, 1, 2), Sec("text", 1, 2, 1, 2), Sec("bss", 9, 1, 9, 4)>>,
   <<Sec("text", 1, 2, 1, 2), Sec("data", 6, 30, 0, 0)>>,
   <<Sec("data", 7, 2, 30, 4), Sec("text", 1, 2, 1, 2), Sec("bss", 30, 3, 1, 2)>>}

Names == <<"xam.xex", "xboxkrnl.exe", "xbdm.xex">>

Imports ==
  {Opt("imports", [table |-> t, libs |-> <<[index |-> 2, records |-> r[1]],
                                           [index |-> 1, records |-> r[2]]>>]) :
     t \in {Names, <<"", "xboxkrnl.exe">>},
     r \in {<< <<102, 103>>, <<104>> >>, << <<101, 103>>, <<105, 102>> >>,
            << <<104, 102, 103>>, <<101>> >>, << <<103, 104>>, <<105>> >>,
            << <<102, 120>>, <<>> >>}}

Title == Opt("execution", [title |-> 7])

Resources == Opt("resources", [count |-> 1])

Optional ==
  {<<>>, <<Title>>, <<Resources, Title>>, <<Title, Resources>>,
   <<[Title EXCEPT !.crosses = TRUE]>>, <<[Title EXCEPT !.short = TRUE]>>}

File(opts, cert, devkit, source, secs) ==
  [magic |-> TRUE, opts |-> opts, cert |-> cert, devkit |-> devkit, head |-> 3,
   source |-> source, pe |-> [valid |-> TRUE, sections |-> secs]]

MCFiles ==
  {File(o \o <<Base, f, i>>, TRUE, FALSE, s, <<Sec("text", 1, 2, 1, 2), Sec("data", 4, 4, 2, 3)>>) :
     o \in Optional, f \in Formats, i \in Imports, s \in Sources}
  \cup {File(<<Title, i, Base, f>>, TRUE, d, s, p) :
          d \in BOOLEAN, f \in Formats, i \in Imports, s \in Sources, p \in Sections}
  \cup {[magic |-> FALSE], File(<<>>, FALSE, FALSE, <<>>, <<>>)}

MCTable ==
  {[lib |-> "xboxkrnl.exe", ordinal |-> 1, name |-> "NtClose"],
   [lib |-> "xboxkrnl.exe", ordinal |-> 2, name |-> "XboxHardwareInfo"],
   [lib |-> "xboxkrnl.exe", ordinal |-> 3, name |-> "XexExecutableModuleHandle"],
   [lib |-> "xboxkrnl.exe", ordinal |-> 4, name |-> "RtlFreeAnsiString"],
   [lib |-> "xboxkrnl.exe", ordinal |-> 5, name |-> "RtlFreeAnsiString"],
   [lib |-> "xam.xex", ordinal |-> 1, name |-> "XamAlloc"],
   [lib |-> "xam.xex", ordinal |-> 2, name |-> "XamFree"]}
=============================================================================
