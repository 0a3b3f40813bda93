----------------------------- MODULE MCNtMemory -----------------------------
(* A region of 16 pages, an image near its middle as on the console, and   *)
(* imports whose words are apart, in order, or the wrong way round.        *)
EXTENDS NtMemory

Section(o, n) == [offset |-> o, size |-> n]

Slots(handle, hardware) ==
  [n \in {Handle, Hardware} |-> IF n = Handle THEN handle ELSE hardware]

MCImages ==
  { [base |-> 32, sections |-> <<Section(0, 3), Section(4, 4), Section(9, 2)>>,
     slots |-> Slots(33, 34)],
    [base |-> 32, sections |-> <<Section(0, 3), Section(4, 4), Section(9, 2)>>,
     slots |-> Slots(34, 33)],
    [base |-> 32, sections |-> <<Section(0, 4), Section(4, 4)>>,
     slots |-> Slots(33, 35)],
    [base |-> 32, sections |-> <<Section(4, 3), Section(0, 4)>>,
     slots |-> [n \in {Hardware} |-> 35]],
    [base |-> 60, sections |-> <<Section(0, 3), Section(4, 2)>>,
     slots |-> [n \in {Handle} |-> 60]],
    [base |-> 32, sections |-> <<>>, slots |-> [n \in {} |-> 0]] }

MCPreferred == 0 .. Total - 1
=============================================================================
