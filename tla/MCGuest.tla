------------------------------ MODULE MCGuest ------------------------------
(***************************************************************************)
(* Two functions.  Function 0 calls 10 directly and through CTR, around a  *)
(* loop, and function 10 calls itself or leaves by a tail call.            *)
(***************************************************************************)
EXTENDS Guest

I(name, to) == [name |-> name, to |-> to]

MCCode ==
  [a \in (0 .. 5) \cup (10 .. 14) |->
     CASE a = 0  -> I("mtspr", 0)
       [] a = 1  -> I("bl", 10)
       [] a = 2  -> I("bcctrl", 0)
       [] a = 3  -> I("bc", 1)
       [] a = 4  -> I("other", 0)
       [] a = 5  -> I("bclr", 0)
       [] a = 10 -> I("bc", 13)
       [] a = 11 -> I("bl", 10)
       [] a = 12 -> I("b", 14)
       [] a = 13 -> I("bcctr", 0)
       [] a = 14 -> I("bclr", 0)]
=============================================================================
