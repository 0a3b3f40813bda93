----------------------------- MODULE XAllocVec -----------------------------
(***************************************************************************)
(* XAlloc as it is coded: freeBlocks is a vector.  A block is erased where *)
(* it stands, its remainders are pushed at the back, the vector is sorted  *)
(* by offset and rebuilt by one pass that glues touching neighbours; the   *)
(* loops of allocate walk it front to back.  Each operation is one step of *)
(* XAlloc, whose merge and choice of block are stated without an order.    *)
(***************************************************************************)
EXTENDS FreeVector

CONSTANTS Total, PageSize, Preferred, Requests, FreeCalled

VARIABLES live, lost, committed, reply   (* as in XAlloc *)

vars == <<blocks, live, lost, committed, reply>>

A == INSTANCE XAlloc WITH freeBlocks <- ToSet(blocks)

(* The body of the loop that fills the vector merged.  Mutant: the glued   *)
(* block loses the size it had.                                            *)
GlueForgets(merged, b) ==
  IF merged # <<>> /\ A!End(Last(merged)) = b.offset
  THEN [merged EXCEPT ![Len(merged)].size = b.size]
  ELSE Append(merged, b)

Glue(merged, b) ==
  IF merged # <<>> /\ A!End(Last(merged)) = b.offset
  THEN [merged EXCEPT ![Len(merged)].size = @ + b.size]
  ELSE Append(merged, b)

MergeFreeBlocks(F) == FoldLeft(Glue, <<>>, ByOffset(F))

SplitFreeBlock(F, i, o, n) ==
  LET b     == F[i]
      left  == IF o > b.offset THEN <<A!Block(b.offset, o - b.offset)>> ELSE <<>>
      right == IF o + n < A!End(b) THEN <<A!Block(o + n, A!End(b) - (o + n))>> ELSE <<>>
  IN MergeFreeBlocks(RemoveAt(F, i) \o left \o right)

(* The positions at which the two loops of allocate may stop. *)
HoldsPreferred(p, n) ==
  {i \in DOMAIN blocks : p # 0 /\ blocks[i].offset <= p /\ A!End(blocks[i]) >= p + n}

LongEnough(n) == {i \in DOMAIN blocks : blocks[i].size >= n}

(* The loops, then VirtualAlloc, which may fail and does on no bytes. *)
Take(i, o, p, n) ==
  /\ blocks' = SplitFreeBlock(blocks, i, o, n)
  /\ \/ /\ n > 0
        /\ live' = live \cup {[offset |-> A!RoundDown(o), size |-> n, booked |-> o]}
        /\ committed' = committed \cup A!PagesOf(o, n)
        /\ reply' = A!Answer("ok", p, n)
        /\ UNCHANGED lost
     \/ /\ lost' = lost \cup A!Span(o, n)
        /\ reply' = A!Answer("thrown", p, n)
        /\ UNCHANGED <<live, committed>>

Allocate(p, size) ==
  LET n == A!AlignSize(size) IN
  CASE HoldsPreferred(p, n) # {} -> Take(First(HoldsPreferred(p, n)), p, p, n)
    [] HoldsPreferred(p, n) = {} /\ LongEnough(n) # {} ->
         LET i == First(LongEnough(n)) IN Take(i, blocks[i].offset, p, n)
    [] OTHER -> /\ reply' = A!Answer("null", p, n)
                /\ UNCHANGED <<blocks, live, lost, committed>>

Free(a) ==
  /\ FreeCalled
  /\ \/ /\ committed' = committed \ A!PagesOf(a.offset, a.size)
        /\ blocks' = MergeFreeBlocks(Append(blocks, A!Block(a.offset, a.size)))
        /\ live' = live \ {a}
        /\ reply' = A!Answer("freed", 0, a.size)
        /\ UNCHANGED lost
     \/ /\ reply' = A!Answer("thrown", 0, a.size)
        /\ UNCHANGED <<blocks, live, lost, committed>>

Init ==
  /\ blocks = <<A!Block(0, Total)>>
  /\ live = {}
  /\ lost = {}
  /\ committed = {}
  /\ reply = A!Answer("none", 0, 0)

Next ==
  \/ \E p \in Preferred, size \in Requests : Allocate(p, size)
  \/ \E a \in live : Free(a)

Spec == Init /\ [][Next]_vars

-----------------------------------------------------------------------------
(* Each operation on the vector is a step of XAlloc on the set of blocks.  *)
ImplementsXAlloc == A!Spec
=============================================================================
