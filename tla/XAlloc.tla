------------------------------- MODULE XAlloc -------------------------------
(***************************************************************************)
(* The guest memory manager, class XAlloc of MemoryManager.h: a 32-bit     *)
(* region reserved once, a list of free blocks, and allocate and free over *)
(* it.  Addresses are offsets from the base of the region.  The vector of  *)
(* free blocks is a set here, because the code sorts it by offset after    *)
(* every change; XAllocVec keeps the vector and implements this module.    *)
(***************************************************************************)
EXTENDS Naturals

CONSTANTS
  Total,       (* TOTALSIZE, the size of the reserved region               *)
  PageSize,    (* pageSize                                                 *)
  Preferred,   (* values callers pass as preferredOffset; 0 is no wish     *)
  Requests,    (* values callers pass as size                              *)
  FreeCalled   (* does anybody call free?  Nobody does at this commit:     *)
               (* NtFreeVirtualMemory is a stub                            *)

ASSUME SpaceAssumption ==
  /\ PageSize \in Nat \ {0}
  /\ Total \in Nat \ {0}
  /\ Total % PageSize = 0

ASSUME CallerAssumption ==
  /\ Preferred \subseteq Nat
  /\ Requests \subseteq Nat
  /\ FreeCalled \in BOOLEAN

(***************************************************************************)
(* free returns the range that begins at the pointer the client holds, and *)
(* VirtualAlloc rounds that pointer down to a page.  A preferredOffset off *)
(* a page boundary reaches allocate only from NtAllocateVirtualMemory,     *)
(* whose ranges cannot be freed; where free is called, offsets are on      *)
(* page boundaries.                                                        *)
(***************************************************************************)
ASSUME FreeAssumption ==
  FreeCalled => \A p \in Preferred : p % PageSize = 0

VARIABLES
  freeBlocks,  (* the free blocks, [offset, size]                          *)
  live,        (* what clients hold: the pointer's offset, the size and    *)
               (* the offset booked in freeBlocks, which VirtualAlloc may  *)
               (* have rounded down                                        *)
  lost,        (* addresses taken out of freeBlocks by an allocate that    *)
               (* then threw                                               *)
  committed,   (* pages (their first address) the host has committed       *)
  reply        (* the last request and how it was answered                 *)

vars == <<freeBlocks, live, lost, committed, reply>>

Block(o, n) == [offset |-> o, size |-> n]

End(b) == b.offset + b.size

Span(o, n) == o .. (o + n - 1)

Bytes(b) == Span(b.offset, b.size)

Covered(F) == UNION {Bytes(b) : b \in F}

(* What VirtualAlloc does to an address it is given. *)
RoundDown(x) == PageSize * (x \div PageSize)

(* Mutant: the size is not aligned. *)
AlignSizeNot(size) == size

AlignSize(size) == PageSize * ((size + PageSize - 1) \div PageSize)

(* The pages VirtualAlloc and VirtualFree act on: all that n bytes from o touch. *)
PagesOf(o, n) == {RoundDown(x) : x \in Span(o, n)}

Answer(status, p, n) == [status |-> status, preferred |-> p, size |-> n]

Init ==
  /\ freeBlocks = {Block(0, Total)}
  /\ live = {}
  /\ lost = {}
  /\ committed = {}
  /\ reply = Answer("none", 0, 0)

(***************************************************************************)
(* mergeFreeBlocks: blocks that touch become one.  A merged block begins   *)
(* at an offset where no block ends and runs to the first end where no     *)
(* block begins.                                                           *)
(***************************************************************************)
Offsets(F) == {b.offset : b \in F}

Ends(F) == {End(b) : b \in F}

Runs(starts, ends) ==
  {Block(r[1], r[2] - r[1]) :
     r \in {s \in starts \X ends : /\ s[1] < s[2]
                                  /\ \A e \in ends : s[1] < e => s[2] <= e}}

(* Mutant: the blocks are left as they are. *)
MergeNothing(F) == F

MergeFreeBlocks(F) == Runs(Offsets(F) \ Ends(F), Ends(F) \ Offsets(F))

(* splitFreeBlock: what is left of b around the n bytes taken at o.        *)
(* Mutants: the left remainder is dropped, the right one is n too long.    *)
LeftOfDropped(b, o) == {}

LeftOf(b, o) ==
  IF o > b.offset THEN {Block(b.offset, o - b.offset)} ELSE {}

RightOfTooLong(b, o, n) ==
  IF o + n < End(b) THEN {Block(o + n, End(b) - o)} ELSE {}

RightOf(b, o, n) ==
  IF o + n < End(b) THEN {Block(o + n, End(b) - (o + n))} ELSE {}

SplitFreeBlock(F, b, o, n) ==
  MergeFreeBlocks((F \ {b}) \cup LeftOf(b, o) \cup RightOf(b, o, n))

(* The blocks that hold the preferred range, and those long enough.        *)
(* Mutants: the range may not reach the end of the block, and it must      *)
(* begin where the block does.                                             *)
HoldsPreferredInside(p, n) ==
  {b \in freeBlocks : p # 0 /\ b.offset <= p /\ p + n < End(b)}

HoldsPreferredAtStart(p, n) ==
  {b \in freeBlocks : p # 0 /\ b.offset = p /\ p + n <= End(b)}

HoldsPreferred(p, n) ==
  {b \in freeBlocks : p # 0 /\ b.offset <= p /\ p + n <= End(b)}

(* Mutant: a block of just the size will not do. *)
LongerThan(n) == {b \in freeBlocks : n < b.size}

LongEnough(n) == {b \in freeBlocks : n <= b.size}

(* The loops of allocate look at the blocks by increasing offset. *)
IsFirst(b, S) == b \in S /\ \A c \in S : b.offset <= c.offset

(***************************************************************************)
(* What allocate decides before it calls VirtualAlloc: the n bytes at o,   *)
(* out of free block b.                                                    *)
(***************************************************************************)
Choice(p, n, b, o) ==
  IF HoldsPreferred(p, n) # {}
  THEN IsFirst(b, HoldsPreferred(p, n)) /\ o = p
  ELSE IsFirst(b, LongEnough(n)) /\ o = b.offset

(* allocate succeeds.  VirtualAlloc refuses to commit no bytes. *)
AllocateOK(p, n) ==
  \E b \in freeBlocks : \E o \in {p, b.offset} :
    /\ Choice(p, n, b, o)
    /\ n > 0
    /\ freeBlocks' = SplitFreeBlock(freeBlocks, b, o, n)
    /\ live' = live \cup {[offset |-> RoundDown(o), size |-> n, booked |-> o]}
    /\ committed' = committed \cup PagesOf(o, n)
    /\ reply' = Answer("ok", p, n)
    /\ UNCHANGED lost

(* The commit fails: allocate throws with the block already taken. *)
AllocateThrows(p, n) ==
  \E b \in freeBlocks : \E o \in {p, b.offset} :
    /\ Choice(p, n, b, o)
    /\ freeBlocks' = SplitFreeBlock(freeBlocks, b, o, n)
    /\ lost' = lost \cup Span(o, n)
    /\ reply' = Answer("thrown", p, n)
    /\ UNCHANGED <<live, committed>>

(* No block will do: allocate returns nullptr. *)
AllocateNull(p, n) ==
  /\ HoldsPreferred(p, n) = {}
  /\ LongEnough(n) = {}
  /\ reply' = Answer("null", p, n)
  /\ UNCHANGED <<freeBlocks, live, lost, committed>>

Allocate(p, size) ==
  LET n == AlignSize(size)
  IN AllocateOK(p, n) \/ AllocateThrows(p, n) \/ AllocateNull(p, n)

(* free, given back the pointer and the size of an allocation. *)
Free(a) ==
  /\ FreeCalled
  /\ committed' = committed \ PagesOf(a.offset, a.size)
  /\ freeBlocks' = MergeFreeBlocks(freeBlocks \cup {Block(a.offset, a.size)})
  /\ live' = live \ {a}
  /\ reply' = Answer("freed", 0, a.size)
  /\ UNCHANGED lost

(* VirtualFree fails: free throws before it has changed anything. *)
FreeThrows(a) ==
  /\ FreeCalled
  /\ reply' = Answer("thrown", 0, a.size)
  /\ UNCHANGED <<freeBlocks, live, lost, committed>>

Next ==
  \/ \E p \in Preferred, size \in Requests : Allocate(p, size)
  \/ \E a \in live : Free(a) \/ FreeThrows(a)

Spec == Init /\ [][Next]_vars

-----------------------------------------------------------------------------
(* Every variable has its type, inside the reserved region. *)
TypeOK ==
  /\ freeBlocks \subseteq [offset : 0 .. Total, size : 1 .. Total]
  /\ live \subseteq [offset : 0 .. Total, size : 1 .. Total, booked : 0 .. Total]
  /\ lost \subseteq Span(0, Total)
  /\ committed \subseteq Span(0, Total)
  /\ reply \in [status : {"none", "ok", "thrown", "null", "freed"},
                preferred : Nat, size : Nat]

(* Two clients never hold the same guest address: the ranges allocate      *)
(* returned and nobody freed are disjoint, also when a preferredOffset off *)
(* a page boundary made VirtualAlloc round the pointer down.               *)
NoOverlap ==
  \A a, b \in live : a # b => Span(a.offset, a.size) \cap Span(b.offset, b.size) = {}

Booked(a) == Span(a.booked, a.size)

Available == Covered(freeBlocks)

(* No address is lost track of, and none is in two places: each address of *)
(* the region is in one free block, booked by one allocation, or in a      *)
(* stretch a failed commit took out of the list.                           *)
Conservation ==
  /\ Span(0, Total) = Available \cup (UNION {Booked(a) : a \in live}) \cup lost
  /\ \A a \in live : Booked(a) \cap (Available \cup lost) = {}
  /\ Available \cap lost = {}
  /\ \A a, b \in live : a # b => Booked(a) \cap Booked(b) = {}

(* The list is coalesced: between two free blocks there is always an       *)
(* address that is not free, so a request is refused only when no free     *)
(* stretch is long enough.                                                 *)
Apart(F) == \A b, c \in F : b # c => End(b) < c.offset \/ End(c) < b.offset

Coalesced == Apart(freeBlocks)

(* A client can touch all of what it holds: its pages stay committed until *)
(* it frees them, whatever else is freed.                                  *)
HeldIsCommitted ==
  \A a \in live : PagesOf(a.offset, a.size) \subseteq committed

(* The address space this allocator implements. *)
Space == INSTANCE AddressSpace WITH
  available <- Available,
  held <- {[offset |-> a.offset, size |-> a.size] : a \in live}

ImplementsAddressSpace == Space!Spec
=============================================================================
