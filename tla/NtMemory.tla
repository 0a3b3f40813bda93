------------------------------ MODULE NtMemory ------------------------------
(***************************************************************************)
(* The guest's calls to the memory manager, once XRuntime::init is over:   *)
(* NtAllocateVirtualMemory of XboxKrnl_Impl.h, and NtFreeVirtualMemory,    *)
(* which is a stub.  The guest passes the addresses of two words, the base *)
(* it wishes and the size; both hold big-endian values.  A word has two    *)
(* digits here where it has four bytes in the code, so Total = Digit^2.    *)
(***************************************************************************)
EXTENDS Boot

CONSTANTS
  Digit,        (* a word has two digits of this base                      *)
  LargePage,    (* 64 KiB in the code                                      *)
  HugePage,     (* 16 MiB in the code                                      *)
  GuestBases,   (* the bases guests ask for                                *)
  GuestSizes    (* the sizes guests ask for                                *)

ASSUME WordAssumption ==
  /\ Digit \in Nat
  /\ Total = Digit * Digit
  /\ GuestBases \cup GuestSizes \subseteq 0 .. Total - 1

(* Large and huge pages are whole numbers of pages. *)
ASSUME PageAssumption ==
  \A page \in {LargePage, HugePage} : page \in 1 .. Total /\ page % PageSize = 0

Flags == {"commit", "reserve", "large", "huge"}

VARIABLE
  call          (* the last call of the guest and what it was told         *)

ntVars == <<vars, bootVars, call>>

(* BeField: the host reads a word's digits in the other order. *)
Swap(x) == (x % Digit) * Digit + (x \div Digit)

NoCall == [status |-> "none", flags |-> {}, wanted |-> 0, told |-> 0, size |-> 0]

InitNt == InitBoot /\ call = NoCall

PageAlignment(flags) ==
  CASE "large" \in flags                       -> LargePage
    [] "large" \notin flags /\ "huge" \in flags -> HugePage
    [] OTHER                                   -> PageSize

(* Mutant: the size is rounded down. *)
AlignWordDown(size, page) == page * (size \div page)

(* (size + (pageAlignment - 1)) & ~(pageAlignment - 1), in 32 bits. *)
AlignWord(size, page) == page * (((size + page - 1) % Total) \div page)

(* What the guest finds in its two words, as the guest reads them. *)
Told(status, flags, size, base, aligned) ==
  [status |-> status, flags |-> flags, wanted |-> size, told |-> base, size |-> aligned]

(* The guest asks for a range at base while reserving.                     *)
NotImplemented(base, size, flags) ==
  /\ "reserve" \in flags
  /\ base # 0
  /\ call' = Told("NOT_IMPLEMENTED", flags, size, 0, size)
  /\ UNCHANGED <<vars, bootVars>>

Accepted(base, flags) == "reserve" \notin flags \/ base = 0

(***************************************************************************)
(* XAlloc is asked.  The base is passed on as the host reads the word, its *)
(* digits not swapped; the offset of the result is written swapped.        *)
(***************************************************************************)
AskHeap(base, size, flags) ==
  LET n == AlignWord(size, PageAlignment(flags)) IN
  /\ Accepted(base, flags)
  /\ "commit" \notin flags
  /\ Allocate(Swap(base), n)
  /\ \/ /\ reply'.status = "ok"
        /\ call' = Told("SUCCESS", flags, size, Granted.offset, n)
        /\ UNCHANGED bootVars
     \/ /\ reply'.status = "null"
        /\ call' = Told("NO_MEMORY", flags, size, 0, size)
        /\ UNCHANGED bootVars
     \/ /\ reply'.status = "thrown"
        /\ pc' = "dead"
        /\ UNCHANGED <<call, metadata, image, structs, words, stack>>

(* With XMEM_COMMIT nothing is allocated. *)
Commit(base, size, flags) ==
  /\ Accepted(base, flags)
  /\ "commit" \in flags
  /\ call' = Told("SUCCESS", flags, size, base, AlignWord(size, PageAlignment(flags)))
  /\ UNCHANGED <<vars, bootVars>>

NtAllocateVirtualMemory(base, size, flags) ==
  /\ pc = "guest"
  /\ \/ NotImplemented(base, size, flags)
     \/ AskHeap(base, size, flags)
     \/ Commit(base, size, flags)

(* The stub prints its name. *)
NtFreeVirtualMemory ==
  /\ pc = "guest"
  /\ call' = NoCall
  /\ UNCHANGED <<vars, bootVars>>

NextNt ==
  \/ BootNext /\ UNCHANGED call
  \/ \E base \in GuestBases, size \in GuestSizes, flags \in SUBSET Flags :
       NtAllocateVirtualMemory(base, size, flags)
  \/ NtFreeVirtualMemory

SpecNt == InitNt /\ [][NextNt]_ntVars

-----------------------------------------------------------------------------
(* Once the guest runs, each imported variable has a live structure of its *)
(* own, clear of the image, the stack and the other structures, and the    *)
(* variable's word holds its address; the module handle goes through a     *)
(* pointer.  The one exception is a module handle whose word follows the   *)
(* hardware info's: write32To of the latter zeroes it.                     *)
ImportsResolved ==
  pc = "guest" /\ metadata # NoImage =>
    LET own == [n \in {Handle, Hardware} |-> IF n = Handle THEN "handlePtr" ELSE "hardware"]
        overwritten(n) == /\ n = Handle
                          /\ Imports(Hardware)
                          /\ metadata.slots[Handle] = metadata.slots[Hardware] + 1
    IN /\ \A n \in {Handle, Hardware} : Imports(n) =>
            /\ own[n] \in DOMAIN structs
            /\ ~ overwritten(n) => words[metadata.slots[n]] = structs[own[n]]
       /\ Imports(Handle) => words[structs["handlePtr"]] = structs["handle"]
       /\ \A n \in DOMAIN structs : \E a \in live \ {image, stack} : a.offset = structs[n]
       /\ \A m, n \in DOMAIN structs : m # n => structs[m] # structs[n]

(* When the image is in memory, each section lies inside the allocation    *)
(* made for the image, at the address it was linked for: boot dies rather  *)
(* than let a section run into what is allocated after it.                 *)
ImageIntact ==
  image # NoImage =>
    /\ image.offset = metadata.base
    /\ \A i \in DOMAIN metadata.sections :
         LET s == metadata.sections[i]
         IN Span(image.offset + s.offset, s.size) \subseteq Span(image.offset, image.size)

(* A guest told SUCCESS without XMEM_COMMIT holds a range at the base it   *)
(* was told, no shorter than it was told and no shorter than it wanted,    *)
(* whatever the alignment and however the size wraps.                      *)
ToldWhatItHolds ==
  call.status = "SUCCESS" /\ "commit" \notin call.flags =>
    /\ call.wanted <= call.size
    /\ \E a \in live : a.offset = call.told /\ call.size <= a.size

(* A call that fails takes nothing from the heap and leaves the guest no   *)
(* base address to mistake for a range; and it is told that memory is out  *)
(* only when no free stretch holds what it wanted, rounded up to its kind  *)
(* of page: splits for other bases never hide a stretch from first fit.    *)
FailureIsHonest ==
  [][call' # call /\ call'.status \in {"NOT_IMPLEMENTED", "NO_MEMORY"} =>
       LET page == PageAlignment(call'.flags)
           n    == page * ((call'.wanted + page - 1) \div page)
       IN /\ call'.told = 0
          /\ UNCHANGED <<freeBlocks, live, lost>>
          /\ call'.status = "NO_MEMORY" =>
               \A o \in Available : ~ Span(o, n) \subseteq Available]_ntVars

(* What "allocation was OK" says of X_STATUS_SUCCESS: the guest now holds  *)
(* the range it is told of.                                                *)
SuccessMeansAllocated ==
  call.status = "SUCCESS" =>
    \E a \in live : a.offset = call.told /\ call.size <= a.size
=============================================================================
