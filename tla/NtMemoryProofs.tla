--------------------------- MODULE NtMemoryProofs ---------------------------
(***************************************************************************)
(* Proofs about Boot and NtMemory, for every region, page size, image and  *)
(* set of calls: start-up and the guest use the memory manager as XAlloc   *)
(* and AddressSpace say, the image and the imported variables are where    *)
(* they should be, and the guest is told the truth.                        *)
(***************************************************************************)
EXTENDS NtMemory, XAllocProofs, FoldLemmas

-----------------------------------------------------------------------------
(* Numbers and pages.                                                      *)

(* Addresses, sizes and bases are words, and those a caller may pass. *)
LEMMA WordsAreRequests ==
  /\ \A x : x \in 0 .. Total - 1 => x \in Preferred /\ x \in Requests /\ x \in Nat
  /\ 0 \in 0 .. Total - 1
  /\ Span(0, Total) = 0 .. Total - 1
BY ParameterAssumption, SpaceAssumption DEF Span

(* What % says of a page boundary. *)
LEMMA RemainderMultiple ==
  ASSUME NEW x \in Nat, x % PageSize = 0
  PROVE  Multiple(x)
<1>1. x \div PageSize \in Nat /\ x = PageSize * (x \div PageSize)
  BY SpaceAssumption
<1> QED BY <1>1 DEF Multiple

(* AlignSize rounds up to the next page boundary. *)
LEMMA AlignSizeBounds ==
  ASSUME NEW n \in Nat
  PROVE  n <= AlignSize(n) /\ AlignSize(n) < n + PageSize
<1> DEFINE q == (n + PageSize - 1) \div PageSize
<1>1. q \in Nat /\ n + PageSize - 1 = PageSize * q + ((n + PageSize - 1) % PageSize)
  BY SpaceAssumption
<1>2. (n + PageSize - 1) % PageSize \in 0 .. PageSize - 1
  BY SpaceAssumption
<1>3. PageSize * q \in Nat
  BY <1>1, SpaceAssumption
<1>4. AlignSize(n) = PageSize * q
  BY DEF AlignSize
<1> HIDE DEF q
<1> QED BY <1>1, <1>2, <1>3, <1>4, SpaceAssumption

(* A whole number of pages is left as it is. *)
LEMMA AlignSizeMultiple ==
  ASSUME NEW n \in Nat, Multiple(n)
  PROVE  AlignSize(n) = n
<1>1. AlignSize(n) \in Nat /\ Multiple(AlignSize(n))
  BY AlignSizeIs
<1>2. n <= AlignSize(n) /\ AlignSize(n) < n + PageSize
  BY AlignSizeBounds
<1>3. CASE n < AlignSize(n)
  BY <1>1, <1>2, <1>3, MultipleStep, SpaceAssumption
<1> QED BY <1>1, <1>2, <1>3

(* What begins and ends inside a stretch of whole pages, page by page. *)
LEMMA AlignSizeFits ==
  ASSUME NEW n \in Nat, NEW m \in Nat, Multiple(m), n <= m
  PROVE  AlignSize(n) <= m
<1>1. AlignSize(n) \in Nat /\ Multiple(AlignSize(n))
  BY AlignSizeIs
<1>2. n <= AlignSize(n) /\ AlignSize(n) < n + PageSize
  BY AlignSizeBounds
<1>3. CASE m < AlignSize(n)
  <2>1. m + PageSize <= AlignSize(n)
    BY <1>1, <1>3, MultipleStep
  <2> QED BY <1>1, <1>2, <2>1, SpaceAssumption
<1> QED BY <1>1, <1>3

(* The byte order of a word stays inside a word. *)
LEMMA SwapIs ==
  ASSUME NEW x \in 0 .. Total - 1
  PROVE  Swap(x) \in 0 .. Total - 1
<1>1. Digit \in Nat \ {0} /\ Total = Digit * Digit
  BY WordAssumption, SpaceAssumption
<1> DEFINE q == x \div Digit
           r == x % Digit
<1>2. q \in Nat /\ r \in 0 .. Digit - 1 /\ x = Digit * q + r
  BY <1>1
<1>3. q < Digit
  <2>1. CASE Digit <= q
    <3>1. Digit * Digit <= Digit * q
      BY <1>1, <1>2, <2>1
    <3> QED BY <1>1, <1>2, <3>1
  <2> QED BY <1>1, <1>2, <2>1
<1>4. Swap(x) = r * Digit + q
  BY DEF Swap
<1> HIDE DEF q, r
<1>5. r * Digit <= (Digit - 1) * Digit /\ r * Digit \in Nat /\ (Digit - 1) * Digit = Total - Digit
  BY <1>1, <1>2
<1> QED BY <1>1, <1>2, <1>3, <1>4, <1>5

(* The pages of one request: one page. *)
LEMMA OnePage ==
  /\ AlignSize(1) = PageSize
  /\ Multiple(PageSize) /\ Multiple(0) /\ Multiple(2 * PageSize)
<1>1. Multiple(PageSize) /\ Multiple(2 * PageSize)
  <2>1. PageSize = PageSize * 1 /\ 2 * PageSize = PageSize * 2
    BY SpaceAssumption
  <2> QED BY <2>1 DEF Multiple
<1>2. /\ AlignSize(1) \in Nat /\ Multiple(AlignSize(1))
      /\ 1 <= AlignSize(1) /\ AlignSize(1) < 1 + PageSize
  BY AlignSizeIs, AlignSizeBounds
<1>3. AlignSize(1) <= PageSize
  BY <1>1, AlignSizeFits, SpaceAssumption
<1>4. CASE AlignSize(1) < PageSize
  <2>1. AlignSize(1) + PageSize <= PageSize
    BY <1>1, <1>2, <1>4, MultipleStep
  <2> QED BY <1>2, <2>1, SpaceAssumption
<1> QED BY <1>1, <1>2, <1>3, <1>4, TotalMultiple, SpaceAssumption

-----------------------------------------------------------------------------
(* What one allocate does.                                                 *)

(* The answer tells which of its three ways allocate took. *)
LEMMA AnswerTells ==
  ASSUME NEW p, NEW size, Allocate(p, size)
  PROVE  /\ reply'.status \in {"ok", "null", "thrown"}
         /\ reply'.status = "ok" => AllocateOK(p, AlignSize(size))
         /\ reply'.status = "null" => AllocateNull(p, AlignSize(size))
         /\ reply'.status = "thrown" => AllocateThrows(p, AlignSize(size))
<1> DEFINE n == AlignSize(size)
<1>1. AllocateOK(p, n) => reply'.status = "ok"
  BY DEF AllocateOK, Answer
<1>2. AllocateNull(p, n) => reply'.status = "null"
  BY DEF AllocateNull, Answer
<1>3. AllocateThrows(p, n) => reply'.status = "thrown"
  BY DEF AllocateThrows, Answer
<1>4. AllocateOK(p, n) \/ AllocateThrows(p, n) \/ AllocateNull(p, n)
  BY DEF Allocate
<1> QED BY <1>1, <1>2, <1>3, <1>4

(* What a client is given is new, out of what was free, and the rest of    *)
(* what was free stays so.                                                 *)
LEMMA GrantIs ==
  ASSUME IInv, NEW p \in Preferred, NEW n \in Nat, Multiple(n), AllocateOK(p, n)
  PROVE  \E b \in freeBlocks : \E o \in Nat :
           /\ Choice(p, n, b, o)
           /\ n > 0
           /\ Granted = [offset |-> RoundDown(o), size |-> n, booked |-> o]
           /\ Granted \notin live
           /\ live' = live \cup {Granted}
           /\ committed' = committed \cup PagesOf(o, n)
           /\ Available' = Available \ Span(o, n)
<1>1. PICK b, o :
        /\ b \in freeBlocks
        /\ o \in {p, b.offset}
        /\ Choice(p, n, b, o)
        /\ n > 0
        /\ freeBlocks' = SplitFreeBlock(freeBlocks, b, o, n)
        /\ live' = live \cup {[offset |-> RoundDown(o), size |-> n, booked |-> o]}
        /\ committed' = committed \cup PagesOf(o, n)
  BY DEF AllocateOK
<1>2. /\ o \in Nat
      /\ BlocksOK'
      /\ Available' = Available \ Span(o, n)
      /\ Span(o, n) \subseteq Available
      /\ FreeCalled => /\ Multiple(o)
                       /\ \A x \in Offsets(freeBlocks') \cup Ends(freeBlocks') : Multiple(x)
  BY <1>1, TakeStep
<1> DEFINE new == [offset |-> RoundDown(o), size |-> n, booked |-> o]
<1>3. new \notin live
  <2> SUFFICES ASSUME new \in live PROVE FALSE
    OBVIOUS
  <2>1. Booked(new) \cap Available = {}
    BY DEF IInv, Conservation
  <2>2. Booked(new) = Span(o, n)
    BY DEF Booked
  <2>3. o \in Span(o, n)
    BY <1>1, <1>2 DEF Span
  <2> QED BY <1>2, <2>1, <2>2, <2>3
<1>4. live' = live \cup {new}
  BY <1>1
<1>5. Granted = new
  <2> HIDE DEF new
  <2>1. live' \ live = {new}
    BY <1>3, <1>4
  <2> QED BY <2>1 DEF Granted
<1> QED BY <1>1, <1>2, <1>3, <1>4, <1>5

(* An allocate keeps the invariant of XAlloc and takes nothing back. *)
LEMMA AllocateKeeps ==
  ASSUME IInv, NEW p \in Preferred, NEW size \in Requests, Allocate(p, size)
  PROVE  IInv' /\ live \subseteq live' /\ Next
<1>1. Next
  BY DEF Next
<1>2. live \subseteq live'
  BY DEF Allocate, AllocateOK, AllocateThrows, AllocateNull
<1> QED BY <1>1, <1>2, NextIInv

(* First fit: where all below low is taken and what follows is free, a     *)
(* page without a wish is taken at low.                                    *)
LEMMA FirstFit ==
  ASSUME IInv, NEW low \in Nat, NEW top \in Nat, low + PageSize <= top,
         \A x \in Span(0, top) : x \in Available <=> low <= x
  PROVE  /\ LongEnough(PageSize) # {}
         /\ \A b \in freeBlocks : \A o : Choice(0, PageSize, b, o) => o = low
<1>1. freeBlocks \subseteq Blocks /\ Apart(freeBlocks) /\ PageSize \in Nat \ {0}
  BY SpaceAssumption DEF IInv, BlocksOK
<1>2. low \in Available /\ Span(low, PageSize) \subseteq Available
  BY <1>1 DEF Span
<1>3. PICK c \in freeBlocks : c.offset <= low /\ low + PageSize <= End(c)
  BY <1>1, <1>2, InOneBlock DEF Available
<1>4. ASSUME NEW b \in freeBlocks
      PROVE  b.offset \in Nat /\ b.size \in Nat \ {0} /\ (b.offset < low => FALSE)
  <2>1. b.offset \in Nat /\ b.size \in Nat \ {0}
    BY <1>1 DEF Blocks
  <2>2. b.offset \in Bytes(b)
    BY <2>1 DEF Bytes, Span
  <2>3. b.offset \in Available
    BY <2>2 DEF Available, Covered
  <2>4. b.offset < low => b.offset \in Span(0, top)
    BY <2>1, <1>1 DEF Span
  <2> QED BY <2>1, <2>3, <2>4
<1>5. c.offset = low /\ c \in LongEnough(PageSize)
  BY <1>1, <1>3, <1>4 DEF LongEnough, End
<1>6. ASSUME NEW b \in freeBlocks, NEW o, Choice(0, PageSize, b, o) PROVE o = low
  <2>1. HoldsPreferred(0, PageSize) = {}
    BY DEF HoldsPreferred
  <2>2. b.offset <= c.offset /\ o = b.offset
    BY <1>5, <1>6, <2>1 DEF Choice, IsFirst
  <2> QED BY <1>4, <1>5, <2>2
<1> QED BY <1>5, <1>6

-----------------------------------------------------------------------------
(* What write32To stores.                                                  *)

Memory == [Span(0, Total) -> Nat]

(* A store sets its word, zeroes the next, and leaves the others alone.    *)
LEMMA Write32Is ==
  ASSUME NEW m \in Memory, NEW a \in Nat, NEW v \in Nat
  PROVE  /\ Write32(m, <<a, v>>) \in Memory
         /\ \A x \in Span(0, Total) :
              Write32(m, <<a, v>>)[x] = IF x = a THEN v ELSE IF x = a + 1 THEN 0 ELSE m[x]
<1>1. a # a + 1
  OBVIOUS
<1> QED BY <1>1 DEF Write32, Memory, Span

(* A sequence of stores. *)
Stored(m, s) == FoldLeft(Write32, m, s)

(* g[k] is the memory after the first k stores. *)
InTurn(g, m, n, s) ==
  /\ g[0] = m
  /\ \A k \in 1 .. n : g[k - 1] \in Memory /\ g[k] = Write32(g[k - 1], s[k])
  /\ g[n] = Stored(m, s)

(* FoldLeft makes the stores of a sequence one after the other. *)
LEMMA StoresInTurn ==
  ASSUME NEW m \in Memory, NEW n \in Nat, NEW s \in [1 .. n -> Nat \X Nat]
  PROVE  \E g : InTurn(g, m, n, s)
<1> DEFINE V == Memory
           h == [p \in V \X (1 .. n) |-> Write32(p[1], s[p[2]])]
           E(g) == g = [t \in SUBSET (1 .. n) |->
                          IF t = {} THEN m ELSE Write32(g[t \ {Max(t)}], s[Max(t)])]
           f == CHOOSE g : E(g)
<1>1. ASSUME NEW v \in V, NEW k \in 1 .. n PROVE Write32(v, s[k]) \in V
  <2>1. PICK a \in Nat, x \in Nat : s[k] = <<a, x>>
    OBVIOUS
  <2> QED BY <2>1, Write32Is
<1>2. \A v \in V, k \in 1 .. n : h[<<v, k>>] = Write32(v, s[k]) /\ h[<<v, k>>] \in V
  BY <1>1
<1>3. m \in V /\ DOMAIN s = 1 .. n
  OBVIOUS
<1> HIDE DEF V, h
<1>4. FoldDefined(n, V, m, h)
  BY <1>2, <1>3, FoldExists
<1>5. \E g : E(g)
  <2>1. PICK g \in [SUBSET (1 .. n) -> V] :
               g = [t \in SUBSET (1 .. n) |->
                      IF t = {} THEN m ELSE h[<<g[t \ {Max(t)}], Max(t)>>]]
    BY <1>4 DEF FoldDefined, FoldEquation
  <2>2. ASSUME NEW t \in SUBSET (1 .. n), t # {}
        PROVE  h[<<g[t \ {Max(t)}], Max(t)>>] = Write32(g[t \ {Max(t)}], s[Max(t)])
    <3>1. Max(t) \in 1 .. n
      BY <2>2, MaxOfSome
    <3>2. g[t \ {Max(t)}] \in V
      OBVIOUS
    <3> QED BY <3>1, <3>2, <1>2
  <2>3. E(g)
    BY <2>1, <2>2
  <2> QED BY <2>3
<1>6. E(f)
  BY <1>5
<1>7. Stored(m, s) = f[1 .. n]
  BY <1>3 DEF Stored, FoldLeft, MapThenFoldSet
<1> HIDE DEF f
<1> DEFINE g == [k \in 0 .. n |-> f[1 .. k]]
<1>8. f[{}] = m /\ 1 .. 0 = {}
  BY <1>6
<1>9. ASSUME NEW k \in Nat, k < n
      PROVE  f[1 .. (k + 1)] = Write32(f[1 .. k], s[k + 1])
  <2> DEFINE t == 1 .. (k + 1)
  <2>1. t \in SUBSET (1 .. n) /\ t # {}
    <3>1. k + 1 \in t /\ \A x \in t : x \in Int /\ 1 <= x /\ x <= k + 1
      OBVIOUS
    <3>2. k + 1 <= n
      BY <1>9
    <3> HIDE DEF t
    <3> QED BY <3>1, <3>2
  <2>2. Max(t) = k + 1 /\ t \ {k + 1} = 1 .. k
    BY MaxOfInterval
  <2> HIDE DEF t
  <2>3. f[t] = Write32(f[t \ {Max(t)}], s[Max(t)])
    BY <1>6, <2>1
  <2> QED BY <2>2, <2>3 DEF t
<1> DEFINE T == {k \in Nat : k <= n => f[1 .. k] \in V}
<1>10. n \in T /\ \A k \in 0 .. n : f[1 .. k] \in V
  <2>1. 0 \in T
    BY <1>8, <1>3
  <2>2. ASSUME NEW k \in Nat, k \in T PROVE k + 1 \in T
    <3> SUFFICES ASSUME k + 1 <= n PROVE f[1 .. (k + 1)] \in V
      OBVIOUS
    <3>1. f[1 .. k] \in V /\ k + 1 \in 1 .. n
      BY <2>2
    <3>2. Write32(f[1 .. k], s[k + 1]) \in V
      BY <1>1, <3>1
    <3> QED BY <1>9, <3>2
  <2> HIDE DEF T
  <2>3. Nat \subseteq T
    BY <2>1, <2>2, Induction
  <2> QED BY <2>3 DEF T
<1>11. g[0] = m /\ g[n] = Stored(m, s)
  BY <1>7, <1>8
<1>12. ASSUME NEW k \in 1 .. n
       PROVE  g[k - 1] \in V /\ g[k] = Write32(g[k - 1], s[k])
  <2>1. k - 1 \in Nat /\ k - 1 < n /\ (k - 1) + 1 = k /\ k - 1 \in 0 .. n
    OBVIOUS
  <2>2. f[1 .. k] = Write32(f[1 .. (k - 1)], s[k])
    BY <1>9, <2>1
  <2> QED BY <1>10, <2>1, <2>2
<1>13. InTurn(g, m, n, s)
  BY <1>11, <1>12 DEF InTurn, V
<1> QED BY <1>13

-----------------------------------------------------------------------------
(* The inductive invariant.                                                *)

Steps == {"importMetadata", "allocateSectionsData", "initImpVars", "handlePtr", "writeHandle",
          "hardware", "writeHardware", "initMainThread", "guest", "dead"}

(* Where init is once the image is in memory. *)
Loaded == metadata # NoImage /\ pc \notin {"importMetadata", "allocateSectionsData", "dead"}

(* The structures allocated so far, and where first fit puts them. *)
Made ==
  {n \in {"handle", "handlePtr", "hardware"} :
     \/ n = "handle" /\ Imports(Handle) /\ pc # "initImpVars"
     \/ n = "handlePtr" /\ Imports(Handle) /\ pc \notin {"initImpVars", "handlePtr"}
     \/ n = "hardware" /\ Imports(Hardware) /\ pc \in {"writeHardware", "initMainThread", "guest"}}

HardwarePlace == IF Imports(Handle) THEN 2 * PageSize ELSE 0

Place(n) ==
  IF n = "handle" THEN 0 ELSE IF n = "handlePtr" THEN PageSize ELSE HardwarePlace

(* Below the image, all is taken up to here and the rest is free. *)
Low == IF pc = "initImpVars" THEN 0 ELSE IF pc = "handlePtr" THEN PageSize ELSE HardwarePlace

FreeFrom(low) == \A x \in Span(0, metadata.base) : x \in Available <=> low <= x

Untouched ==
  pc \in {"importMetadata", "allocateSectionsData"} =>
    /\ freeBlocks = {Block(0, Total)}
    /\ live = {} /\ committed = {}
    /\ image = NoImage
    /\ DOMAIN structs = {}

Course ==
  /\ metadata \in Images \cup {NoImage}
  /\ pc \in Steps
  /\ pc \notin {"guest", "dead"} => stack = NoImage
  /\ metadata = NoImage =>
       pc \in {"importMetadata", "allocateSectionsData", "initImpVars", "dead"}
  /\ pc \in {"handlePtr", "writeHandle"} => Imports(Handle)
  /\ pc = "writeHardware" => Imports(Hardware)

Standing(n) == \E a \in live : a \notin {image, stack} /\ a.offset = Place(n)

StructsOK ==
  Loaded =>
    /\ image # NoImage
    /\ DOMAIN structs = Made
    /\ \A n \in Made : structs[n] = Place(n) /\ Standing(n)
    /\ pc \in {"initImpVars", "handlePtr", "writeHandle", "hardware"} => FreeFrom(Low)

Overwritten ==
  Imports(Hardware) /\ metadata.slots[Handle] = metadata.slots[Hardware] + 1

HandleResolved ==
  /\ words[PageSize] = 0
  /\ metadata.slots[Handle] \in Span(0, Total)
  /\ \/ words[metadata.slots[Handle]] = PageSize
     \/ pc \in {"initMainThread", "guest"} /\ Overwritten

WordsOK ==
  /\ words \in Memory
  /\ Loaded =>
       /\ Imports(Handle) /\ pc \in {"hardware", "writeHardware", "initMainThread", "guest"} =>
            HandleResolved
       /\ Imports(Hardware) /\ pc \in {"initMainThread", "guest"} =>
            words[metadata.slots[Hardware]] = HardwarePlace

(* Start-up, and the guest behind it, have left all where it should be. *)
BootInv == Untouched /\ Course /\ ImageIntact /\ StructsOK /\ WordsOK

NtInv == IInv /\ BootInv /\ ToldWhatItHolds

-----------------------------------------------------------------------------
(* Every step is one of the memory manager.                                *)

(* What allocateSectionsData asks for begins at the base of the image and  *)
(* ends inside the address space.                                          *)
LEMMA AllocationSizeIs ==
  ASSUME NEW m \in Images
  PROVE  /\ AllocationSize(m.sections) \in Nat
         /\ m.base + AllocationSize(m.sections) <= Total
<1>1. /\ m.base \in Nat /\ m.base <= Total
      /\ m.sections \in Seq([offset : Nat, size : Nat])
      /\ \A i \in DOMAIN m.sections : m.base + m.sections[i].offset <= Total
  <2>1. m.base \in 3 * PageSize .. Total - 1
    BY ImageAssumption
  <2>2. m.base \in Nat /\ m.base <= Total
    BY <2>1, SpaceAssumption
  <2> QED BY <2>2, ImageAssumption
<1> DEFINE ss == m.sections
           behind == {i \in DOMAIN ss : i = 1 \/ ss[i].offset > ss[i - 1].offset}
<1>2. CASE ss = <<>>
  BY <1>1, <1>2 DEF AllocationSize
<1>3. CASE ss # <<>>
  <2>1. Len(ss) \in Nat \ {0} /\ DOMAIN ss = 1 .. Len(ss)
    BY <1>1, <1>3
  <2>2. behind \in SUBSET Int /\ behind # {} /\ \A x \in behind : x <= Len(ss)
    BY <2>1
  <2>3. Max(behind) \in behind /\ \A x \in behind : x <= Max(behind)
    <3>1. PICK a \in Int : a = Len(ss)
      BY <2>1
    <3> HIDE DEF behind
    <3> QED BY <2>2, <3>1, MaxIs
  <2>4. PICK k \in behind : k = CHOOSE i \in behind : \A j \in behind : j <= i
    BY <2>3
  <2>5. AllocationSize(ss) = ss[k].offset
    BY <1>3, <2>4 DEF AllocationSize
  <2>6. k \in DOMAIN ss
    OBVIOUS
  <2>7. ss[k].offset \in Nat
    <3> DEFINE R == [offset : Nat, size : Nat]
    <3>1. \A x \in R : x.offset \in Nat
      OBVIOUS
    <3>2. ss \in Seq(R)
      BY <1>1
    <3> HIDE DEF R
    <3>3. ss[k] \in R
      BY <2>6, <3>2
    <3> QED BY <3>1, <3>3
  <2> HIDE DEF behind
  <2> QED BY <1>1, <2>5, <2>6, <2>7
<1> QED BY <1>2, <1>3

(* The base and the size that allocateSectionsData asks for are words, and *)
(* the range it asks for lies on pages of the region.                      *)
LEMMA ImageRequest ==
  ASSUME NEW m \in Images
  PROVE  /\ m.base \in Preferred /\ AllocationSize(m.sections) \in Requests
         /\ m.base \in Nat /\ 3 * PageSize <= m.base /\ m.base <= Total /\ Multiple(m.base)
         /\ m.base + AlignSize(AllocationSize(m.sections)) <= Total
<1> DEFINE n == AllocationSize(m.sections)
<1>1. m.base \in 0 .. Total - 1 /\ 3 * PageSize <= m.base /\ m.base % PageSize = 0
  BY ImageAssumption, SpaceAssumption
<1>2. n \in Nat /\ m.base + n <= Total
  BY AllocationSizeIs
<1>3. Multiple(m.base)
  BY <1>1, RemainderMultiple
<1> HIDE DEF n
<1>4. Multiple(Total - m.base) /\ Total - m.base \in Nat
  <2>1. PICK i \in Nat, j \in Nat : Total = PageSize * i /\ m.base = PageSize * j
    BY <1>3, TotalMultiple DEF Multiple
  <2>2. PageSize * i - PageSize * j = PageSize * (i - j)
    BY <2>1, SpaceAssumption
  <2>3. i - j \in Nat
    <3>1. CASE i < j
      <4>1. PageSize * i <= PageSize * j
        BY <2>1, <3>1, SpaceAssumption
      <4> QED BY <1>1, <2>1, <4>1, SpaceAssumption
    <3> QED BY <2>1, <3>1
  <2> QED BY <1>1, <2>1, <2>2, <2>3, SpaceAssumption DEF Multiple
<1>5. AlignSize(n) <= Total - m.base
  BY <1>1, <1>2, <1>4, AlignSizeFits, SpaceAssumption
<1>6. AlignSize(n) \in Nat
  BY <1>2, AlignSizeIs
<1>7. n \in 0 .. Total - 1
  BY <1>1, <1>2, SpaceAssumption
<1> QED BY <1>1, <1>3, <1>5, <1>6, <1>7, WordsAreRequests, SpaceAssumption DEF n

(* What the guest asks for is, once aligned, a word. *)
LEMMA AlignWordIs ==
  ASSUME NEW size \in 0 .. Total - 1, NEW flags
  PROVE  LET page == PageAlignment(flags)
             n    == AlignWord(size, page)
         IN /\ page \in 1 .. Total /\ Multiple(page)
            /\ n \in 0 .. Total - 1
            /\ n = 0 \/ (size <= n /\ n = page * ((size + page - 1) \div page))
<1> DEFINE page == PageAlignment(flags)
           n    == AlignWord(size, page)
           wide == size + page - 1
<1>1. page \in {LargePage, HugePage, PageSize}
  BY DEF PageAlignment
<1>2. page \in 1 .. Total /\ Multiple(page)
  <2>1. CASE page \in {LargePage, HugePage}
    BY <2>1, PageAssumption, RemainderMultiple
  <2>2. CASE page = PageSize
    <3>1. PageSize <= Total
      <4>1. CASE Total < PageSize
        <5>1. Multiple(0) /\ Multiple(PageSize) /\ Multiple(Total)
          BY OnePage, TotalMultiple
        <5> QED BY <4>1, <5>1, MultipleStep, SpaceAssumption
      <4> QED BY <4>1, SpaceAssumption
    <3> QED BY <2>2, <3>1, OnePage, SpaceAssumption
  <2> QED BY <1>1, <2>1, <2>2
<1>3. wide \in Nat /\ wide < 2 * Total /\ Total \in Nat \ {0} /\ page \in Nat \ {0}
  BY <1>2, SpaceAssumption
<1>4. n = page * ((wide % Total) \div page)
  BY DEF AlignWord
<1> SUFFICES n \in 0 .. Total - 1 /\ (n = 0 \/ (size <= n /\ n = page * (wide \div page)))
  BY <1>2
<1> HIDE DEF page, n
<1>5. CASE wide < Total
  <2>1. wide % Total = wide
    BY <1>3, <1>5
  <2> DEFINE q == wide \div page
             r == wide % page
  <2>2. q \in Nat /\ r \in 0 .. page - 1 /\ wide = page * q + r /\ page * q \in Nat
    BY <1>3
  <2>3. n = page * q
    BY <1>4, <2>1
  <2> HIDE DEF q, r
  <2>4. size <= n /\ n <= wide /\ n \in Nat
    <3> DEFINE v == page * q
    <3>1. v \in Nat /\ wide = v + r /\ n = v
      BY <2>2, <2>3
    <3> HIDE DEF v
    <3> QED BY <1>3, <2>2, <3>1 DEF wide
  <2> QED BY <1>3, <1>5, <2>3, <2>4 DEF q
<1>6. CASE wide >= Total
  <2>1. wide % Total = wide - Total
    BY <1>3, <1>6
  <2>2. wide - Total \in 0 .. page - 1
    BY <1>2, <1>3, <1>6
  <2>3. (wide - Total) \div page = 0
    BY <1>3, <2>2
  <2>4. n = 0
    BY <1>3, <1>4, <2>1, <2>3
  <2> QED BY <1>3, <2>4
<1> QED BY <1>3, <1>5, <1>6

(* A step of start-up or of the guest is a step of XAlloc. *)
LEMMA NtStep == Course /\ [NextNt]_ntVars => [Next]_vars
<1> SUFFICES ASSUME Course, NextNt PROVE [Next]_vars
  BY DEF ntVars
<1>1. ASSUME NEW p \in Preferred, NEW size \in Requests, Allocate(p, size) PROVE Next
  BY <1>1 DEF Next
<1>2. ASSUME NEW size \in 0 .. Total - 1, Allocate(0, size) PROVE Next
  BY <1>1, <1>2, WordsAreRequests
<1>3. CASE AllocateSections
  BY <1>1, <1>3, ImageRequest DEF AllocateSections, Course
<1>4. ASSUME NEW name, NEW next, AllocateStruct(name, next) PROVE Next
  <2>1. 1 \in 0 .. Total - 1
    <3>1. PICK k \in Nat : Total = PageSize * k
      BY TotalMultiple DEF Multiple
    <3>2. k >= 1
      BY <3>1, SpaceAssumption
    <3>3. PageSize * k >= PageSize
      BY <3>2, SpaceAssumption
    <3> QED BY <3>1, <3>3, ImageAssumption, SpaceAssumption
  <2> QED BY <1>2, <1>4, <2>1 DEF AllocateStruct
<1>5. CASE InitMainThread
  BY <1>2, <1>5, ParameterAssumption DEF InitMainThread
<1>6. ASSUME NEW base \in GuestBases, NEW size \in GuestSizes, NEW flags \in SUBSET Flags,
             AskHeap(base, size, flags)
      PROVE  Next
  <2>1. base \in 0 .. Total - 1 /\ size \in 0 .. Total - 1
    BY WordAssumption
  <2>2. Swap(base) \in Preferred
    BY <2>1, SwapIs, WordsAreRequests
  <2>3. AlignWord(size, PageAlignment(flags)) \in Requests
    BY <2>1, AlignWordIs, WordsAreRequests
  <2> QED BY <1>1, <1>6, <2>2, <2>3 DEF AskHeap
<1>7. CASE BootNext
  BY <1>3, <1>4, <1>5, <1>7
  DEF BootNext, ImportMetadata, SkipSections, NoImports, AllocateHandle, AllocateHandlePtr,
      WriteHandle, WriteHardware, WriteAll, NoHandle, AllocateHardware, NoHardware
<1>8. ASSUME NEW base \in GuestBases, NEW size \in GuestSizes, NEW flags \in SUBSET Flags,
             NtAllocateVirtualMemory(base, size, flags)
      PROVE  Next \/ UNCHANGED vars
  BY <1>6, <1>8 DEF NtAllocateVirtualMemory, NotImplemented, Commit
<1>9. CASE NtFreeVirtualMemory
  BY <1>9 DEF NtFreeVirtualMemory
<1> QED BY <1>7, <1>8, <1>9 DEF NextNt

-----------------------------------------------------------------------------
(* Start-up keeps the invariant: first the steps that allocate nothing.    *)

(* Before the image, behind the last structure and in a process that died  *)
(* there is nothing more to say.                                           *)
LEMMA DeadStep ==
  ASSUME BootInv, pc' = "dead", UNCHANGED <<metadata, image, words>>
  PROVE  BootInv'
<1>1. Untouched' /\ Course' /\ StructsOK'
  BY DEF BootInv, Untouched, Course, StructsOK, Loaded, Steps
<1>2. ImageIntact'
  BY DEF BootInv, ImageIntact
<1>3. WordsOK'
  BY DEF BootInv, WordsOK, Loaded
<1> QED BY <1>1, <1>2, <1>3 DEF BootInv

(* With the metadata comes what ImageAssumption says of it.                *)
LEMMA ImportMetadataStep ==
  ASSUME BootInv, ImportMetadata
  PROVE  BootInv'
<1>1. /\ pc = "importMetadata" /\ pc' = "allocateSectionsData"
      /\ metadata' \in Images \cup {NoImage}
      /\ UNCHANGED <<vars, image, structs, words, stack>>
  BY DEF ImportMetadata
<1>2. Untouched' /\ Course' /\ StructsOK'
  BY <1>1 DEF BootInv, Untouched, Course, StructsOK, Loaded, Steps, vars
<1>3. ImageIntact'
  BY <1>1 DEF BootInv, ImageIntact, Untouched
<1>4. WordsOK'
  BY <1>1 DEF BootInv, WordsOK, Loaded
<1> QED BY <1>2, <1>3, <1>4 DEF BootInv

(* Without metadata init goes on to the imports, and dies there. *)
LEMMA NoMetadataStep ==
  ASSUME BootInv, SkipSections \/ NoImports
  PROVE  BootInv'
<1>1. CASE SkipSections
  <2>1. /\ pc = "allocateSectionsData" /\ pc' = "initImpVars" /\ metadata = NoImage
        /\ UNCHANGED <<vars, metadata, image, structs, words, stack>>
    BY <1>1 DEF SkipSections
  <2>2. Untouched' /\ Course' /\ StructsOK'
    BY <2>1 DEF BootInv, Untouched, Course, StructsOK, Loaded, Steps, vars
  <2>3. ImageIntact' /\ WordsOK'
    BY <2>1 DEF BootInv, ImageIntact, WordsOK, Loaded
  <2> QED BY <2>2, <2>3 DEF BootInv
<1>2. CASE NoImports
  BY <1>2, DeadStep DEF NoImports
<1> QED BY <1>1, <1>2

(* A variable that is not imported is passed over. *)
LEMMA NotImportedStep ==
  ASSUME BootInv, NoHandle \/ NoHardware
  PROVE  BootInv'
<1>1. UNCHANGED <<vars, metadata, image, structs, words, stack>>
  BY DEF NoHandle, NoHardware
<1>2. \/ /\ pc = "initImpVars" /\ pc' = "hardware"
         /\ metadata # NoImage /\ ~ Imports(Handle)
      \/ /\ pc = "hardware" /\ pc' = "initMainThread"
         /\ ~ Imports(Hardware)
  BY DEF NoHandle, NoHardware
<1>3. Imports(Handle)' = Imports(Handle) /\ Imports(Hardware)' = Imports(Hardware)
  BY <1>1 DEF Imports
<1>4. metadata # NoImage /\ Loaded /\ Loaded'
  BY <1>1, <1>2 DEF BootInv, Course, Loaded
<1>5. Untouched' /\ Course'
  BY <1>1, <1>2, <1>3, <1>4 DEF BootInv, Untouched, Course, Steps
<1>6. ImageIntact'
  BY <1>1 DEF BootInv, ImageIntact
<1>7. StructsOK'
  <2>1. Made' = Made
    BY <1>2, <1>3 DEF Made
  <2>2. HardwarePlace' = HardwarePlace /\ \A n : Place(n)' = Place(n)
    BY <1>3 DEF HardwarePlace, Place
  <2>3. \A n : Standing(n)' <=> Standing(n)
    BY <1>1, <2>2 DEF Standing, vars
  <2>4. pc' \in {"initImpVars", "handlePtr", "writeHandle", "hardware"} =>
          pc = "initImpVars" /\ Low' = 0 /\ Low = 0
    BY <1>2, <1>3, <2>2 DEF Low, HardwarePlace
  <2>5. FreeFrom(Low)' <=> \A x \in Span(0, metadata.base) : x \in Available <=> Low' <= x
    BY <1>1 DEF FreeFrom, Available, vars
  <2>6. StructsOK
    BY DEF BootInv
  <2> QED BY <1>1, <1>4, <2>1, <2>2, <2>3, <2>4, <2>5, <2>6 DEF StructsOK, FreeFrom
<1>8. WordsOK'
  <2>1. WordsOK
    BY DEF BootInv
  <2>2. HandleResolved => HandleResolved'
    BY <1>1, <1>2, <1>3 DEF HandleResolved, Overwritten
  <2>3. HardwarePlace' = HardwarePlace
    BY <1>3 DEF HardwarePlace
  <2> QED BY <1>1, <1>2, <1>3, <1>4, <2>1, <2>2, <2>3 DEF WordsOK
<1> QED BY <1>5, <1>6, <1>7, <1>8 DEF BootInv

-----------------------------------------------------------------------------
(* The image.                                                              *)

(* The whole region is free, so the image gets its base, and the sections  *)
(* that could be copied lie inside what was committed for it.              *)
LEMMA AllocateSectionsStep ==
  ASSUME IInv, BootInv, AllocateSections
  PROVE  BootInv'
<1>1. /\ pc = "allocateSectionsData" /\ metadata # NoImage /\ metadata \in Images
      /\ Allocate(metadata.base, AllocationSize(metadata.sections))
      /\ UNCHANGED <<metadata, structs, stack>>
  BY DEF AllocateSections, BootInv, Course
<1> DEFINE p == metadata.base
           n == AlignSize(AllocationSize(metadata.sections))
<1>2. /\ p \in Preferred /\ p \in Nat /\ 3 * PageSize <= p /\ p <= Total /\ Multiple(p)
      /\ AllocationSize(metadata.sections) \in Nat
      /\ p + n <= Total
  BY <1>1, ImageRequest, AllocationSizeIs
<1>3. n \in Nat /\ Multiple(n)
  BY <1>2, AlignSizeIs
<1>4. CASE reply'.status = "null"
  <2>1. AllocateNull(p, n)
    BY <1>1, <1>4, AnswerTells
  <2>2. freeBlocks = {Block(0, Total)}
    BY <1>1 DEF BootInv, Untouched
  <2>3. Block(0, Total) \in LongEnough(n)
    BY <1>2, <1>3, <2>2, SpaceAssumption DEF LongEnough, Block
  <2> QED BY <2>1, <2>3 DEF AllocateNull
<1>5. CASE pc' = "dead"
  <2>1. image' = image /\ words' = words
    BY <1>5 DEF AllocateSections
  <2> QED BY <1>1, <1>5, <2>1, DeadStep
<1>6. CASE reply'.status # "null" /\ pc' # "dead"
  <2>1. AllocateOK(p, n)
    BY <1>1, <1>6, AnswerTells DEF AllocateSections
  <2>2. reply'.status = "ok"
    BY <2>1 DEF AllocateOK, Answer
  <2>3. /\ image' = Granted /\ pc' = "initImpVars"
        /\ words' = CopySections(words, Granted.offset, metadata.sections)
        /\ \A i \in DOMAIN metadata.sections :
             CanAccess(Granted.offset + metadata.sections[i].offset, metadata.sections[i].size)
    BY <1>6, <2>2 DEF AllocateSections
  <2> HIDE DEF n, p
  <2>4. PICK b \in freeBlocks, o \in Nat :
          /\ Choice(p, n, b, o)
          /\ n > 0
          /\ Granted = [offset |-> RoundDown(o), size |-> n, booked |-> o]
          /\ live' = live \cup {Granted}
          /\ committed' = committed \cup PagesOf(o, n)
          /\ Available' = Available \ Span(o, n)
    BY <1>2, <1>3, <2>1, GrantIs
  <2>5. freeBlocks = {Block(0, Total)} /\ committed = {} /\ DOMAIN structs = {} /\ stack = NoImage
    BY <1>1 DEF BootInv, Untouched, Course
  <2>6. o = p
    <3>1. Block(0, Total) \in HoldsPreferred(p, n)
      BY <1>2, <1>3, <2>5, SpaceAssumption DEF HoldsPreferred, Block, End
    <3> QED BY <2>4, <3>1 DEF Choice
  <2>7. RoundDown(p) = p
    BY <1>2, RoundDownMultiple
  <2>8. Granted \in [offset : Nat, size : Nat, booked : Nat] /\ Granted.offset = p /\ Granted.size = n
    BY <1>2, <1>3, <2>4, <2>6, <2>7
  <2>9. image' # NoImage
    BY <2>3, <2>8, ImageAssumption
  <2>10. ImageIntact'
    <3>1. ASSUME NEW i \in DOMAIN metadata.sections,
                 NEW x \in Span(p + metadata.sections[i].offset, metadata.sections[i].size)
          PROVE  x \in Span(p, n)
      <4> DEFINE s == metadata.sections[i]
      <4>1. s.offset \in Nat /\ s.size \in Nat
        <5> DEFINE R == [offset : Nat, size : Nat]
        <5>1. \A r \in R : r.offset \in Nat /\ r.size \in Nat
          OBVIOUS
        <5>2. metadata.sections \in Seq(R)
          BY <1>1, ImageAssumption
        <5> HIDE DEF R
        <5>3. s \in R
          BY <5>2
        <5> QED BY <5>1, <5>3
      <4>2. x \in Nat /\ p <= x
        BY <1>2, <3>1, <4>1 DEF Span
      <4>3. RoundDown(x) \in PagesOf(p, n)
        BY <2>3, <2>4, <2>5, <2>6, <2>8, <3>1 DEF CanAccess, PagesOf
      <4>4. RoundDown(x) \in Span(p, n)
        BY <1>2, <1>3, <4>3, RoundDownInside DEF PagesOf
      <4>5. RoundDown(x) \in Nat /\ RoundDown(x) < p + n /\ x < RoundDown(x) + PageSize
            /\ Multiple(RoundDown(x))
        BY <1>2, <1>3, <4>2, <4>4, RoundDownIs DEF Span
      <4>6. Multiple(p + n)
        BY <1>2, <1>3, MultipleSum
      <4>7. RoundDown(x) + PageSize <= p + n
        BY <4>5, <4>6, MultipleStep
      <4> QED BY <1>2, <1>3, <4>2, <4>5, <4>7, SpaceAssumption DEF Span
    <3> QED BY <1>1, <2>3, <2>8, <3>1 DEF ImageIntact, p
  <2>11. StructsOK'
    <3>1. Made' = {}
      BY <2>3 DEF Made
    <3>2. FreeFrom(Low)'
      <4>1. Low' = 0
        BY <2>3 DEF Low
      <4>2. ASSUME NEW x \in Span(0, p) PROVE x \in Available'
        <5>1. x \in Nat /\ x < p /\ x < Total
          BY <1>2, SpaceAssumption, <4>2 DEF Span
        <5>2. x \in Available
          <6>1. x \in Bytes(Block(0, Total))
            BY <5>1, SpaceAssumption DEF Bytes, Span, Block
          <6> QED BY <2>5, <6>1 DEF Available, Covered
        <5>3. x \notin Span(o, n)
          BY <1>2, <1>3, <2>6, <5>1 DEF Span
        <5> QED BY <2>4, <5>2, <5>3
      <4>3. \A x \in Span(0, p) : 0 <= x
        BY <1>2 DEF Span
      <4> QED BY <1>1, <4>1, <4>2, <4>3 DEF FreeFrom, p
    <3> QED BY <1>1, <2>5, <2>9, <3>1, <3>2 DEF StructsOK
  <2>12. WordsOK'
    <3>1. words \in Memory
      BY DEF BootInv, WordsOK
    <3>2. words' \in Memory
      BY <2>3, <3>1, SpaceAssumption DEF CopySections, Memory, Data
    <3> QED BY <2>3, <3>2 DEF WordsOK
  <2>13. Untouched' /\ Course'
    BY <1>1, <2>3, <2>5 DEF Untouched, Course, Steps, BootInv
  <2> QED BY <2>10, <2>11, <2>12, <2>13 DEF BootInv
<1> QED BY <1>4, <1>5, <1>6

-----------------------------------------------------------------------------
(* The structures of the imports.                                          *)

(* With the image far above, a structure is put at the lowest page that is *)
(* not taken; memory is never out.                                         *)
LEMMA StructStep ==
  ASSUME IInv, BootInv, Loaded, pc \in {"initImpVars", "handlePtr", "hardware"},
         NEW name, NEW next, AllocateStruct(name, next), pc' # "dead"
  PROVE  /\ pc' = next
         /\ DOMAIN structs' = DOMAIN structs \cup {name}
         /\ structs'[name] = Low
         /\ \A n \in DOMAIN structs : n # name => structs'[n] = structs[n]
         /\ live \subseteq live'
         /\ \E a \in live' : a \notin {image, NoImage} /\ a.offset = Low
         /\ \A x \in Span(0, metadata.base) : x \in Available' <=> Low + PageSize <= x
<1>1. /\ Allocate(0, 1)
      /\ structs' = [n \in DOMAIN structs \cup {name} |->
                       IF n # name THEN structs[n]
                       ELSE IF reply'.status = "ok" THEN Granted.offset ELSE 0]
      /\ reply'.status # "thrown" /\ pc' = next
  BY DEF AllocateStruct
<1>2. metadata \in Images /\ metadata # NoImage /\ image # NoImage /\ FreeFrom(Low)
  BY DEF BootInv, Course, Loaded, StructsOK
<1>3. metadata.base \in Nat /\ 3 * PageSize <= metadata.base
  BY <1>2, ImageRequest
<1>4. PageSize \in Nat \ {0} /\ AlignSize(1) = PageSize /\ Multiple(PageSize)
  BY OnePage, SpaceAssumption
<1>5. Low \in Nat /\ Multiple(Low) /\ Low + PageSize <= metadata.base
  BY <1>3, <1>4, OnePage DEF Low, HardwarePlace
<1>6. /\ LongEnough(PageSize) # {}
      /\ \A b \in freeBlocks : \A o : Choice(0, PageSize, b, o) => o = Low
  BY <1>2, <1>3, <1>5, FirstFit DEF FreeFrom
<1>7. AllocateOK(0, PageSize) /\ reply'.status = "ok"
  <2>1. ~ AllocateNull(0, PageSize)
    BY <1>6 DEF AllocateNull
  <2> QED BY <1>1, <1>4, <2>1, AnswerTells
<1>8. 0 \in Preferred
  BY WordsAreRequests
<1>9. PICK b \in freeBlocks, o \in Nat :
        /\ Choice(0, PageSize, b, o)
        /\ Granted = [offset |-> RoundDown(o), size |-> PageSize, booked |-> o]
        /\ Granted \notin live
        /\ live' = live \cup {Granted}
        /\ Available' = Available \ Span(o, PageSize)
  BY <1>4, <1>7, <1>8, GrantIs
<1>10. o = Low /\ RoundDown(Low) = Low
  BY <1>5, <1>6, <1>9, RoundDownMultiple
<1>11. Granted.offset = Low /\ Granted \in [offset : Nat, size : Nat, booked : Nat]
  BY <1>4, <1>5, <1>9, <1>10
<1>12. Granted \notin {image, NoImage}
  <2>1. image.offset = metadata.base
    BY <1>2 DEF BootInv, ImageIntact
  <2> QED BY <1>3, <1>4, <1>5, <1>11, <2>1, ImageAssumption
<1>13. ASSUME NEW x \in Span(0, metadata.base)
       PROVE  x \in Available' <=> Low + PageSize <= x
  <2>1. x \in Nat /\ (x \in Available <=> Low <= x)
    BY <1>2, <1>3 DEF FreeFrom, Span
  <2>2. x \in Span(Low, PageSize) <=> Low <= x /\ x < Low + PageSize
    BY <1>4, <1>5, <2>1 DEF Span
  <2> QED BY <1>4, <1>5, <1>9, <1>10, <2>1, <2>2
<1>14. DOMAIN structs' = DOMAIN structs \cup {name} /\ structs'[name] = Low
       /\ \A n \in DOMAIN structs : n # name => structs'[n] = structs[n]
  BY <1>1, <1>7, <1>11
<1> QED BY <1>1, <1>9, <1>11, <1>12, <1>13, <1>14

(* Each of the three allocations puts its structure in its place. *)
LEMMA AllocateStructStep ==
  ASSUME IInv, BootInv, AllocateHandle \/ AllocateHandlePtr \/ AllocateHardware
  PROVE  BootInv'
<1>1. PICK name \in {"handle", "handlePtr", "hardware"},
           next \in {"handlePtr", "writeHandle", "writeHardware"} :
        /\ AllocateStruct(name, next)
        /\ \/ name = "handle" /\ pc = "initImpVars" /\ next = "handlePtr" /\ metadata # NoImage
              /\ Imports(Handle)
           \/ name = "handlePtr" /\ pc = "handlePtr" /\ next = "writeHandle"
           \/ name = "hardware" /\ pc = "hardware" /\ next = "writeHardware" /\ Imports(Hardware)
  BY DEF AllocateHandle, AllocateHandlePtr, AllocateHardware
<1>2. metadata # NoImage /\ Loaded /\ (name # "hardware" => Imports(Handle))
  BY <1>1 DEF BootInv, Course, Loaded
<1>3. UNCHANGED <<metadata, image, words, stack>>
  BY <1>1 DEF AllocateStruct
<1>4. CASE pc' = "dead"
  BY <1>3, <1>4, DeadStep
<1>5. CASE pc' # "dead"
  <2>1. /\ pc' = next
        /\ DOMAIN structs' = DOMAIN structs \cup {name}
        /\ structs'[name] = Low
        /\ \A n \in DOMAIN structs : n # name => structs'[n] = structs[n]
        /\ live \subseteq live'
        /\ \E a \in live' : a \notin {image, NoImage} /\ a.offset = Low
        /\ \A x \in Span(0, metadata.base) : x \in Available' <=> Low + PageSize <= x
    BY <1>1, <1>2, <1>5, StructStep
  <2>2. Imports(Handle)' = Imports(Handle) /\ Imports(Hardware)' = Imports(Hardware)
    BY <1>3 DEF Imports
  <2>3. HardwarePlace' = HardwarePlace /\ \A n : Place(n)' = Place(n)
    BY <2>2 DEF HardwarePlace, Place
  <2>4. Loaded' /\ stack' = NoImage /\ stack = NoImage /\ image' = image
    BY <1>1, <1>2, <1>3, <2>1 DEF Loaded, BootInv, Course
  <2>5. Made' = Made \cup {name} /\ name \notin Made
    BY <1>1, <1>2, <2>1, <2>2 DEF Made
  <2>6. Place(name) = Low
    BY <1>1, <1>2 DEF Place, Low
  <2>7. StructsOK
    BY DEF BootInv
  <2>8. ASSUME NEW n \in Made' PROVE structs'[n] = Place(n)' /\ Standing(n)'
    <3>1. CASE n = name
      BY <2>1, <2>3, <2>4, <2>6, <3>1 DEF Standing
    <3>2. CASE n # name
      <4>1. n \in Made /\ structs[n] = Place(n) /\ Standing(n) /\ n \in DOMAIN structs
        BY <1>2, <2>5, <2>7, <2>8, <3>2 DEF StructsOK
      <4>2. Standing(n)'
        BY <2>1, <2>3, <2>4, <4>1 DEF Standing
      <4> QED BY <2>1, <2>3, <3>2, <4>1, <4>2
    <3> QED BY <3>1, <3>2
  <2>9. pc' \in {"initImpVars", "handlePtr", "writeHandle", "hardware"} => FreeFrom(Low)'
    <3> SUFFICES ASSUME pc' \in {"initImpVars", "handlePtr", "writeHandle", "hardware"}
                 PROVE  FreeFrom(Low)'
      OBVIOUS
    <3>1. Low' = Low + PageSize
      BY <1>1, <1>2, <2>1, <2>2, <2>3, SpaceAssumption DEF Low, HardwarePlace
    <3> QED BY <1>3, <2>1, <3>1 DEF FreeFrom
  <2>10. StructsOK'
    BY <1>2, <2>1, <2>4, <2>5, <2>7, <2>8, <2>9 DEF StructsOK
  <2>11. Untouched' /\ Course'
    BY <1>1, <1>2, <1>3, <2>1, <2>2, <2>4 DEF Untouched, Course, Steps, BootInv
  <2>12. ImageIntact'
    BY <1>3 DEF BootInv, ImageIntact
  <2>13. WordsOK'
    <3>1. WordsOK
      BY DEF BootInv
    <3>2. HandleResolved => HandleResolved'
      BY <1>1, <1>3, <2>1, <2>2 DEF HandleResolved, Overwritten
    <3>3. pc' \in {"hardware", "writeHardware", "initMainThread", "guest"} => pc = "hardware"
      BY <1>1, <2>1
    <3>4. pc' \notin {"initMainThread", "guest"}
      BY <1>1, <2>1
    <3> QED BY <1>2, <1>3, <2>2, <3>1, <3>2, <3>3, <3>4 DEF WordsOK
  <2> QED BY <2>10, <2>11, <2>12, <2>13 DEF BootInv
<1> QED BY <1>4, <1>5

-----------------------------------------------------------------------------
(* The stores of start-up.                                                 *)

(* Four stores in turn. *)
LEMMA FourStores ==
  ASSUME NEW m \in Memory, NEW s \in [1 .. 4 -> Nat \X Nat]
  PROVE  \E m1, m2, m3 \in Memory :
           /\ m1 = Write32(m, s[1])
           /\ m2 = Write32(m1, s[2])
           /\ m3 = Write32(m2, s[3])
           /\ Stored(m, s) = Write32(m3, s[4])
<1>1. PICK g : InTurn(g, m, 4, s)
  <2>1. 4 \in Nat
    OBVIOUS
  <2> QED BY <2>1, StoresInTurn
<1>2. /\ g[0] = m /\ g[4] = Stored(m, s)
      /\ \A k \in 1 .. 4 : g[k - 1] \in Memory /\ g[k] = Write32(g[k - 1], s[k])
  BY <1>1 DEF InTurn
<1>3. /\ 1 \in 1 .. 4 /\ 2 \in 1 .. 4 /\ 3 \in 1 .. 4 /\ 4 \in 1 .. 4
      /\ 1 - 1 = 0 /\ 2 - 1 = 1 /\ 3 - 1 = 2 /\ 4 - 1 = 3
  OBVIOUS
<1> QED BY <1>2, <1>3

(* Three stores in turn. *)
LEMMA ThreeStores ==
  ASSUME NEW m \in Memory, NEW s \in [1 .. 3 -> Nat \X Nat]
  PROVE  \E m1, m2 \in Memory :
           /\ m1 = Write32(m, s[1])
           /\ m2 = Write32(m1, s[2])
           /\ Stored(m, s) = Write32(m2, s[3])
<1>1. PICK g : InTurn(g, m, 3, s)
  <2>1. 3 \in Nat
    OBVIOUS
  <2> QED BY <2>1, StoresInTurn
<1>2. /\ g[0] = m /\ g[3] = Stored(m, s)
      /\ \A k \in 1 .. 3 : g[k - 1] \in Memory /\ g[k] = Write32(g[k - 1], s[k])
  BY <1>1 DEF InTurn
<1>3. /\ 1 \in 1 .. 3 /\ 2 \in 1 .. 3 /\ 3 \in 1 .. 3
      /\ 1 - 1 = 0 /\ 2 - 1 = 1 /\ 3 - 1 = 2
  OBVIOUS
<1> QED BY <1>2, <1>3

(* What can be accessed lies in the region. *)
LEMMA AccessInside ==
  ASSUME IInv, NEW a \in Nat, PagesOf(a, 2) \subseteq committed
  PROVE  a \in Span(0, Total)
<1>1. a \in Span(a, 2)
  BY DEF Span
<1>2. RoundDown(a) \in Span(0, Total)
  BY <1>1 DEF PagesOf, IInv
<1>3. RoundDown(a) \in Nat /\ RoundDown(a) < Total /\ a < RoundDown(a) + PageSize
      /\ Multiple(RoundDown(a))
  BY <1>2, RoundDownIs, SpaceAssumption DEF Span
<1>4. RoundDown(a) + PageSize <= Total
  BY <1>3, TotalMultiple, MultipleStep
<1> QED BY <1>3, <1>4, SpaceAssumption DEF Span

(* The first of the stores resolves the variable, and the others stay in   *)
(* the structures, below the image.                                        *)
LEMMA WriteHandleStep ==
  ASSUME IInv, BootInv, WriteHandle
  PROVE  BootInv'
<1> DEFINE sH == metadata.slots[Handle]
<1>1. pc = "writeHandle" /\ metadata \in Images /\ Loaded /\ Imports(Handle) /\ stack = NoImage
  BY DEF WriteHandle, BootInv, Course, Loaded
<1>2. structs["handlePtr"] = PageSize /\ structs["handle"] = 0 /\ StructsOK /\ words \in Memory
  BY <1>1 DEF BootInv, StructsOK, WordsOK, Made, Place
<1>3. UNCHANGED <<vars, metadata, image, structs, stack>>
  BY DEF WriteHandle, WriteAll
<1>4. sH \in Nat /\ 3 * PageSize <= sH /\ PageSize >= 4 /\ PageSize \in Nat
  <2>1. sH \in Nat /\ metadata.base <= sH
    BY <1>1, ImageAssumption DEF Imports
  <2>2. 3 * PageSize <= metadata.base /\ metadata.base \in Nat
    BY <1>1, ImageRequest
  <2> QED BY <2>1, <2>2, ImageAssumption, SpaceAssumption
<1> DEFINE stores == << <<sH, PageSize>>, <<PageSize, 0>>, <<0, Data>>, <<0 + 2, Data>> >>
<1>5. WriteAll(stores, "hardware")
  BY <1>2 DEF WriteHandle
<1>6. CASE pc' = "dead"
  <2>1. words' = words
    BY <1>5, <1>6 DEF WriteAll
  <2> QED BY <1>3, <1>6, <2>1, DeadStep
<1>7. CASE pc' # "dead"
  <2>1. /\ pc' = "hardware"
        /\ words' = Stored(words, stores)
        /\ \A i \in DOMAIN stores : PagesOf(stores[i][1], 2) \subseteq committed
    BY <1>5, <1>7 DEF WriteAll, Stored
  <2>2. sH \in Span(0, Total)
    <3>1. 1 \in DOMAIN stores /\ stores[1][1] = sH
      OBVIOUS
    <3>2. PagesOf(sH, 2) \subseteq committed
      BY <2>1, <3>1
    <3> QED BY <1>4, <3>2, AccessInside
  <2> DEFINE z == PageSize
  <2>3. Data \in Nat /\ 0 \in Nat /\ 0 + 2 \in Nat /\ z \in Nat
    BY <1>4, SpaceAssumption DEF Data
  <2>4. PICK m1, m2, m3 \in Memory :
          /\ m1 = Write32(words, <<sH, z>>)
          /\ m2 = Write32(m1, <<z, 0>>)
          /\ m3 = Write32(m2, <<0, Data>>)
          /\ Stored(words, stores) = Write32(m3, <<0 + 2, Data>>)
    <3>1. /\ stores \in [1 .. 4 -> Nat \X Nat]
          /\ stores[1] = <<sH, z>> /\ stores[2] = <<z, 0>>
          /\ stores[3] = <<0, Data>> /\ stores[4] = <<0 + 2, Data>>
      <4>1. sH \in Nat /\ PageSize \in Nat
        BY <1>4
      <4> HIDE DEF sH
      <4> QED BY <2>3, <4>1
    <3> HIDE DEF stores
    <3>2. PICK m1, m2, m3 \in Memory :
            /\ m1 = Write32(words, stores[1])
            /\ m2 = Write32(m1, stores[2])
            /\ m3 = Write32(m2, stores[3])
            /\ Stored(words, stores) = Write32(m3, stores[4])
      BY <1>2, <3>1, FourStores
    <3>3. /\ m1 = Write32(words, <<sH, z>>)
          /\ m2 = Write32(m1, <<z, 0>>)
          /\ m3 = Write32(m2, <<0, Data>>)
          /\ Stored(words, stores) = Write32(m3, <<0 + 2, Data>>)
      BY <3>1, <3>2
    <3> QED BY <3>3
  <2>5. words' = Write32(m3, <<0 + 2, Data>>)
    BY <2>1, <2>4
  <2> HIDE DEF sH, z
  <2>6. z \in Span(0, Total) /\ z \in Nat /\ sH \in Nat /\ 3 * z <= sH /\ 4 <= z
    BY <1>4, <2>2, SpaceAssumption DEF Span, sH, z
  <2>7. ASSUME NEW x \in Span(0, Total), x >= z
        PROVE  words'[x] = IF x \in {z, z + 1} THEN 0
                           ELSE IF x = sH THEN z ELSE IF x = sH + 1 THEN 0 ELSE words[x]
    <3>1. x # 0 /\ x # 0 + 1 /\ x # 0 + 2 /\ x # (0 + 2) + 1
      BY <2>6, <2>7
    <3>2. Write32(m3, <<0 + 2, Data>>)[x] =
            IF x = 0 + 2 THEN Data ELSE IF x = (0 + 2) + 1 THEN 0 ELSE m3[x]
      BY <2>3, Write32Is
    <3>3. Write32(m2, <<0, Data>>)[x] =
            IF x = 0 THEN Data ELSE IF x = 0 + 1 THEN 0 ELSE m2[x]
      BY <2>3, Write32Is
    <3>4. Write32(m1, <<z, 0>>)[x] = IF x = z THEN 0 ELSE IF x = z + 1 THEN 0 ELSE m1[x]
      BY <2>3, <2>6, Write32Is
    <3>5. Write32(words, <<sH, z>>)[x] =
            IF x = sH THEN z ELSE IF x = sH + 1 THEN 0 ELSE words[x]
      BY <1>2, <2>6, Write32Is
    <3> QED BY <2>4, <2>5, <3>1, <3>2, <3>3, <3>4, <3>5
  <2>8. words' \in Memory
    <3>1. Write32(m3, <<0 + 2, Data>>) \in Memory
      BY <2>3, Write32Is
    <3> QED BY <2>5, <3>1
  <2>9. words'[z] = 0 /\ words'[sH] = z
    <3>1. sH \in Span(0, Total) /\ sH >= z /\ sH \notin {z, z + 1}
      BY <2>2, <2>6
    <3>2. z >= z
      BY <2>6
    <3> QED BY <2>6, <2>7, <3>1, <3>2
  <2>10. Imports(Handle)' = Imports(Handle) /\ Imports(Hardware)' = Imports(Hardware)
    BY <1>3 DEF Imports
  <2>11. WordsOK'
    BY <1>3, <2>1, <2>2, <2>8, <2>9 DEF WordsOK, HandleResolved, sH, z
  <2>12. StructsOK'
    <3>1. HardwarePlace' = HardwarePlace /\ \A n : Place(n)' = Place(n)
      BY <2>10 DEF HardwarePlace, Place
    <3>2. \A n : Standing(n)' <=> Standing(n)
      BY <1>3, <3>1 DEF Standing, vars
    <3>3. Made' = Made
      BY <1>1, <2>1, <2>10 DEF Made
    <3>4. FreeFrom(Low)
      BY <1>1, <1>2 DEF StructsOK
    <3>5. Low' = Low /\ Available' = Available
      BY <1>1, <1>3, <2>1, <3>1 DEF Low, Available, vars
    <3>6. FreeFrom(Low)'
      BY <1>3, <3>4, <3>5 DEF FreeFrom
    <3> QED BY <1>1, <1>2, <1>3, <3>1, <3>2, <3>3, <3>6 DEF StructsOK
  <2>13. Untouched' /\ Course' /\ ImageIntact'
    BY <1>1, <1>3, <2>1 DEF Untouched, Course, ImageIntact, Steps, BootInv, Loaded
  <2> QED BY <2>11, <2>12, <2>13 DEF BootInv
<1> QED BY <1>6, <1>7

(* The hardware info's word follows no store of its own but may be the one *)
(* before the module handle's, which is then zeroed.                       *)
LEMMA WriteHardwareStep ==
  ASSUME IInv, BootInv, WriteHardware
  PROVE  BootInv'
<1> DEFINE sW == metadata.slots[Hardware]
           h  == HardwarePlace
<1>1. pc = "writeHardware" /\ metadata \in Images /\ Loaded /\ Imports(Hardware) /\ stack = NoImage
  BY DEF WriteHardware, BootInv, Course, Loaded
<1>2. structs["hardware"] = h /\ StructsOK /\ words \in Memory
  BY <1>1 DEF BootInv, StructsOK, WordsOK, Made, Place
<1>3. UNCHANGED <<vars, metadata, image, structs, stack>>
  BY DEF WriteHardware, WriteAll
<1>4. /\ metadata.base \in Nat /\ 3 * PageSize <= metadata.base
      /\ PageSize >= 4 /\ PageSize \in Nat
      /\ sW \in Nat /\ metadata.base <= sW
  BY <1>1, ImageRequest, ImageAssumption, SpaceAssumption DEF Imports
<1>5. h \in Nat /\ h + 2 < 3 * PageSize /\ (h = 0 \/ (Imports(Handle) /\ h = 2 * PageSize))
      /\ (Imports(Handle) => h = 2 * PageSize)
  BY <1>4 DEF HardwarePlace
<1> HIDE DEF h, sW
<1> DEFINE stores == << <<sW, h>>, <<h, 0>>, <<h + 1, Data>> >>
<1>6. WriteAll(stores, "initMainThread")
  BY <1>2 DEF WriteHardware, sW
<1>7. CASE pc' = "dead"
  <2>1. words' = words
    BY <1>6, <1>7 DEF WriteAll
  <2> QED BY <1>3, <1>7, <2>1, DeadStep
<1>8. CASE pc' # "dead"
  <2>1. /\ pc' = "initMainThread"
        /\ words' = Stored(words, stores)
        /\ \A i \in DOMAIN stores : PagesOf(stores[i][1], 2) \subseteq committed
    BY <1>6, <1>8 DEF WriteAll, Stored
  <2>2. sW \in Span(0, Total)
    <3>1. 1 \in DOMAIN stores /\ stores[1][1] = sW
      OBVIOUS
    <3>2. PagesOf(sW, 2) \subseteq committed
      BY <2>1, <3>1
    <3> QED BY <1>4, <3>2, AccessInside
  <2>3. Data \in Nat /\ h + 1 \in Nat /\ 0 \in Nat
    BY <1>5, SpaceAssumption DEF Data
  <2>4. PICK m1, m2 \in Memory :
          /\ m1 = Write32(words, <<sW, h>>)
          /\ m2 = Write32(m1, <<h, 0>>)
          /\ Stored(words, stores) = Write32(m2, <<h + 1, Data>>)
    <3>1. /\ stores \in [1 .. 3 -> Nat \X Nat]
          /\ stores[1] = <<sW, h>> /\ stores[2] = <<h, 0>> /\ stores[3] = <<h + 1, Data>>
      BY <1>4, <1>5, <2>3
    <3> HIDE DEF stores
    <3>2. PICK m1, m2 \in Memory :
            /\ m1 = Write32(words, stores[1])
            /\ m2 = Write32(m1, stores[2])
            /\ Stored(words, stores) = Write32(m2, stores[3])
      BY <1>2, <3>1, ThreeStores
    <3>3. /\ m1 = Write32(words, <<sW, h>>)
          /\ m2 = Write32(m1, <<h, 0>>)
          /\ Stored(words, stores) = Write32(m2, <<h + 1, Data>>)
      BY <3>1, <3>2
    <3> QED BY <3>3
  <2>5. ASSUME NEW x \in Span(0, Total), x \notin h .. h + 2
        PROVE  words'[x] = IF x = sW THEN h ELSE IF x = sW + 1 THEN 0 ELSE words[x]
    <3>1. x # h /\ x # h + 1 /\ x # (h + 1) + 1
      BY <1>5, <2>5, SpaceAssumption DEF Span
    <3>2. Write32(m2, <<h + 1, Data>>)[x] =
            IF x = h + 1 THEN Data ELSE IF x = (h + 1) + 1 THEN 0 ELSE m2[x]
      BY <2>3, Write32Is
    <3>3. Write32(m1, <<h, 0>>)[x] = IF x = h THEN 0 ELSE IF x = h + 1 THEN 0 ELSE m1[x]
      BY <1>5, <2>3, Write32Is
    <3>4. Write32(words, <<sW, h>>)[x] =
            IF x = sW THEN h ELSE IF x = sW + 1 THEN 0 ELSE words[x]
      BY <1>2, <1>4, <1>5, Write32Is
    <3> QED BY <2>1, <2>4, <3>1, <3>2, <3>3, <3>4
  <2>6. words' \in Memory
    <3>1. Write32(m2, <<h + 1, Data>>) \in Memory
      BY <2>3, Write32Is
    <3> QED BY <2>1, <2>4, <3>1
  <2>7. words'[sW] = h
    BY <1>4, <1>5, <2>2, <2>5
  <2>8. Imports(Handle)' = Imports(Handle) /\ Imports(Hardware)' = Imports(Hardware)
    BY <1>3 DEF Imports
  <2>9. HardwarePlace' = HardwarePlace /\ \A n : Place(n)' = Place(n)
    BY <2>8 DEF HardwarePlace, Place
  <2>10. ASSUME Imports(Handle) PROVE HandleResolved'
    <3> DEFINE sH == metadata.slots[Handle]
    <3>1. HandleResolved
      BY <1>1, <2>10 DEF BootInv, WordsOK
    <3>2. sH \in Span(0, Total) /\ words[PageSize] = 0 /\ words[sH] = PageSize
      BY <1>1, <3>1 DEF HandleResolved
    <3>3. sH \in Nat /\ metadata.base <= sH /\ sH # sW
      BY <1>1, <2>10, ImageAssumption DEF Imports, sW, Handle, Hardware
    <3>4. h = 2 * PageSize
      BY <1>5, <2>10
    <3>5. PageSize \in Span(0, Total)
      BY <1>4, <3>2, <3>3, SpaceAssumption DEF Span
    <3>6. words'[PageSize] = 0
      BY <1>4, <2>5, <3>2, <3>4, <3>5
    <3>7. words'[sH] = IF sH = sW + 1 THEN 0 ELSE PageSize
      BY <1>4, <2>5, <3>2, <3>3, <3>4
    <3>8. sH = sW + 1 => Overwritten'
      BY <1>1, <1>3, <2>8 DEF Overwritten, sW
    <3> QED BY <1>3, <2>1, <3>2, <3>6, <3>7, <3>8 DEF HandleResolved
  <2>11. WordsOK'
    BY <1>3, <2>1, <2>6, <2>7, <2>8, <2>9, <2>10 DEF WordsOK, sW, h
  <2>12. StructsOK'
    <3>1. \A n : Standing(n)' <=> Standing(n)
      BY <1>3, <2>9 DEF Standing, vars
    <3>2. Made' = Made
      BY <1>1, <2>1, <2>8 DEF Made
    <3> QED BY <1>1, <1>2, <1>3, <2>1, <2>9, <3>1, <3>2 DEF StructsOK, Loaded
  <2>13. Untouched' /\ Course' /\ ImageIntact'
    BY <1>1, <1>3, <2>1 DEF Untouched, Course, ImageIntact, Steps, BootInv, Loaded
  <2> QED BY <2>11, <2>12, <2>13 DEF BootInv
<1> QED BY <1>7, <1>8

-----------------------------------------------------------------------------
(* The stack of the main thread, and the guest.                            *)

(* What start-up left standing still stands when more is allocated. *)
LEMMA StillStanding ==
  ASSUME IInv, BootInv, Loaded, pc \in {"initMainThread", "guest"}, pc' = "guest",
         live \subseteq live', UNCHANGED <<metadata, image, structs, words>>,
         stack' \notin live
  PROVE  BootInv'
<1>1. Imports(Handle)' = Imports(Handle) /\ Imports(Hardware)' = Imports(Hardware)
  BY DEF Imports
<1>2. HardwarePlace' = HardwarePlace /\ \A n : Place(n)' = Place(n)
  BY <1>1 DEF HardwarePlace, Place
<1>3. Made' = Made
  BY <1>1 DEF Made
<1>4. ASSUME NEW n \in Made PROVE structs'[n] = Place(n)' /\ Standing(n)'
  <2>1. structs[n] = Place(n) /\ Standing(n)
    BY <1>4 DEF BootInv, StructsOK
  <2>2. Standing(n)'
    BY <1>2, <2>1 DEF Standing
  <2> QED BY <1>2, <2>1, <2>2
<1>5. StructsOK'
  BY <1>3, <1>4 DEF BootInv, StructsOK
<1>6. WordsOK'
  <2>1. HandleResolved => HandleResolved'
    BY <1>1 DEF HandleResolved, Overwritten
  <2> QED BY <1>1, <1>2, <2>1 DEF BootInv, WordsOK, Loaded
<1>7. Untouched' /\ Course' /\ ImageIntact'
  BY DEF Untouched, Course, ImageIntact, Steps, BootInv, Loaded
<1> QED BY <1>5, <1>6, <1>7 DEF BootInv

(* The stack is a range of its own, or there is none. *)
LEMMA InitMainThreadStep ==
  ASSUME IInv, BootInv, InitMainThread
  PROVE  BootInv'
<1>1. /\ pc = "initMainThread" /\ Loaded
      /\ Allocate(0, StackSize)
      /\ stack' = IF reply'.status = "ok" THEN Granted ELSE NoImage
      /\ pc' = IF reply'.status = "thrown" THEN "dead" ELSE "guest"
      /\ UNCHANGED <<metadata, image, structs, words>>
  BY DEF InitMainThread, BootInv, Course, Loaded
<1>2. CASE pc' = "dead"
  BY <1>1, <1>2, DeadStep
<1>3. CASE pc' # "dead"
  <2>1. 0 \in Preferred /\ StackSize \in Requests /\ StackSize \in Nat
    BY ParameterAssumption, WordsAreRequests
  <2>2. live \subseteq live'
    BY <1>1, <2>1, AllocateKeeps
  <2>3. stack' \notin live
    <3>1. CASE reply'.status = "ok"
      <4>1. AllocateOK(0, AlignSize(StackSize))
        BY <1>1, <3>1, AnswerTells
      <4>2. Granted \notin live
        BY <2>1, <4>1, AlignSizeIs, GrantIs
      <4> QED BY <1>1, <3>1, <4>2
    <3>2. CASE reply'.status # "ok"
      BY <1>1, <3>2, ImageAssumption DEF IInv, LiveOK, Ranges
    <3> QED BY <3>1, <3>2
  <2> QED BY <1>1, <1>3, <2>2, <2>3, StillStanding
<1> QED BY <1>2, <1>3

(* Start-up keeps its invariant. *)
LEMMA BootStep ==
  ASSUME IInv, BootInv, BootNext
  PROVE  BootInv'
BY ImportMetadataStep, NoMetadataStep, NotImportedStep, AllocateSectionsStep, AllocateStructStep,
   WriteHandleStep, WriteHardwareStep, InitMainThreadStep
DEF BootNext

(* A call that is given a range is told of it, rounded up to its kind of   *)
(* page; one whose size wraps is given none.                               *)
LEMMA AskHeapTold ==
  ASSUME IInv, NEW base \in GuestBases, NEW size \in GuestSizes, NEW flags,
         AskHeap(base, size, flags), reply'.status = "ok"
  PROVE  /\ Granted \in live'
         /\ size <= AlignWord(size, PageAlignment(flags))
         /\ AlignWord(size, PageAlignment(flags)) <= Granted.size
<1> DEFINE m == AlignWord(size, PageAlignment(flags))
<1>1. base \in 0 .. Total - 1 /\ size \in 0 .. Total - 1
  BY WordAssumption
<1>2. /\ m \in 0 .. Total - 1 /\ m \in Nat
      /\ m = 0 \/ size <= m
  BY <1>1, AlignWordIs
<1>3. Swap(base) \in Preferred
  BY <1>1, SwapIs, WordsAreRequests
<1>4. AllocateOK(Swap(base), AlignSize(m))
  BY AnswerTells DEF AskHeap
<1> HIDE DEF m
<1>5. AlignSize(m) \in Nat /\ Multiple(AlignSize(m)) /\ m <= AlignSize(m)
  BY <1>2, AlignSizeIs, AlignSizeBounds
<1>6. AlignSize(m) > 0 /\ Granted.size = AlignSize(m) /\ Granted \in live'
  <2>1. PICK o \in Nat :
          /\ AlignSize(m) > 0
          /\ Granted = [offset |-> RoundDown(o), size |-> AlignSize(m), booked |-> o]
          /\ live' = live \cup {Granted}
    BY <1>3, <1>4, <1>5, GrantIs
  <2> QED BY <2>1
<1>7. m # 0
  <2>1. AlignSize(0) = 0
    BY AlignSizeMultiple, TotalMultiple
  <2> QED BY <1>6, <2>1
<1> QED BY <1>2, <1>5, <1>6, <1>7 DEF m

(* What the guest was told stays true: nothing takes a range back. *)
LEMMA ToldStep ==
  ASSUME IInv, BootInv, ToldWhatItHolds, NextNt
  PROVE  ToldWhatItHolds'
<1>1. CASE call' = call /\ live \subseteq live'
  BY <1>1 DEF ToldWhatItHolds
<1>2. CASE call'.status # "SUCCESS" \/ "commit" \in call'.flags
  BY <1>2 DEF ToldWhatItHolds
<1>3. CASE BootNext /\ UNCHANGED call
  <2>1. live \subseteq live'
    BY <1>3
    DEF BootNext, ImportMetadata, SkipSections, NoImports, AllocateHandle, AllocateHandlePtr,
        WriteHandle, WriteHardware, WriteAll, NoHandle, AllocateHardware, NoHardware,
        AllocateSections, AllocateStruct, InitMainThread, vars,
        Allocate, AllocateOK, AllocateThrows, AllocateNull
  <2> QED BY <1>1, <1>3, <2>1
<1>4. ASSUME NEW base \in GuestBases, NEW size \in GuestSizes, NEW flags \in SUBSET Flags,
             NtAllocateVirtualMemory(base, size, flags)
      PROVE  ToldWhatItHolds'
  <2>1. CASE NotImplemented(base, size, flags)
    BY <1>2, <2>1 DEF NotImplemented, Told
  <2>2. CASE Commit(base, size, flags)
    BY <1>2, <2>2 DEF Commit, Told
  <2>3. CASE AskHeap(base, size, flags)
    <3>1. CASE reply'.status = "ok"
      <4>1. call' = Told("SUCCESS", flags, size, Granted.offset,
                         AlignWord(size, PageAlignment(flags)))
        BY <2>3, <3>1 DEF AskHeap
      <4>2. /\ Granted \in live'
            /\ size <= AlignWord(size, PageAlignment(flags))
            /\ AlignWord(size, PageAlignment(flags)) <= Granted.size
        BY <2>3, <3>1, AskHeapTold
      <4>3. /\ call'.wanted = size /\ call'.told = Granted.offset
            /\ call'.size = AlignWord(size, PageAlignment(flags))
        BY <4>1 DEF Told
      <4> QED BY <4>2, <4>3 DEF ToldWhatItHolds
    <3>2. CASE reply'.status = "null"
      <4>1. call' = Told("NO_MEMORY", flags, size, 0, size)
        BY <2>3, <3>2 DEF AskHeap
      <4> QED BY <1>2, <4>1 DEF Told
    <3>3. CASE reply'.status = "thrown"
      <4>1. call' = call
        BY <2>3, <3>3 DEF AskHeap
      <4>2. live \subseteq live'
        BY <2>3 DEF AskHeap, Allocate, AllocateOK, AllocateThrows, AllocateNull
      <4> QED BY <1>1, <4>1, <4>2
    <3> QED BY <2>3, <3>1, <3>2, <3>3 DEF AskHeap
  <2> QED BY <1>4, <2>1, <2>2, <2>3 DEF NtAllocateVirtualMemory
<1>5. CASE NtFreeVirtualMemory
  BY <1>2, <1>5 DEF NtFreeVirtualMemory, NoCall
<1> QED BY <1>3, <1>4, <1>5 DEF NextNt

(* What is not touched stays as it was. *)
LEMMA UnchangedBoot ==
  ASSUME BootInv, UNCHANGED <<vars, bootVars>>
  PROVE  BootInv'
<1> USE DEF vars, bootVars
<1>1. Imports(Handle)' = Imports(Handle) /\ Imports(Hardware)' = Imports(Hardware)
  BY DEF Imports
<1>2. HardwarePlace' = HardwarePlace /\ \A n : Place(n)' = Place(n)
  BY <1>1 DEF HardwarePlace, Place
<1>3. Made' = Made /\ Low' = Low /\ \A n : Standing(n)' <=> Standing(n)
  BY <1>1, <1>2 DEF Made, Low, Standing
<1>4. StructsOK'
  <2>1. FreeFrom(Low)' <=> FreeFrom(Low)
    BY <1>3 DEF FreeFrom, Available
  <2> QED BY <1>2, <1>3, <2>1 DEF BootInv, StructsOK, Loaded
<1>5. WordsOK'
  <2>1. HandleResolved => HandleResolved'
    BY <1>1 DEF HandleResolved, Overwritten
  <2> QED BY <1>1, <1>2, <2>1 DEF BootInv, WordsOK, Loaded
<1>6. Untouched' /\ Course' /\ ImageIntact'
  BY <1>1 DEF BootInv, Untouched, Course, ImageIntact
<1> QED BY <1>4, <1>5, <1>6 DEF BootInv

(* A range for the guest is none of what start-up allocated. *)
LEMMA GuestKeeps ==
  ASSUME IInv, BootInv, pc = "guest", live \subseteq live', UNCHANGED bootVars
  PROVE  BootInv'
<1> USE DEF bootVars
<1>1. Imports(Handle)' = Imports(Handle) /\ Imports(Hardware)' = Imports(Hardware)
  BY DEF Imports
<1>2. HardwarePlace' = HardwarePlace /\ \A n : Place(n)' = Place(n)
  BY <1>1 DEF HardwarePlace, Place
<1>3. Made' = Made /\ \A n : Standing(n) => Standing(n)'
  BY <1>1, <1>2 DEF Made, Standing
<1>4. StructsOK'
  BY <1>2, <1>3 DEF BootInv, StructsOK, Loaded
<1>5. WordsOK'
  <2>1. HandleResolved => HandleResolved'
    BY <1>1 DEF HandleResolved, Overwritten
  <2> QED BY <1>1, <1>2, <2>1 DEF BootInv, WordsOK, Loaded
<1>6. Untouched' /\ Course' /\ ImageIntact'
  BY <1>1 DEF BootInv, Untouched, Course, ImageIntact
<1> QED BY <1>4, <1>5, <1>6 DEF BootInv

(* The guest's calls leave alone what start-up set up. *)
LEMMA GuestStep ==
  ASSUME IInv, BootInv, NEW base \in GuestBases, NEW size \in GuestSizes,
         NEW flags \in SUBSET Flags, NtAllocateVirtualMemory(base, size, flags)
  PROVE  BootInv'
<1>1. pc = "guest" /\ Loaded
  BY DEF NtAllocateVirtualMemory, BootInv, Course, Loaded
<1>2. CASE UNCHANGED <<vars, bootVars>>
  BY <1>2, UnchangedBoot
<1>3. CASE AskHeap(base, size, flags)
  <2>1. Allocate(Swap(base), AlignWord(size, PageAlignment(flags)))
    BY <1>3 DEF AskHeap
  <2>2. live \subseteq live'
    BY <2>1 DEF Allocate, AllocateOK, AllocateThrows, AllocateNull
  <2>3. CASE pc' = "dead"
    BY <1>3, <2>3, DeadStep DEF AskHeap, bootVars
  <2>4. CASE pc' # "dead"
    <3>1. UNCHANGED bootVars
      BY <1>3, <2>4 DEF AskHeap
    <3> QED BY <1>1, <2>2, <3>1, GuestKeeps
  <2> QED BY <2>3, <2>4
<1> QED BY <1>2, <1>3 DEF NtAllocateVirtualMemory, NotImplemented, Commit

-----------------------------------------------------------------------------
(* The theorems.                                                           *)

(* The emulator starts with a region that is all free and no call made. *)
LEMMA InitNtInv == InitNt => NtInv
<1> SUFFICES ASSUME InitNt PROVE NtInv
  OBVIOUS
<1>1. Init /\ call = NoCall
  BY DEF InitNt, InitBoot
<1>2. IInv
  BY <1>1, InitIInv
<1>3. Untouched
  BY DEF InitNt, InitBoot, Init, Untouched
<1>4. Course
  BY DEF InitNt, InitBoot, Course, Steps
<1>5. ImageIntact /\ StructsOK
  BY DEF InitNt, InitBoot, ImageIntact, StructsOK, Loaded
<1>6. WordsOK
  BY SpaceAssumption DEF InitNt, InitBoot, WordsOK, Loaded, Memory, Unset
<1>7. ToldWhatItHolds
  BY <1>1 DEF ToldWhatItHolds, NoCall
<1> QED BY <1>2, <1>3, <1>4, <1>5, <1>6, <1>7 DEF NtInv, BootInv

(* Each step, of start-up or of the guest, keeps the invariant. *)
LEMMA NextNtInv == NtInv /\ [NextNt]_ntVars => NtInv'
<1> SUFFICES ASSUME NtInv, [NextNt]_ntVars PROVE NtInv'
  OBVIOUS
<1>1. IInv /\ BootInv /\ ToldWhatItHolds
  BY DEF NtInv
<1>2. IInv'
  BY <1>1, NtStep, NextIInv DEF BootInv
<1>3. CASE UNCHANGED ntVars
  <2>1. BootInv'
    BY <1>1, <1>3, UnchangedBoot DEF ntVars
  <2>2. ToldWhatItHolds'
    BY <1>1, <1>3 DEF ntVars, vars, ToldWhatItHolds
  <2> QED BY <1>2, <2>1, <2>2 DEF NtInv
<1>4. CASE NextNt
  <2>1. BootInv'
    <3>1. CASE BootNext
      BY <1>1, <3>1, BootStep
    <3>2. ASSUME NEW base \in GuestBases, NEW size \in GuestSizes, NEW flags \in SUBSET Flags,
                 NtAllocateVirtualMemory(base, size, flags)
          PROVE  BootInv'
      BY <1>1, <3>2, GuestStep
    <3>3. CASE NtFreeVirtualMemory
      BY <1>1, <3>3, UnchangedBoot DEF NtFreeVirtualMemory
    <3> QED BY <1>4, <3>1, <3>2, <3>3 DEF NextNt
  <2>2. ToldWhatItHolds'
    BY <1>1, <1>4, ToldStep
  <2> QED BY <1>2, <2>1, <2>2 DEF NtInv
<1> QED BY <1>3, <1>4

(* Start-up and the guest keep the allocator's invariant and their own.    *)
THEOREM NtInvariance == SpecNt => []NtInv
<1> QED BY InitNtInv, NextNtInv, PTL DEF SpecNt

(* Start-up and the guest use the memory manager as XAlloc says: what is   *)
(* proved of every use of it holds of theirs.                              *)
THEOREM UsesXAlloc == SpecNt => Spec
<1>1. InitNt => Init
  BY DEF InitNt, InitBoot
<1>2. NtInv /\ [NextNt]_ntVars => [Next]_vars
  BY NtStep DEF NtInv, BootInv
<1> QED BY <1>1, <1>2, NtInvariance, PTL DEF SpecNt, Spec

(* To start-up and the guest it is an address space. *)
THEOREM UsesAddressSpace == SpecNt => ImplementsAddressSpace
BY UsesXAlloc, Implementation, PTL

(* The image, the structures, the stack and the guest's ranges are apart.  *)
THEOREM NtNoOverlap == SpecNt => []NoOverlap
BY UsesXAlloc, Disjointness, PTL

(* Neither start-up nor the guest loses track of an address, though both   *)
(* throw.                                                                  *)
THEOREM NtConservation == SpecNt => []Conservation
BY UsesXAlloc, Conserved, PTL

(* The sections lie inside the image's allocation, where they were linked. *)
THEOREM ImageStays == SpecNt => []ImageIntact
<1>1. NtInv => ImageIntact
  BY DEF NtInv, BootInv
<1> QED BY <1>1, NtInvariance, PTL

(* The guest starts with its variables pointing at structures of their     *)
(* own.                                                                    *)
THEOREM ImportsAreResolved == SpecNt => []ImportsResolved
<1>1. NtInv => ImportsResolved
  <2> SUFFICES ASSUME NtInv, pc = "guest", metadata # NoImage PROVE ImportsResolved
    BY DEF ImportsResolved
  <2>1. Loaded /\ StructsOK /\ WordsOK
    BY DEF NtInv, BootInv, Loaded
  <2>2. DOMAIN structs = Made /\ \A n \in Made : structs[n] = Place(n) /\ Standing(n)
    BY <2>1 DEF StructsOK
  <2>3. PageSize \in Nat \ {0}
    BY SpaceAssumption
  <2>4. Imports(Handle) => "handle" \in Made /\ "handlePtr" \in Made
    BY DEF Made
  <2>5. Imports(Hardware) => "hardware" \in Made
    BY DEF Made
  <2>6. ASSUME NEW n \in DOMAIN structs
        PROVE  \E a \in live \ {image, stack} : a.offset = structs[n]
    BY <2>2, <2>6 DEF Standing
  <2>7. ASSUME NEW m \in DOMAIN structs, NEW n \in DOMAIN structs, m # n
        PROVE  structs[m] # structs[n]
    <3>1. structs[m] = Place(m) /\ structs[n] = Place(n) /\ m \in Made /\ n \in Made
      BY <2>2, <2>7
    <3> QED BY <2>3, <2>7, <3>1 DEF Made, Place, HardwarePlace
  <2>8. ASSUME Imports(Handle)
        PROVE  /\ structs["handlePtr"] = PageSize /\ structs["handle"] = 0
               /\ words[PageSize] = 0
               /\ words[metadata.slots[Handle]] = PageSize \/ Overwritten
    BY <2>1, <2>2, <2>4, <2>8 DEF WordsOK, HandleResolved, Place
  <2>9. ASSUME Imports(Hardware)
        PROVE  words[metadata.slots[Hardware]] = structs["hardware"]
    BY <2>1, <2>2, <2>5, <2>9 DEF WordsOK, Place
  <2> QED BY <2>2, <2>4, <2>5, <2>6, <2>7, <2>8, <2>9
          DEF ImportsResolved, Overwritten, Handle, Hardware
<1> QED BY <1>1, NtInvariance, PTL

(* A guest told SUCCESS holds what it was told of. *)
THEOREM ToldTrue == SpecNt => []ToldWhatItHolds
<1>1. NtInv => ToldWhatItHolds
  BY DEF NtInv
<1> QED BY <1>1, NtInvariance, PTL

(* A guest told of a failure lost nothing by it, and memory was out where  *)
(* it was told so: what it wanted, rounded up to its kind of page, is a    *)
(* whole number of pages, and no block is that long.                       *)
THEOREM FailuresHonest == SpecNt => FailureIsHonest
<1> DEFINE Honest ==
      call' # call /\ call'.status \in {"NOT_IMPLEMENTED", "NO_MEMORY"} =>
        LET page == PageAlignment(call'.flags)
            n    == page * ((call'.wanted + page - 1) \div page)
        IN /\ call'.told = 0
           /\ UNCHANGED <<freeBlocks, live, lost>>
           /\ call'.status = "NO_MEMORY" =>
                \A o \in Available : ~ Span(o, n) \subseteq Available
<1>1. NtInv /\ [NextNt]_ntVars => [Honest]_ntVars
  <2> SUFFICES ASSUME NtInv, NextNt, call' # call,
                      call'.status \in {"NOT_IMPLEMENTED", "NO_MEMORY"}
               PROVE  Honest
    BY DEF ntVars
  <2>1. IInv
    BY DEF NtInv
  <2>2. PICK base \in GuestBases, size \in GuestSizes, flags \in SUBSET Flags :
          NtAllocateVirtualMemory(base, size, flags)
    BY DEF NextNt, NtFreeVirtualMemory, NoCall
  <2>3. CASE NotImplemented(base, size, flags)
    <3>1. call'.told = 0 /\ call'.status = "NOT_IMPLEMENTED" /\ UNCHANGED vars
      BY <2>3 DEF NotImplemented, Told
    <3> QED BY <3>1 DEF vars
  <2>4. CASE Commit(base, size, flags)
    BY <2>4 DEF Commit, Told
  <2>5. CASE AskHeap(base, size, flags)
    <3> DEFINE page == PageAlignment(flags)
               n == page * ((size + page - 1) \div page)
               m == AlignWord(size, page)
    <3>1. reply'.status = "null" /\ call' = Told("NO_MEMORY", flags, size, 0, size)
      <4>1. reply'.status # "ok" /\ reply'.status # "thrown"
        BY <2>5 DEF AskHeap, Told
      <4> QED BY <2>5, <4>1 DEF AskHeap
    <3>2. call'.flags = flags /\ call'.wanted = size /\ call'.told = 0
      BY <3>1 DEF Told
    <3>3. AllocateNull(Swap(base), AlignSize(m))
      BY <2>5, <3>1, AnswerTells DEF AskHeap
    <3>4. UNCHANGED <<freeBlocks, live, lost>> /\ LongEnough(AlignSize(m)) = {}
      BY <3>3 DEF AllocateNull
    <3>5. ASSUME NEW o \in Available, Span(o, n) \subseteq Available PROVE FALSE
      <4>1. size \in 0 .. Total - 1
        BY WordAssumption
      <4>2. /\ page \in 1 .. Total /\ Multiple(page)
            /\ m \in 0 .. Total - 1
            /\ m = 0 \/ (size <= m /\ m = n)
        BY <4>1, AlignWordIs
      <4> HIDE DEF page, m
      <4>3. freeBlocks \subseteq Blocks /\ Apart(freeBlocks)
        BY <2>1 DEF IInv, BlocksOK
      <4>4. CASE m = 0
        <5>1. AlignSize(m) = 0
          BY <4>4, AlignSizeMultiple, TotalMultiple
        <5>2. \A b \in freeBlocks : 0 <= b.size
          BY <4>3 DEF Blocks
        <5>3. freeBlocks = {}
          BY <3>4, <5>1, <5>2 DEF LongEnough
        <5> QED BY <3>5, <5>3 DEF Available, Covered
      <4>5. CASE m # 0
        <5>1. m = n /\ n \in Nat
          BY <4>2, <4>5, SpaceAssumption
        <5>2. Multiple(n)
          <6>1. PICK k \in Nat : page = PageSize * k
            BY <4>2 DEF Multiple
          <6> DEFINE q == (size + page - 1) \div page
          <6>2. q \in Nat
            BY <4>1, <4>2, SpaceAssumption
          <6> HIDE DEF q
          <6>3. n = (PageSize * k) * q
            BY <6>1 DEF q
          <6>4. (PageSize * k) * q = PageSize * (k * q) /\ k * q \in Nat
            BY <6>1, <6>2, SpaceAssumption
          <6> QED BY <6>3, <6>4 DEF Multiple
        <5> HIDE DEF n
        <5>3. AlignSize(m) = n
          BY <5>1, <5>2, AlignSizeMultiple
        <5>4. PICK b \in freeBlocks : o \in Nat /\ b.offset <= o /\ o + n <= End(b)
          BY <3>5, <4>3, <5>1, InOneBlock DEF Available
        <5>5. b \in LongEnough(n)
          BY <4>3, <5>1, <5>4 DEF LongEnough, End, Blocks
        <5> QED BY <3>4, <5>3, <5>5
      <4> QED BY <4>4, <4>5
    <3> QED BY <3>2, <3>4, <3>5
  <2> QED BY <2>2, <2>3, <2>4, <2>5 DEF NtAllocateVirtualMemory
<1> QED BY <1>1, NtInvariance, PTL DEF SpecNt, FailureIsHonest
=============================================================================
