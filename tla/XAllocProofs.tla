---------------------------- MODULE XAllocProofs ----------------------------
(***************************************************************************)
(* Proofs about XAlloc and XAllocVec, for every region, page size and set  *)
(* of requests.                                                            *)
(***************************************************************************)
EXTENDS XAlloc, FreeVector, FoldLemmas

Blocks == [offset : Nat, size : Nat \ {0}]

-----------------------------------------------------------------------------
(* Merging.                                                                *)

(* Merging blocks that do not touch changes nothing. *)
LEMMA MergeApart ==
  ASSUME NEW F, F \subseteq Blocks, Apart(F)
  PROVE  MergeFreeBlocks(F) = F
<1>1. \A b \in F : b.offset \in Nat /\ b.size \in Nat \ {0} /\ b = Block(b.offset, b.size)
  BY DEF Blocks, Block
<1>2. Offsets(F) \ Ends(F) = Offsets(F)
  BY <1>1 DEF Apart, Offsets, Ends, End
<1>3. Ends(F) \ Offsets(F) = Ends(F)
  <2>1. \A b, c \in F : End(b) # c.offset
    BY <1>1 DEF Apart, End
  <2> QED BY <2>1 DEF Offsets, Ends
<1>4. MergeFreeBlocks(F) = Runs(Offsets(F), Ends(F))
  BY <1>2, <1>3 DEF MergeFreeBlocks
<1>5. ASSUME NEW b \in F
      PROVE  b \in Runs(Offsets(F), Ends(F))
  <2> DEFINE r == <<b.offset, End(b)>>
  <2>1. r \in Offsets(F) \X Ends(F)
    BY DEF Offsets, Ends
  <2>2. r[1] < r[2] /\ b = Block(r[1], r[2] - r[1])
    BY <1>1 DEF End, Block
  <2>3. \A e \in Ends(F) : r[1] < e => r[2] <= e
    <3> SUFFICES ASSUME NEW c \in F, b.offset < End(c)
                 PROVE  End(b) <= End(c)
      BY DEF Ends
    <3> QED BY <1>1 DEF Apart, End
  <2> HIDE DEF r
  <2> QED BY <2>1, <2>2, <2>3 DEF Runs
<1>6. ASSUME NEW m \in Runs(Offsets(F), Ends(F))
      PROVE  m \in F
  <2>1. PICK b \in F, c \in F :
           /\ m = Block(b.offset, End(c) - b.offset)
           /\ b.offset < End(c)
           /\ \A e \in Ends(F) : b.offset < e => End(c) <= e
    BY DEF Runs, Offsets, Ends
  <2>2. End(c) <= End(b)
    BY <1>1, <2>1 DEF Ends, End
  <2>3. b = c
    BY <1>1, <2>1, <2>2 DEF Apart, End
  <2> QED BY <1>1, <2>1, <2>3 DEF End, Block
<1> QED BY <1>4, <1>5, <1>6
(* One more block, clear of the others, may touch one before it, one       *)
(* after it, or both, and is glued to those it touches.                    *)
Before(F, x) == {b \in F : End(b) = x}

After(F, x) == {b \in F : b.offset = x}

Glued(F, blk) ==
  LET lo == IF Before(F, blk.offset) = {} THEN blk.offset
            ELSE (CHOOSE b \in Before(F, blk.offset) : TRUE).offset
      hi == IF After(F, End(blk)) = {} THEN End(blk)
            ELSE End(CHOOSE b \in After(F, End(blk)) : TRUE)
  IN Block(lo, hi - lo)

Clear(F, blk) == \A b \in F : End(b) <= blk.offset \/ End(blk) <= b.offset

(* mergeFreeBlocks after one block was added: the list stays coalesced,    *)
(* covers the block as well, and no boundary is new.                       *)
LEMMA MergeOne ==
  ASSUME NEW F, F \subseteq Blocks, Apart(F), NEW blk \in Blocks, Clear(F, blk)
  PROVE  LET M == MergeFreeBlocks(F \cup {blk})
         IN /\ M \subseteq Blocks
            /\ Apart(M)
            /\ Covered(M) = Covered(F) \cup Bytes(blk)
            /\ Offsets(M) \subseteq Offsets(F \cup {blk})
            /\ Ends(M) \subseteq Ends(F \cup {blk})
<1> DEFINE G == (F \ Before(F, blk.offset)) \ After(F, End(blk))
           M == G \cup {Glued(F, blk)}
           lo == Glued(F, blk).offset
           hi == End(Glued(F, blk))
<1>1. \A b \in F \cup {blk} : b.offset \in Nat /\ b.size \in Nat \ {0} /\ End(b) \in Nat
                             /\ b.offset < End(b)
  BY DEF Blocks, End
<1>2. ASSUME NEW b \in Before(F, blk.offset), NEW c \in Before(F, blk.offset) PROVE b = c
  BY <1>1 DEF Before, Apart, End
<1>3. ASSUME NEW b \in After(F, End(blk)), NEW c \in After(F, End(blk)) PROVE b = c
  BY <1>1 DEF After, Apart, End
<1>4. /\ lo \in Nat /\ hi \in Nat /\ lo < hi /\ lo <= blk.offset /\ End(blk) <= hi
      /\ Glued(F, blk) \in Blocks
  <2>1. CASE Before(F, blk.offset) = {} /\ After(F, End(blk)) = {}
    BY <1>1, <2>1 DEF Glued, Block, End, Blocks
  <2>2. CASE Before(F, blk.offset) # {} /\ After(F, End(blk)) = {}
    BY <1>1, <2>2 DEF Glued, Block, End, Blocks, Before
  <2>3. CASE Before(F, blk.offset) = {} /\ After(F, End(blk)) # {}
    BY <1>1, <2>3 DEF Glued, Block, End, Blocks, After
  <2>4. CASE Before(F, blk.offset) # {} /\ After(F, End(blk)) # {}
    BY <1>1, <2>4 DEF Glued, Block, End, Blocks, Before, After
  <2> QED BY <2>1, <2>2, <2>3, <2>4
<1>5. /\ \A p \in Before(F, blk.offset) : lo = p.offset
      /\ Before(F, blk.offset) = {} => lo = blk.offset
  BY <1>1, <1>2 DEF Glued, Block
<1>6. /\ \A s \in After(F, End(blk)) : hi = End(s)
      /\ After(F, End(blk)) = {} => hi = End(blk)
  <2>1. hi = IF After(F, End(blk)) = {} THEN End(blk)
             ELSE End(CHOOSE b \in After(F, End(blk)) : TRUE)
    <3>1. lo \in Nat
      BY <1>4
    <3>2. (IF After(F, End(blk)) = {} THEN End(blk)
             ELSE End(CHOOSE b \in After(F, End(blk)) : TRUE)) \in Nat
      BY <1>1 DEF After
    <3> QED BY <3>1, <3>2 DEF Glued, Block, End
  <2> QED BY <2>1, <1>3
<1>7. \A g \in G : End(g) < lo \/ hi < g.offset
  <2> SUFFICES ASSUME NEW g \in G PROVE End(g) < lo \/ hi < g.offset
    OBVIOUS
  <2>0. g \in F /\ End(g) # blk.offset /\ g.offset # End(blk)
    BY DEF Before, After
  <2>1. End(g) < blk.offset \/ End(blk) < g.offset
    BY <2>0, <1>1 DEF Clear
  <2>2. CASE End(g) < blk.offset
    <3>1. \A p \in Before(F, blk.offset) : End(g) < p.offset
      BY <1>1, <2>0, <2>2 DEF Before, Apart
    <3> QED BY <3>1, <2>2, <1>5
  <2>3. CASE End(blk) < g.offset
    <3>1. \A s \in After(F, End(blk)) : End(s) < g.offset
      BY <1>1, <2>0, <2>3 DEF After, Apart
    <3> QED BY <3>1, <2>3, <1>6
  <2> QED BY <2>1, <2>2, <2>3
<1>8. Apart(M) /\ M \subseteq Blocks
  <2>1. \A g, h \in G : g # h => End(g) < h.offset \/ End(h) < g.offset
    BY DEF Apart
  <2>2. M \subseteq Blocks
    BY <1>4
  <2> QED BY <2>1, <2>2, <1>7 DEF Apart
<1>9. Offsets(F \cup {blk}) \ Ends(F \cup {blk}) = Offsets(M) \ Ends(M)
  <2>1. \A m, n \in M : m.offset # End(n)
    BY <1>8 DEF Apart, Blocks, End
  <2>2. Offsets(M) \ Ends(M) = Offsets(G) \cup {lo}
    BY <2>1 DEF Offsets, Ends
  <2>3. ASSUME NEW g \in G PROVE g.offset \notin Ends(F \cup {blk})
    BY <1>1 DEF Before, After, Ends, Apart
  <2>4. lo \notin Ends(F \cup {blk}) /\ lo \in Offsets(F \cup {blk})
    <3>1. CASE Before(F, blk.offset) = {}
      BY <3>1, <1>1, <1>5 DEF Before, Ends, Offsets
    <3>2. CASE Before(F, blk.offset) # {}
      <4>1. PICK p \in F : End(p) = blk.offset /\ lo = p.offset
        BY <3>2, <1>5 DEF Before
      <4> QED BY <4>1, <1>1 DEF Ends, Offsets, Apart
    <3> QED BY <3>1, <3>2
  <2>5. ASSUME NEW b \in F \cup {blk}, b.offset \notin Ends(F \cup {blk})
        PROVE  b.offset \in Offsets(G) \cup {lo}
    <3>1. CASE b = blk
      BY <3>1, <2>5, <1>5 DEF Before, Ends
    <3>2. CASE b \in Before(F, blk.offset)
      BY <3>2, <1>5
    <3>3. b \notin After(F, End(blk))
      BY <2>5 DEF After, Ends
    <3> QED BY <3>1, <3>2, <3>3 DEF Offsets
  <2>6. Offsets(G) \subseteq Offsets(F \cup {blk})
    BY DEF Offsets
  <2>7. Offsets(F \cup {blk}) \ Ends(F \cup {blk}) \subseteq Offsets(G) \cup {lo}
    BY <2>5 DEF Offsets
  <2>8. Offsets(G) \cup {lo} \subseteq Offsets(F \cup {blk}) \ Ends(F \cup {blk})
    BY <2>3, <2>4, <2>6 DEF Offsets
  <2> QED BY <2>2, <2>7, <2>8
<1>10. Ends(F \cup {blk}) \ Offsets(F \cup {blk}) = Ends(M) \ Offsets(M)
  <2>1. \A m, n \in M : m.offset # End(n)
    BY <1>8 DEF Apart, Blocks, End
  <2>2. Ends(M) \ Offsets(M) = Ends(G) \cup {hi}
    BY <2>1 DEF Offsets, Ends
  <2>3. ASSUME NEW g \in G PROVE End(g) \notin Offsets(F \cup {blk})
    BY <1>1 DEF Before, After, Offsets, Apart
  <2>4. hi \notin Offsets(F \cup {blk}) /\ hi \in Ends(F \cup {blk})
    <3>1. CASE After(F, End(blk)) = {}
      BY <3>1, <1>1, <1>6 DEF After, Ends, Offsets
    <3>2. CASE After(F, End(blk)) # {}
      <4>1. PICK s \in F : s.offset = End(blk) /\ hi = End(s)
        BY <3>2, <1>6 DEF After
      <4> QED BY <4>1, <1>1 DEF Ends, Offsets, Apart
    <3> QED BY <3>1, <3>2
  <2>5. ASSUME NEW b \in F \cup {blk}, End(b) \notin Offsets(F \cup {blk})
        PROVE  End(b) \in Ends(G) \cup {hi}
    <3>1. CASE b = blk
      BY <3>1, <2>5, <1>6 DEF After, Offsets
    <3>2. CASE b \in After(F, End(blk))
      BY <3>2, <1>6
    <3>3. b \notin Before(F, blk.offset)
      BY <2>5 DEF Before, Offsets
    <3> QED BY <3>1, <3>2, <3>3 DEF Ends
  <2>6. Ends(G) \subseteq Ends(F \cup {blk})
    BY DEF Ends
  <2>7. Ends(F \cup {blk}) \ Offsets(F \cup {blk}) \subseteq Ends(G) \cup {hi}
    BY <2>5 DEF Ends
  <2>8. Ends(G) \cup {hi} \subseteq Ends(F \cup {blk}) \ Offsets(F \cup {blk})
    BY <2>3, <2>4, <2>6 DEF Ends
  <2> QED BY <2>2, <2>7, <2>8
<1>11. MergeFreeBlocks(F \cup {blk}) = M
  BY <1>8, <1>9, <1>10, MergeApart DEF MergeFreeBlocks
<1>12. Covered(M) = Covered(F) \cup Bytes(blk)
  <2> DEFINE glued == Glued(F, blk)
  <2>1. \A b \in Blocks : \A x : x \in Bytes(b) <=> x \in Nat /\ b.offset <= x /\ x < End(b)
    BY DEF Blocks, Bytes, Span, End
  <2>2. ASSUME NEW b \in F \cup {blk}, NEW x \in Bytes(b)
        PROVE  \E m \in M : x \in Bytes(m)
    <3>1. CASE b \in G
      BY <3>1
    <3>2. CASE b \notin G
      <4>1. lo <= b.offset /\ End(b) <= hi
        BY <3>2, <1>1, <1>4, <1>5, <1>6 DEF Before, After
      <4>2. b \in Blocks /\ glued \in Blocks
        BY <1>4
      <4> QED BY <4>1, <4>2, <2>1, <1>1, <1>4
    <3> QED BY <3>1, <3>2
  <2>3. ASSUME NEW m \in M, NEW x \in Bytes(m)
        PROVE  \E b \in F \cup {blk} : x \in Bytes(b)
    <3>1. CASE m \in G
      BY <3>1
    <3>2. CASE m = glued
      <4>1. x \in Nat /\ lo <= x /\ x < hi
        BY <3>2, <2>1, <1>4
      <4>2. CASE x < blk.offset
        <5>1. PICK p \in F : End(p) = blk.offset /\ lo = p.offset
          BY <4>1, <4>2, <1>1, <1>5 DEF Before
        <5> QED BY <5>1, <4>1, <4>2, <2>1, <1>1
      <4>3. CASE x >= End(blk)
        <5>1. PICK s \in F : s.offset = End(blk) /\ hi = End(s)
          BY <4>1, <4>3, <1>1, <1>6 DEF After
        <5> QED BY <5>1, <4>1, <4>3, <2>1, <1>1
      <4>4. CASE blk.offset <= x /\ x < End(blk)
        BY <4>4, <4>1, <2>1
      <4> QED BY <4>1, <4>2, <4>3, <4>4, <1>1
    <3> QED BY <3>1, <3>2
  <2> HIDE DEF M
  <2> QED BY <2>2, <2>3 DEF Covered
<1>13. Offsets(M) \subseteq Offsets(F \cup {blk}) /\ Ends(M) \subseteq Ends(F \cup {blk})
  <2>1. lo \in Offsets(F \cup {blk})
    BY <1>5 DEF Before, Offsets
  <2>2. hi \in Ends(F \cup {blk})
    BY <1>6 DEF After, Ends
  <2> QED BY <2>1, <2>2 DEF Offsets, Ends
<1> HIDE DEF M
<1> QED BY <1>8, <1>11, <1>12, <1>13
(* Taking n bytes at o out of the middle, or an end, of a free block. *)
LEMMA Split ==
  ASSUME NEW F, F \subseteq Blocks, Apart(F), NEW b \in F, NEW o \in Nat, NEW n \in Nat,
         b.offset <= o, o + n <= End(b)
  PROVE  LET S == SplitFreeBlock(F, b, o, n)
         IN /\ S \subseteq Blocks
            /\ Apart(S)
            /\ Covered(S) = Covered(F) \ Span(o, n)
            /\ Span(o, n) \subseteq Covered(F)
            /\ Offsets(S) \subseteq Offsets(F) \cup {o + n}
            /\ Ends(S) \subseteq Ends(F) \cup {o}
<1> DEFINE L == LeftOf(b, o)
           R == RightOf(b, o, n)
           F0 == (F \ {b}) \cup L
           S == SplitFreeBlock(F, b, o, n)
           r == Block(o + n, End(b) - (o + n))
<1>1. \A c \in F : c.offset \in Nat /\ c.size \in Nat \ {0} /\ End(c) \in Nat
                  /\ c.offset < End(c)
  BY DEF Blocks, End
<1>2. \A l \in L : l \in Blocks /\ l.offset = b.offset /\ End(l) = o
  BY <1>1 DEF LeftOf, Block, Blocks, End
<1>3. \A q \in R : q \in Blocks /\ q.offset = o + n /\ End(q) = End(b) /\ q = r /\ o + n < End(b)
  BY <1>1 DEF RightOf, Block, Blocks, End
<1>4. F0 \subseteq Blocks
  BY <1>2
<1>5. Apart(F0)
  <2>1. \A c \in F \ {b}, l \in L : End(c) < l.offset \/ End(l) < c.offset
    BY <1>1, <1>2 DEF Apart
  <2>2. \A l, m \in L : l = m
    BY DEF LeftOf
  <2> HIDE DEF L
  <2> QED BY <2>1, <2>2 DEF Apart
<1>6. \A c \in Blocks : \A x : x \in Bytes(c) <=> x \in Nat /\ c.offset <= x /\ x < End(c)
  BY DEF Blocks, Bytes, Span, End
<1>7. \A x : x \in Span(o, n) <=> x \in Nat /\ o <= x /\ x < o + n
  BY DEF Span
<1>8. \A c \in F : c # b => Bytes(c) \cap Bytes(b) = {}
  BY <1>1, <1>6 DEF Apart
<1>9. Covered(F0 \cup R) = Covered(F) \ Span(o, n)
  <2>1. ASSUME NEW c \in F0 \cup R, NEW x \in Bytes(c)
        PROVE  x \notin Span(o, n) /\ \E d \in F : x \in Bytes(d)
    <3>1. CASE c \in F \ {b}
      <4>1. x \notin Bytes(b)
        BY <3>1, <1>8
      <4> QED BY <3>1, <4>1, <1>1, <1>6, <1>7
    <3>2. CASE c \in L
      BY <3>2, <1>1, <1>2, <1>6, <1>7
    <3>3. CASE c \in R
      BY <3>3, <1>1, <1>3, <1>6, <1>7
    <3> QED BY <3>1, <3>2, <3>3
  <2>2. ASSUME NEW c \in F, NEW x \in Bytes(c), x \notin Span(o, n)
        PROVE  \E d \in F0 \cup R : x \in Bytes(d)
    <3>1. CASE c # b
      BY <3>1
    <3>2. CASE c = b /\ x < o
      <4>1. Block(b.offset, o - b.offset) \in L
        BY <3>2, <1>1, <1>6 DEF LeftOf
      <4> QED BY <4>1, <3>2, <1>2, <1>6
    <3>3. CASE c = b /\ o + n <= x
      <4>1. r \in R
        BY <3>3, <1>1, <1>6 DEF RightOf
      <4> QED BY <4>1, <3>3, <1>1, <1>3, <1>6
    <3> QED BY <3>1, <3>2, <3>3, <2>2, <1>1, <1>6, <1>7
  <2> HIDE DEF F0, R
  <2> QED BY <2>1, <2>2 DEF Covered
<1>10. Span(o, n) \subseteq Covered(F)
  <2>1. Span(o, n) \subseteq Bytes(b)
    BY <1>1, <1>6, <1>7
  <2> QED BY <2>1 DEF Covered
<1>11. /\ Offsets(F0 \cup R) \subseteq Offsets(F) \cup {o + n}
       /\ Ends(F0 \cup R) \subseteq Ends(F) \cup {o}
  <2> HIDE DEF L, R
  <2> QED BY <1>2, <1>3 DEF Offsets, Ends
<1>12. S = MergeFreeBlocks(F0 \cup R)
  BY DEF SplitFreeBlock
<1>13. CASE R = {}
  BY <1>13, <1>12, <1>4, <1>5, <1>9, <1>10, <1>11, MergeApart
<1>14. CASE R # {}
  <2>1. R = {r} /\ r \in Blocks /\ r.offset = o + n /\ End(r) = End(b)
    BY <1>14, <1>3
  <2>2. Clear(F0, r)
    <3>1. \A c \in F \ {b} : End(c) <= r.offset \/ End(r) <= c.offset
      BY <2>1, <1>1 DEF Apart
    <3>2. \A l \in L : End(l) <= r.offset
      BY <2>1, <1>2
    <3> QED BY <3>1, <3>2 DEF Clear
  <2>3. Covered(F0 \cup {r}) = Covered(F0) \cup Bytes(r)
    BY DEF Covered
  <2> HIDE DEF F0, R, S, r
  <2>4. S \subseteq Blocks /\ Apart(S) /\ Covered(S) = Covered(F0) \cup Bytes(r)
        /\ Offsets(S) \subseteq Offsets(F0 \cup {r}) /\ Ends(S) \subseteq Ends(F0 \cup {r})
    BY <2>1, <2>2, <1>4, <1>5, <1>12, MergeOne, Zenon
  <2> QED BY <2>1, <2>3, <2>4, <1>9, <1>10, <1>11 DEF S
<1> QED BY <1>13, <1>14
-----------------------------------------------------------------------------
(* Pages.                                                                  *)

Multiple(x) == \E k \in Nat : x = PageSize * k

(* The page VirtualAlloc rounds an address down to.                        *)
LEMMA RoundDownIs ==
  ASSUME NEW x \in Nat
  PROVE  /\ RoundDown(x) \in Nat
         /\ RoundDown(x) <= x
         /\ x < RoundDown(x) + PageSize
         /\ Multiple(RoundDown(x))
<1>1. x \div PageSize \in Nat
  BY SpaceAssumption
<1>2. /\ PageSize * (x \div PageSize) <= x
      /\ x < PageSize * (x \div PageSize) + PageSize
  BY SpaceAssumption
<1>3. PageSize * (x \div PageSize) \in Nat
  BY <1>1, SpaceAssumption
<1> QED BY <1>1, <1>2, <1>3 DEF RoundDown, Multiple

(* alignSize returns whole pages.                                          *)
LEMMA AlignSizeIs ==
  ASSUME NEW size \in Nat
  PROVE  AlignSize(size) \in Nat /\ Multiple(AlignSize(size))
<1>1. (size + PageSize - 1) \div PageSize \in Nat
  BY SpaceAssumption
<1>2. \A k \in Nat : PageSize * k \in Nat
  BY SpaceAssumption
<1> QED BY <1>1, <1>2 DEF AlignSize, Multiple

(* Multiples of the page size are a page apart. *)
LEMMA MultipleStep ==
  ASSUME NEW x, NEW y, Multiple(x), Multiple(y), x < y
  PROVE  x + PageSize <= y
<1>1. PICK i \in Nat, j \in Nat : x = PageSize * i /\ y = PageSize * j
  BY DEF Multiple
<1>2. i + 1 <= j
  <2>1. CASE j <= i
    <3>1. PageSize * j <= PageSize * i
      BY <2>1, SpaceAssumption
    <3>2. PageSize * j \in Nat /\ PageSize * i \in Nat
      BY SpaceAssumption
    <3> QED BY <1>1, <3>1, <3>2
  <2> QED BY <2>1
<1>3. PageSize * (i + 1) <= PageSize * j
  BY <1>2, SpaceAssumption
<1>4. PageSize * (i + 1) = PageSize * i + PageSize
  BY SpaceAssumption
<1> QED BY <1>1, <1>3, <1>4

(* Whole pages behind whole pages are whole pages.                         *)
LEMMA MultipleSum ==
  ASSUME NEW x, NEW y, Multiple(x), Multiple(y)
  PROVE  Multiple(x + y) /\ x \in Nat
<1>1. PICK i \in Nat, j \in Nat : x = PageSize * i /\ y = PageSize * j
  BY DEF Multiple
<1>2. PageSize * (i + j) = PageSize * i + PageSize * j
  BY SpaceAssumption
<1>3. PageSize * i \in Nat
  BY SpaceAssumption
<1> QED BY <1>1, <1>2, <1>3 DEF Multiple

(* VirtualAlloc leaves a page boundary as it is.                           *)
LEMMA RoundDownMultiple ==
  ASSUME NEW x, Multiple(x)
  PROVE  RoundDown(x) = x
<1>1. x \in Nat
  BY MultipleSum
<1>2. CASE RoundDown(x) < x
  BY <1>1, <1>2, RoundDownIs, MultipleStep, SpaceAssumption
<1> QED BY <1>1, <1>2, RoundDownIs

(* Rounding two starts down keeps them a whole number of pages apart. *)
LEMMA RoundDownApart ==
  ASSUME NEW x \in Nat, NEW y \in Nat, NEW n \in Nat, Multiple(n), x + n <= y
  PROVE  RoundDown(x) + n <= RoundDown(y)
<1>1. Multiple(RoundDown(x) + n)
  BY RoundDownIs, MultipleSum
<1>2. CASE RoundDown(y) < RoundDown(x) + n
  <2>1. RoundDown(y) + PageSize <= RoundDown(x) + n
    BY <1>1, <1>2, RoundDownIs, MultipleStep
  <2> QED BY <2>1, RoundDownIs, SpaceAssumption
<1> QED BY <1>2, RoundDownIs

(* Rounding down keeps the order of addresses.                             *)
LEMMA RoundDownMonotone ==
  ASSUME NEW x \in Nat, NEW y \in Nat, x <= y
  PROVE  RoundDown(x) <= RoundDown(y)
<1>1. Multiple(0) /\ 0 \in Nat
  BY SpaceAssumption DEF Multiple
<1>2. RoundDown(x) + 0 <= RoundDown(y)
  BY <1>1, RoundDownApart
<1> QED BY <1>2, RoundDownIs

(* The addresses of a range on page boundaries lie in pages of the range. *)
LEMMA RoundDownInside ==
  ASSUME NEW o, NEW n \in Nat, Multiple(o), NEW x \in Span(o, n)
  PROVE  RoundDown(x) \in Span(o, n)
<1>1. o \in Nat /\ x \in Nat /\ o <= x /\ x < o + n
  <2>1. o \in Nat
    BY MultipleSum
  <2> QED BY <2>1 DEF Span
<1>2. o <= RoundDown(x)
  BY <1>1, RoundDownMonotone, RoundDownMultiple
<1> QED BY <1>1, <1>2, RoundDownIs DEF Span

(* Committing n bytes at o commits what begins at o rounded down. *)
LEMMA PagesCovered ==
  ASSUME NEW o \in Nat, NEW n \in Nat \ {0}
  PROVE  PagesOf(RoundDown(o), n) \subseteq PagesOf(o, n)
<1> SUFFICES ASSUME NEW x \in Span(RoundDown(o), n)
             PROVE  \E y \in Span(o, n) : RoundDown(x) = RoundDown(y)
  BY DEF PagesOf
<1>1. RoundDown(o) \in Nat /\ RoundDown(o) <= o /\ Multiple(RoundDown(o))
  BY RoundDownIs
<1>2. x \in Nat /\ RoundDown(o) <= x /\ x < RoundDown(o) + n
  BY <1>1 DEF Span
<1>3. CASE o <= x
  <2>1. x \in Span(o, n)
    BY <1>1, <1>2, <1>3 DEF Span
  <2> QED BY <2>1
<1>4. CASE x < o
  <2>1. o \in Span(o, n)
    BY DEF Span
  <2>2. RoundDown(x) <= RoundDown(o)
    BY <1>2, <1>4, RoundDownMonotone
  <2>3. RoundDown(RoundDown(o)) <= RoundDown(x) /\ RoundDown(RoundDown(o)) = RoundDown(o)
    BY <1>1, <1>2, RoundDownMonotone, RoundDownMultiple
  <2>4. RoundDown(x) \in Nat
    BY <1>2, RoundDownIs
  <2> QED BY <2>1, <2>2, <2>3, <2>4, <1>1
<1> QED BY <1>2, <1>3, <1>4

-----------------------------------------------------------------------------
(* The inductive invariant.                                                *)

Ranges == [offset : Nat, size : Nat \ {0}, booked : Nat]

BlocksOK == freeBlocks \subseteq Blocks /\ Apart(freeBlocks)

(* A client's pointer is its booked offset rounded down, and its size a    *)
(* whole number of pages.                                                  *)
LiveOK ==
  /\ live \subseteq Ranges
  /\ \A a \in live : a.offset = RoundDown(a.booked) /\ Multiple(a.size)

(* Where free is called, everything begins and ends at a page boundary. *)
OnPages ==
  FreeCalled =>
    /\ \A x \in Offsets(freeBlocks) \cup Ends(freeBlocks) : Multiple(x)
    /\ \A a \in live : Multiple(a.booked)

Replies ==
  [status : {"none", "ok", "thrown", "null", "freed"}, preferred : Nat, size : Nat]

IInv ==
  /\ BlocksOK
  /\ LiveOK
  /\ OnPages
  /\ Conservation
  /\ committed \subseteq Span(0, Total)
  /\ HeldIsCommitted
  /\ reply \in Replies

(* Membership in a block and in a span, as inequalities.                   *)
LEMMA BytesOf ==
  /\ \A b \in Blocks : \A x : x \in Bytes(b) <=> x \in Nat /\ b.offset <= x /\ x < End(b)
  /\ \A o, n \in Nat : \A x : x \in Span(o, n) <=> x \in Nat /\ o <= x /\ x < o + n
BY DEF Blocks, Bytes, Span, End

(* The region is a whole number of pages.                                  *)
LEMMA TotalMultiple == Multiple(Total) /\ Multiple(0)
<1>1. Total \div PageSize \in Nat /\ Total = PageSize * (Total \div PageSize)
  BY SpaceAssumption
<1>2. PageSize * 0 = 0
  BY SpaceAssumption
<1> QED BY <1>1, <1>2 DEF Multiple

(* The invariant implies what the runs check. *)
LEMMA IInvTypeOK == IInv => TypeOK
<1> SUFFICES ASSUME IInv PROVE TypeOK
  OBVIOUS
<1> USE DEF IInv
<1>1. Covered(freeBlocks) \subseteq Span(0, Total) /\ lost \subseteq Span(0, Total)
      /\ \A a \in live : Booked(a) \subseteq Span(0, Total)
  BY DEF Conservation, Available
<1>2. ASSUME NEW b \in freeBlocks
      PROVE  b \in [offset : 0 .. Total, size : 1 .. Total]
  <2>1. b \in Blocks
    BY DEF BlocksOK
  <2>2. Span(b.offset, b.size) \subseteq Span(0, Total)
    BY <1>1 DEF Covered, Bytes
  <2>3. b.offset \in Span(b.offset, b.size) /\ b.offset + b.size - 1 \in Span(b.offset, b.size)
    BY <2>1 DEF Blocks, Span
  <2>4. 0 <= b.offset /\ b.offset + b.size - 1 < Total
    BY <2>1, <2>2, <2>3, SpaceAssumption DEF Blocks, Span
  <2> QED BY <2>1, <2>4, SpaceAssumption DEF Blocks
<1>3. ASSUME NEW a \in live
      PROVE  a \in [offset : 0 .. Total, size : 1 .. Total, booked : 0 .. Total]
  <2>1. a \in Ranges /\ a.offset = RoundDown(a.booked)
    BY DEF LiveOK
  <2>2. Span(a.booked, a.size) \subseteq Span(0, Total)
    BY <1>1 DEF Booked
  <2>3. a.booked \in Span(a.booked, a.size) /\ a.booked + a.size - 1 \in Span(a.booked, a.size)
    BY <2>1 DEF Ranges, Span
  <2>4. 0 <= a.booked /\ a.booked + a.size - 1 < Total
    BY <2>1, <2>2, <2>3, SpaceAssumption DEF Ranges, Span
  <2>5. a.offset <= a.booked
    BY <2>1, RoundDownIs DEF Ranges
  <2> QED BY <2>1, <2>4, <2>5, SpaceAssumption DEF Ranges
<1> QED BY <1>1, <1>2, <1>3 DEF TypeOK, Replies

(* Bookings are disjoint and whole pages long, so the pointers             *)
(* VirtualAlloc rounds down have disjoint ranges too.                      *)
LEMMA IInvNoOverlap == IInv => NoOverlap
<1> SUFFICES ASSUME IInv, NEW a \in live, NEW b \in live, a # b
             PROVE  Span(a.offset, a.size) \cap Span(b.offset, b.size) = {}
  BY DEF NoOverlap
<1>1. a \in Ranges /\ a.offset = RoundDown(a.booked) /\ Multiple(a.size)
  BY DEF IInv, LiveOK
<1>2. b \in Ranges /\ b.offset = RoundDown(b.booked) /\ Multiple(b.size)
  BY DEF IInv, LiveOK
<1>3. Span(a.booked, a.size) \cap Span(b.booked, b.size) = {}
  BY DEF IInv, Conservation, Booked
<1>4. a.booked + a.size <= b.booked \/ b.booked + b.size <= a.booked
  <2>1. a.booked \notin Span(b.booked, b.size) \/ a.booked \notin Span(a.booked, a.size)
    BY <1>3
  <2>2. b.booked \notin Span(b.booked, b.size) \/ b.booked \notin Span(a.booked, a.size)
    BY <1>3
  <2> QED BY <2>1, <2>2, <1>1, <1>2 DEF Ranges, Span
<1>5. a.offset + a.size <= b.offset \/ b.offset + b.size <= a.offset
  BY <1>1, <1>2, <1>4, RoundDownApart DEF Ranges
<1>6. a.offset \in Nat /\ b.offset \in Nat /\ a.size \in Nat /\ b.size \in Nat
  BY <1>1, <1>2 DEF Ranges
<1> QED BY <1>5, <1>6 DEF Span
(* What allocate chooses lies in a free block. *)
LEMMA ChoiceFits ==
  ASSUME BlocksOK, NEW p \in Nat, NEW n \in Nat, NEW b \in freeBlocks, NEW o \in {p, b.offset},
         Choice(p, n, b, o)
  PROVE  o \in Nat /\ b.offset <= o /\ o + n <= End(b)
<1>1. b.offset \in Nat /\ b.size \in Nat
  BY DEF BlocksOK, Blocks
<1>2. CASE HoldsPreferred(p, n) # {}
  BY <1>1, <1>2 DEF Choice, IsFirst, HoldsPreferred
<1>3. CASE HoldsPreferred(p, n) = {}
  BY <1>1, <1>3 DEF Choice, IsFirst, LongEnough, End
<1> QED BY <1>2, <1>3

(* The free list after a stretch is taken, whatever becomes of it. *)
LEMMA TakeStep ==
  ASSUME IInv, NEW p \in Preferred, NEW n \in Nat, Multiple(n),
         NEW b \in freeBlocks, NEW o \in {p, b.offset},
         Choice(p, n, b, o), freeBlocks' = SplitFreeBlock(freeBlocks, b, o, n)
  PROVE  /\ o \in Nat
         /\ BlocksOK'
         /\ Available' = Available \ Span(o, n)
         /\ Span(o, n) \subseteq Available
         /\ FreeCalled => /\ Multiple(o)
                          /\ \A x \in Offsets(freeBlocks') \cup Ends(freeBlocks') : Multiple(x)
<1>1. p \in Nat
  BY CallerAssumption
<1>2. BlocksOK
  BY DEF IInv
<1>3. o \in Nat /\ b.offset <= o /\ o + n <= End(b)
  BY <1>1, <1>2, ChoiceFits
<1>4. /\ freeBlocks' \subseteq Blocks
      /\ Apart(freeBlocks')
      /\ Covered(freeBlocks') = Covered(freeBlocks) \ Span(o, n)
      /\ Span(o, n) \subseteq Covered(freeBlocks)
      /\ Offsets(freeBlocks') \subseteq Offsets(freeBlocks) \cup {o + n}
      /\ Ends(freeBlocks') \subseteq Ends(freeBlocks) \cup {o}
  <2> DEFINE S == SplitFreeBlock(freeBlocks, b, o, n)
  <2>1. /\ S \subseteq Blocks
        /\ Apart(S)
        /\ Covered(S) = Covered(freeBlocks) \ Span(o, n)
        /\ Span(o, n) \subseteq Covered(freeBlocks)
        /\ Offsets(S) \subseteq Offsets(freeBlocks) \cup {o + n}
        /\ Ends(S) \subseteq Ends(freeBlocks) \cup {o}
    <3> HIDE DEF S
    <3>1. S = SplitFreeBlock(freeBlocks, b, o, n)
      BY DEF S
    <3>2. freeBlocks \subseteq Blocks /\ Apart(freeBlocks)
      BY <1>2 DEF BlocksOK
    <3> QED BY <1>3, <3>1, <3>2, Split
  <2> QED BY <2>1
<1>5. ASSUME FreeCalled
      PROVE  /\ Multiple(o)
             /\ \A x \in Offsets(freeBlocks') \cup Ends(freeBlocks') : Multiple(x)
  <2>1. \A x \in Offsets(freeBlocks) \cup Ends(freeBlocks) : Multiple(x)
    BY <1>5 DEF IInv, OnPages
  <2>2. Multiple(b.offset)
    BY <2>1 DEF Offsets
  <2>3. Multiple(p)
    <3>1. p % PageSize = 0
      BY <1>5, FreeAssumption
    <3>2. p \div PageSize \in Nat /\ p = PageSize * (p \div PageSize)
      BY <3>1, <1>1, SpaceAssumption
    <3> QED BY <3>2 DEF Multiple
  <2>4. Multiple(o) /\ Multiple(o + n)
    BY <2>2, <2>3, MultipleSum
  <2> QED BY <2>1, <2>4, <1>4
<1>6. BlocksOK'
  BY <1>4 DEF BlocksOK, Apart
<1> QED BY <1>3, <1>4, <1>5, <1>6 DEF Available

(* An allocate that succeeds keeps the invariant.                          *)
LEMMA AllocateOKStep ==
  ASSUME IInv, NEW p \in Preferred, NEW n \in Nat, Multiple(n), AllocateOK(p, n)
  PROVE  IInv'
<1>1. PICK b, o :
        /\ b \in freeBlocks
        /\ o \in {p, b.offset}
        /\ Choice(p, n, b, o)
        /\ n > 0
        /\ freeBlocks' = SplitFreeBlock(freeBlocks, b, o, n)
        /\ live' = live \cup {[offset |-> RoundDown(o), size |-> n, booked |-> o]}
        /\ committed' = committed \cup PagesOf(o, n)
        /\ reply' = Answer("ok", p, n)
        /\ lost' = lost
  BY DEF AllocateOK
<1> DEFINE new == [offset |-> RoundDown(o), size |-> n, booked |-> o]
<1>2. /\ o \in Nat
      /\ BlocksOK'
      /\ Available' = Available \ Span(o, n)
      /\ Span(o, n) \subseteq Available
      /\ FreeCalled => /\ Multiple(o)
                       /\ \A x \in Offsets(freeBlocks') \cup Ends(freeBlocks') : Multiple(x)
  BY <1>1, TakeStep
<1>3. LiveOK'
  <2>1. new \in Ranges /\ new.offset = RoundDown(new.booked) /\ Multiple(new.size)
    BY <1>1, <1>2, RoundDownIs DEF Ranges
  <2> QED BY <1>1, <2>1 DEF IInv, LiveOK
<1>4. OnPages'
  BY <1>1, <1>2 DEF IInv, OnPages
<1>5. Conservation'
  <2>1. Booked(new) = Span(o, n)
    BY DEF Booked
  <2> HIDE DEF new
  <2>2. Span(0, Total) = Available' \cup (UNION {Booked(a) : a \in live'}) \cup lost'
    BY <1>1, <1>2, <2>1 DEF IInv, Conservation, new
  <2>3. \A a \in live' : Booked(a) \cap (Available' \cup lost') = {}
    BY <1>1, <1>2, <2>1 DEF IInv, Conservation, new
  <2>4. Available' \cap lost' = {}
    BY <1>1, <1>2 DEF IInv, Conservation
  <2>5. \A a, c \in live' : a # c => Booked(a) \cap Booked(c) = {}
    BY <1>1, <1>2, <2>1 DEF IInv, Conservation, new
  <2> QED BY <2>2, <2>3, <2>4, <2>5 DEF Conservation, Booked
<1>6. committed' \subseteq Span(0, Total)
  <2>1. \A x \in Span(o, n) : RoundDown(x) \in Span(0, Total)
    <3> SUFFICES ASSUME NEW x \in Span(o, n) PROVE RoundDown(x) \in Span(0, Total)
      OBVIOUS
    <3>1. x \in Span(0, Total)
      BY <1>2 DEF IInv, Conservation
    <3> QED BY <3>1, RoundDownIs, SpaceAssumption DEF Span
  <2> QED BY <1>1, <2>1 DEF IInv, PagesOf
<1>7. HeldIsCommitted'
  <2>1. PagesOf(new.offset, new.size) \subseteq committed'
    BY <1>1, <1>2, PagesCovered
  <2> QED BY <1>1, <2>1 DEF IInv, HeldIsCommitted
<1>8. reply' \in Replies
  BY <1>1, CallerAssumption DEF Replies, Answer
<1> QED BY <1>2, <1>3, <1>4, <1>5, <1>6, <1>7, <1>8 DEF IInv

(* An allocate that throws keeps it: the stretch it took is lost.          *)
LEMMA AllocateThrowsStep ==
  ASSUME IInv, NEW p \in Preferred, NEW n \in Nat, Multiple(n), AllocateThrows(p, n)
  PROVE  IInv'
<1>1. PICK b, o :
        /\ b \in freeBlocks
        /\ o \in {p, b.offset}
        /\ Choice(p, n, b, o)
        /\ freeBlocks' = SplitFreeBlock(freeBlocks, b, o, n)
        /\ lost' = lost \cup Span(o, n)
        /\ reply' = Answer("thrown", p, n)
        /\ live' = live
        /\ committed' = committed
  BY DEF AllocateThrows
<1>2. /\ BlocksOK'
      /\ Available' = Available \ Span(o, n)
      /\ Span(o, n) \subseteq Available
      /\ FreeCalled => \A x \in Offsets(freeBlocks') \cup Ends(freeBlocks') : Multiple(x)
  BY <1>1, TakeStep
<1>3. LiveOK' /\ OnPages' /\ HeldIsCommitted'
  BY <1>1, <1>2 DEF IInv, LiveOK, OnPages, HeldIsCommitted
<1>4. Conservation'
  <2>1. Span(0, Total) = Available' \cup (UNION {Booked(a) : a \in live'}) \cup lost'
    BY <1>1, <1>2 DEF IInv, Conservation
  <2>2. \A a \in live' : Booked(a) \cap (Available' \cup lost') = {}
    BY <1>1, <1>2 DEF IInv, Conservation
  <2>3. Available' \cap lost' = {}
    BY <1>1, <1>2 DEF IInv, Conservation
  <2>4. \A a, c \in live' : a # c => Booked(a) \cap Booked(c) = {}
    BY <1>1 DEF IInv, Conservation
  <2> QED BY <2>1, <2>2, <2>3, <2>4 DEF Conservation
<1>5. reply' \in Replies
  BY <1>1, CallerAssumption DEF Replies, Answer
<1> QED BY <1>1, <1>2, <1>3, <1>4, <1>5 DEF IInv

(* So does a request that leaves the heap alone.                           *)
LEMMA UnchangedStep ==
  ASSUME IInv, UNCHANGED <<freeBlocks, live, lost, committed>>, reply' \in Replies
  PROVE  IInv'
BY DEF IInv, BlocksOK, LiveOK, OnPages, Conservation, Available, HeldIsCommitted, Booked

(* free keeps the invariant, and what it returns is available again.       *)
LEMMA FreeStep ==
  ASSUME IInv, NEW a \in live, Free(a)
  PROVE  IInv' /\ Available' = Available \cup Span(a.offset, a.size)
<1> DEFINE blk == Block(a.offset, a.size)
<1>1. /\ FreeCalled
      /\ committed' = committed \ PagesOf(a.offset, a.size)
      /\ freeBlocks' = MergeFreeBlocks(freeBlocks \cup {blk})
      /\ live' = live \ {a}
      /\ reply' = Answer("freed", 0, a.size)
      /\ lost' = lost
  BY DEF Free
<1>2. \A c \in live : /\ c \in Ranges
                      /\ Multiple(c.offset)
                      /\ Multiple(c.size)
                      /\ c.offset = c.booked
  BY <1>1, RoundDownMultiple DEF IInv, LiveOK, OnPages
<1>3. blk \in Blocks /\ blk.offset = a.offset /\ End(blk) = a.offset + a.size
      /\ Bytes(blk) = Booked(a)
  BY <1>2 DEF Block, Blocks, Ranges, End, Bytes, Booked
<1>4. freeBlocks \subseteq Blocks /\ Apart(freeBlocks)
  BY DEF IInv, BlocksOK
<1> HIDE DEF blk
<1>5. Clear(freeBlocks, blk)
  <2> SUFFICES ASSUME NEW b \in freeBlocks
               PROVE  End(b) <= blk.offset \/ End(blk) <= b.offset
    BY DEF Clear
  <2>1. Bytes(b) \cap Bytes(blk) = {}
    BY <1>3 DEF IInv, Conservation, Available, Covered
  <2>2. b.offset \in Nat /\ End(b) \in Nat /\ b.offset < End(b)
        /\ blk.offset \in Nat /\ End(blk) \in Nat /\ blk.offset < End(blk)
    BY <1>3, <1>4 DEF Blocks, End
  <2>3. b.offset \notin Bytes(b) \/ b.offset \notin Bytes(blk)
    BY <2>1
  <2>4. blk.offset \notin Bytes(b) \/ blk.offset \notin Bytes(blk)
    BY <2>1
  <2> QED BY <2>2, <2>3, <2>4, <1>3, <1>4, BytesOf
<1>6. /\ freeBlocks' \subseteq Blocks
      /\ Apart(freeBlocks')
      /\ Covered(freeBlocks') = Covered(freeBlocks) \cup Bytes(blk)
      /\ Offsets(freeBlocks') \subseteq Offsets(freeBlocks \cup {blk})
      /\ Ends(freeBlocks') \subseteq Ends(freeBlocks \cup {blk})
  <2> DEFINE M == MergeFreeBlocks(freeBlocks \cup {blk})
  <2>1. /\ M \subseteq Blocks
        /\ Apart(M)
        /\ Covered(M) = Covered(freeBlocks) \cup Bytes(blk)
        /\ Offsets(M) \subseteq Offsets(freeBlocks \cup {blk})
        /\ Ends(M) \subseteq Ends(freeBlocks \cup {blk})
    BY <1>3, <1>4, <1>5, MergeOne
  <2>2. freeBlocks' = M
    BY <1>1
  <2> HIDE DEF M
  <2> QED BY <2>1, <2>2
<1>7. BlocksOK'
  BY <1>6 DEF BlocksOK, Apart
<1>8. LiveOK'
  BY <1>1 DEF IInv, LiveOK
<1>9. OnPages'
  <2>1. Multiple(a.offset) /\ Multiple(a.offset + a.size)
    BY <1>2, MultipleSum
  <2>2. \A x \in Offsets(freeBlocks) \cup Ends(freeBlocks) : Multiple(x)
    BY <1>1 DEF IInv, OnPages
  <2>3. \A x \in Offsets(freeBlocks \cup {blk}) : Multiple(x)
    BY <2>1, <2>2, <1>3 DEF Offsets
  <2>4. \A x \in Ends(freeBlocks \cup {blk}) : Multiple(x)
    BY <2>1, <2>2, <1>3 DEF Ends
  <2>5. \A c \in live' : Multiple(c.booked)
    BY <1>1, <1>2
  <2> QED BY <2>3, <2>4, <2>5, <1>6 DEF OnPages
<1>10. Conservation'
  <2>1. Available' = Available \cup Booked(a)
    BY <1>3, <1>6 DEF Available
  <2>2. Span(0, Total) = Available' \cup (UNION {Booked(c) : c \in live'}) \cup lost'
    BY <1>1, <2>1 DEF IInv, Conservation
  <2>3. \A c \in live' : Booked(c) \cap (Available' \cup lost') = {}
    BY <1>1, <2>1 DEF IInv, Conservation
  <2>4. Available' \cap lost' = {}
    BY <1>1, <2>1 DEF IInv, Conservation
  <2>5. \A c, d \in live' : c # d => Booked(c) \cap Booked(d) = {}
    BY <1>1 DEF IInv, Conservation
  <2> QED BY <2>2, <2>3, <2>4, <2>5 DEF Conservation
<1>11. HeldIsCommitted'
  <2> SUFFICES ASSUME NEW c \in live, c # a
               PROVE  PagesOf(c.offset, c.size) \subseteq committed'
    BY <1>1 DEF HeldIsCommitted
  <2>1. PagesOf(c.offset, c.size) \subseteq committed
    BY DEF IInv, HeldIsCommitted
  <2>2. Span(c.offset, c.size) \cap Span(a.offset, a.size) = {}
    BY <1>2 DEF IInv, Conservation, Booked
  <2>3. PagesOf(c.offset, c.size) \subseteq Span(c.offset, c.size)
    BY <1>2, RoundDownInside DEF PagesOf, Ranges
  <2>4. PagesOf(a.offset, a.size) \subseteq Span(a.offset, a.size)
    BY <1>2, RoundDownInside DEF PagesOf, Ranges
  <2> QED BY <2>1, <2>2, <2>3, <2>4, <1>1
<1>12. committed' \subseteq Span(0, Total)
  BY <1>1 DEF IInv
<1>13. reply' \in Replies
  BY <1>1, <1>2 DEF Replies, Answer, Ranges
<1>14. Available' = Available \cup Span(a.offset, a.size)
  BY <1>2, <1>3, <1>6 DEF Available, Booked
<1>15. IInv'
  BY <1>7, <1>8, <1>9, <1>10, <1>11, <1>12, <1>13 DEF IInv
<1> QED BY <1>14, <1>15

-----------------------------------------------------------------------------

(* The constructor establishes the invariant: one block, the region.       *)
LEMMA InitIInv == Init => IInv
<1> SUFFICES ASSUME Init PROVE IInv
  OBVIOUS
<1> USE DEF Init
<1>1. BlocksOK
  BY SpaceAssumption DEF BlocksOK, Blocks, Block, Apart
<1>2. LiveOK /\ HeldIsCommitted /\ committed \subseteq Span(0, Total)
  BY DEF LiveOK, HeldIsCommitted
<1>3. OnPages
  <2>1. Offsets(freeBlocks) = {0} /\ Ends(freeBlocks) = {Total}
    <3>1. Block(0, Total).offset = 0 /\ End(Block(0, Total)) = Total
      BY SpaceAssumption DEF End, Block
    <3> QED BY <3>1 DEF Offsets, Ends
  <2> QED BY <2>1, TotalMultiple DEF OnPages
<1>4. Conservation
  <2>1. Available = Span(0, Total)
    BY DEF Available, Covered, Bytes, Block
  <2> QED BY <2>1 DEF Conservation
<1>5. reply \in Replies
  BY DEF Replies, Answer
<1> QED BY <1>1, <1>2, <1>3, <1>4, <1>5 DEF IInv

(* Every step keeps the invariant.                                         *)
LEMMA NextIInv == IInv /\ [Next]_vars => IInv'
<1> SUFFICES ASSUME IInv, [Next]_vars PROVE IInv'
  OBVIOUS
<1>1. ASSUME NEW p \in Preferred, NEW size \in Requests, Allocate(p, size)
      PROVE  IInv'
  <2> DEFINE n == AlignSize(size)
  <2>1. n \in Nat /\ Multiple(n)
    BY AlignSizeIs, CallerAssumption
  <2>2. CASE AllocateOK(p, n)
    BY <2>1, <2>2, AllocateOKStep
  <2>3. CASE AllocateThrows(p, n)
    BY <2>1, <2>3, AllocateThrowsStep
  <2>4. CASE AllocateNull(p, n)
    <3>1. reply' \in Replies
      BY <2>1, <2>4, CallerAssumption DEF AllocateNull, Replies, Answer
    <3> QED BY <2>4, <3>1, UnchangedStep DEF AllocateNull
  <2> QED BY <1>1, <2>2, <2>3, <2>4 DEF Allocate
<1>2. ASSUME NEW a \in live, Free(a)
      PROVE  IInv'
  BY <1>2, FreeStep
<1>3. ASSUME NEW a \in live, FreeThrows(a)
      PROVE  IInv'
  <2>1. reply' \in Replies
    BY <1>3 DEF FreeThrows, Replies, Answer, IInv, LiveOK, Ranges
  <2> QED BY <1>3, <2>1, UnchangedStep DEF FreeThrows
<1>4. CASE UNCHANGED vars
  BY <1>4, UnchangedStep DEF vars, IInv
<1> QED BY <1>1, <1>2, <1>3, <1>4 DEF Next

(* Whatever is allocated and freed, and whichever commits fail, the list   *)
(* and the clients' ranges keep the inductive invariant.                   *)
THEOREM Invariance == Spec => []IInv
<1>1. Init => IInv
  BY InitIInv
<1>2. IInv /\ [Next]_vars => IInv'
  BY NextIInv
<1> QED BY <1>1, <1>2, PTL DEF Spec

(* Every variable keeps its type in every run. *)
THEOREM TypeCorrect == Spec => []TypeOK
BY Invariance, IInvTypeOK, PTL

(* No two clients ever hold the same guest address. *)
THEOREM Disjointness == Spec => []NoOverlap
BY Invariance, IInvNoOverlap, PTL

(* No address of the region is ever lost track of or in two places. *)
THEOREM Conserved == Spec => []Conservation
<1>1. IInv => Conservation
  BY DEF IInv
<1> QED BY <1>1, Invariance, PTL

(* The free list is always fully coalesced. *)
THEOREM AlwaysCoalesced == Spec => []Coalesced
<1>1. IInv => Coalesced
  BY DEF IInv, BlocksOK, Coalesced
<1> QED BY <1>1, Invariance, PTL

(* What a client holds stays committed until it frees it. *)
THEOREM AlwaysCommitted == Spec => []HeldIsCommitted
<1>1. IInv => HeldIsCommitted
  BY DEF IInv
<1> QED BY <1>1, Invariance, PTL

-----------------------------------------------------------------------------
(* XAlloc implements AddressSpace: every behaviour of the allocator is one   *)
(* that its clients are promised.                                            *)
held == {[offset |-> a.offset, size |-> a.size] : a \in live}

(* Blocks that do not touch leave no stretch across two of them. *)
LEMMA InOneBlock ==
  ASSUME NEW F, F \subseteq Blocks, Apart(F), NEW o, NEW n \in Nat,
         o \in Covered(F), Span(o, n) \subseteq Covered(F)
  PROVE  o \in Nat /\ \E b \in F : b.offset <= o /\ o + n <= End(b)
<1>1. PICK b \in F : o \in Bytes(b)
  BY DEF Covered
<1>2. o \in Nat /\ b.offset <= o /\ o < End(b)
  BY <1>1, BytesOf
<1>3. b.offset \in Nat /\ End(b) \in Nat
  BY DEF Blocks, End
<1>4. CASE End(b) < o + n
  <2>1. End(b) \in Covered(F)
    BY <1>2, <1>3, <1>4 DEF Span
  <2>2. PICK c \in F : End(b) \in Bytes(c)
    BY <2>1 DEF Covered
  <2>3. c.offset <= End(b) /\ End(b) < End(c) /\ c.offset \in Nat /\ End(c) \in Nat
    BY <2>2, BytesOf DEF Blocks, End
  <2> QED BY <2>3, <1>2, <1>3 DEF Apart
<1> QED BY <1>2, <1>3, <1>4

(* What is taken fits, and the preferred stretch is taken when it fits. *)
LEMMA TakesWhatFits ==
  ASSUME IInv, NEW p \in Preferred, NEW n \in Nat, Multiple(n), n > 0,
         NEW b \in freeBlocks, NEW o \in {p, b.offset},
         Choice(p, n, b, o), freeBlocks' = SplitFreeBlock(freeBlocks, b, o, n)
  PROVE  o \in Available /\ Space!Take(p, n, o)
<1>0. o \in Nat
  BY ChoiceFits, CallerAssumption DEF IInv
<1>1. /\ Available' = Available \ Span(o, n)
      /\ Span(o, n) \subseteq Available
  BY TakeStep
<1>2. o \in Span(o, n)
  BY <1>0 DEF Span
<1>3. Space!Fits(o, n)
  BY <1>1, <1>2 DEF Space!Fits, Space!Span, Span
<1>4. ASSUME p # 0, Space!Fits(p, n)
      PROVE  o = p
  <2>1. p \in Covered(freeBlocks) /\ Span(p, n) \subseteq Covered(freeBlocks)
    BY <1>4 DEF Space!Fits, Space!Span, Span, Available
  <2>2. PICK c \in freeBlocks : c.offset <= p /\ p + n <= End(c)
    BY <2>1, InOneBlock DEF IInv, BlocksOK
  <2>3. c \in HoldsPreferred(p, n)
    BY <2>2, <1>4 DEF HoldsPreferred
  <2> QED BY <2>3 DEF Choice
<1>5. Available' = Available \ Space!Span(o, n)
  BY <1>1 DEF Space!Span, Span
<1> QED BY <1>1, <1>2, <1>3, <1>4, <1>5 DEF Space!Take

(* An allocate that succeeds is a grant of the address space.              *)
LEMMA AllocateOKGrants ==
  ASSUME IInv, NEW p \in Preferred, NEW n \in Nat, Multiple(n), AllocateOK(p, n)
  PROVE  Space!Grant(p, n)
<1>1. PICK b, o :
        /\ b \in freeBlocks
        /\ o \in {p, b.offset}
        /\ Choice(p, n, b, o)
        /\ n > 0
        /\ freeBlocks' = SplitFreeBlock(freeBlocks, b, o, n)
        /\ live' = live \cup {[offset |-> RoundDown(o), size |-> n, booked |-> o]}
        /\ reply' = Answer("ok", p, n)
  BY DEF AllocateOK
<1>2. o \in Available /\ Space!Take(p, n, o)
  BY <1>1, TakesWhatFits
<1>3. held' = held \cup {[offset |-> Space!RoundDown(o), size |-> n]}
  <2>1. RoundDown(o) = Space!RoundDown(o)
    BY DEF RoundDown, Space!RoundDown
  <2> DEFINE new == [offset |-> RoundDown(o), size |-> n, booked |-> o]
  <2>2. [offset |-> new.offset, size |-> new.size] = [offset |-> RoundDown(o), size |-> n]
    OBVIOUS
  <2>3. live' = live \cup {new}
    BY <1>1
  <2> HIDE DEF new
  <2>4. held' = held \cup {[offset |-> new.offset, size |-> new.size]}
    BY <2>3 DEF held
  <2> QED BY <2>1, <2>2, <2>4
<1>4. reply' = Space!Answer("ok", p, n)
  BY <1>1 DEF Answer, Space!Answer
<1> QED BY <1>2, <1>3, <1>4 DEF Space!Grant, held

(* One that throws loses the stretch it had taken.                         *)
LEMMA AllocateThrowsLoses ==
  ASSUME IInv, NEW p \in Preferred, NEW n \in Nat, Multiple(n), AllocateThrows(p, n)
  PROVE  Space!Lose(p, n)
<1>1. PICK b, o :
        /\ b \in freeBlocks
        /\ o \in {p, b.offset}
        /\ Choice(p, n, b, o)
        /\ freeBlocks' = SplitFreeBlock(freeBlocks, b, o, n)
        /\ reply' = Answer("thrown", p, n)
        /\ live' = live
  BY DEF AllocateThrows
<1>2. held' = held /\ reply' = Space!Answer("thrown", p, n)
  BY <1>1 DEF held, Answer, Space!Answer
<1>3. CASE n = 0
  <2>1. Available' = Available \ Span(o, n)
    BY <1>1, TakeStep
  <2>2. Span(o, n) = {}
    <3>1. o \in Nat
      BY <1>1, ChoiceFits, CallerAssumption DEF IInv
    <3> QED BY <1>3, <3>1 DEF Span
  <2> QED BY <1>2, <1>3, <2>1, <2>2 DEF Space!Lose, held
<1>4. CASE n > 0
  <2>1. o \in Available /\ Space!Take(p, n, o)
    BY <1>1, <1>4, TakesWhatFits
  <2> QED BY <1>2, <2>1 DEF Space!Lose, held
<1> QED BY <1>3, <1>4

(* One that returns null refuses rightly: free blocks are apart, so no     *)
(* stretch is longer than the longest block.                               *)
LEMMA AllocateNullRefuses ==
  ASSUME IInv, NEW p \in Preferred, NEW n \in Nat, AllocateNull(p, n)
  PROVE  Space!Refuse(p, n)
<1>1. ASSUME NEW o \in Available, Space!Fits(o, n)
      PROVE  FALSE
  <2>1. o \in Covered(freeBlocks) /\ Span(o, n) \subseteq Covered(freeBlocks)
    BY <1>1 DEF Space!Fits, Space!Span, Span, Available
  <2>2. PICK b \in freeBlocks : b.offset <= o /\ o + n <= End(b)
    BY <2>1, InOneBlock DEF IInv, BlocksOK
  <2>3. o \in Nat /\ b.offset \in Nat /\ b.size \in Nat
    BY <2>1, InOneBlock DEF IInv, BlocksOK, Blocks
  <2>4. b \in LongEnough(n)
    BY <2>2, <2>3 DEF LongEnough, End
  <2> QED BY <2>4 DEF AllocateNull
<1>2. held' = held /\ Available' = Available /\ reply' = Space!Answer("null", p, n)
  BY DEF AllocateNull, held, Available, Answer, Space!Answer
<1> QED BY <1>1, <1>2 DEF Space!Refuse, held

(* free is a release.                                                      *)
LEMMA FreeReleases ==
  ASSUME IInv, NEW a \in live, Free(a)
  PROVE  Space!Release([offset |-> a.offset, size |-> a.size])
<1> DEFINE r == [offset |-> a.offset, size |-> a.size]
<1>1. Available' = Available \cup Space!Span(a.offset, a.size)
  BY FreeStep DEF Space!Span, Span
<1>2. live' = live \ {a} /\ reply' = Space!Answer("freed", 0, a.size)
  BY DEF Free, Answer, Space!Answer
<1>3. ASSUME NEW c \in live, c # a
      PROVE  [offset |-> c.offset, size |-> c.size] # r
  <2>1. Span(c.offset, c.size) \cap Span(a.offset, a.size) = {}
    BY <1>3, IInvNoOverlap DEF NoOverlap
  <2>2. a.offset \in Nat /\ a.size \in Nat \ {0}
    BY DEF IInv, LiveOK, Ranges
  <2>3. a.offset \in Span(a.offset, a.size)
    BY <2>2 DEF Span
  <2> QED BY <2>1, <2>3
<1>4. held' = held \ {r}
  BY <1>2, <1>3 DEF held
<1> QED BY <1>1, <1>2, <1>4 DEF Space!Release, held

(* XAlloc implements AddressSpace: every run of the allocator is one its   *)
(* clients' promise allows.                                                *)
THEOREM Implementation == Spec => ImplementsAddressSpace
<1>1. Init => Space!Init
  <2>1. Init => Available = Span(0, Total)
    BY DEF Init, Available, Covered, Bytes, Block
  <2> QED BY <2>1 DEF Init, Space!Init, Space!Span, Span, Answer, Space!Answer
<1>2. IInv /\ [Next]_vars => [Space!Next]_Space!vars
  <2> SUFFICES ASSUME IInv, [Next]_vars PROVE [Space!Next]_Space!vars
    OBVIOUS
  <2>1. ASSUME NEW p \in Preferred, NEW size \in Requests, Allocate(p, size)
        PROVE  Space!Next
    <3> DEFINE n == AlignSize(size)
    <3>1. n \in Nat /\ Multiple(n)
      BY AlignSizeIs, CallerAssumption
    <3>2. n = Space!Pages(size)
      BY DEF AlignSize, Space!Pages
    <3> HIDE DEF n
    <3>3. Space!Grant(p, n) \/ Space!Lose(p, n) \/ Space!Refuse(p, n)
      <4>1. AllocateOK(p, n) \/ AllocateThrows(p, n) \/ AllocateNull(p, n)
        BY <2>1 DEF Allocate, n
      <4> QED BY <3>1, <4>1, AllocateOKGrants, AllocateThrowsLoses, AllocateNullRefuses
    <3> QED BY <3>2, <3>3 DEF Space!Next
  <2>2. ASSUME NEW a \in live, Free(a) \/ FreeThrows(a)
        PROVE  Space!Next
    <3> DEFINE r == [offset |-> a.offset, size |-> a.size]
    <3>1. r \in held
      BY DEF held
    <3>2. CASE Free(a)
      <4>1. Space!Release(r)
        BY <3>2, FreeReleases
      <4> QED BY <3>1, <4>1 DEF Space!Next, held
    <3>3. CASE FreeThrows(a)
      <4>1. Space!ReleaseFails(r)
        BY <3>3 DEF FreeThrows, Space!ReleaseFails, Space!Answer, Answer, Available
      <4> QED BY <3>1, <4>1 DEF Space!Next, held
    <3> QED BY <2>2, <3>2, <3>3
  <2>3. CASE UNCHANGED vars
    BY <2>3 DEF vars, Space!vars, Available
  <2> QED BY <2>1, <2>2, <2>3 DEF Next
<1>3. ImplementsAddressSpace <=> Space!Init /\ [][Space!Next]_Space!vars
  BY DEF ImplementsAddressSpace, Space!Spec
<1> QED BY <1>1, <1>2, <1>3, Invariance, PTL DEF Spec
-----------------------------------------------------------------------------
(***************************************************************************)
(* XAllocVec: the vector of free blocks.  It is sorted and its blocks are  *)
(* apart between any two operations, and each operation does to the set of *)
(* its blocks what XAlloc says.                                            *)
(***************************************************************************)
Vec == INSTANCE XAllocVec

(* Sorting: std::sort returns the blocks it was given, in a row.           *)

(* A permutation of 1 .. n that puts keys in order. *)
Orders(p, k, n) ==
  /\ p \in [1 .. n -> 1 .. n]
  /\ \A i, j \in 1 .. n : i < j => p[i] # p[j] /\ k[p[i]] <= k[p[j]]
  /\ \A m \in 1 .. n : \E i \in 1 .. n : p[i] = m

(* One of the keys is the greatest. *)
LEMMA Greatest ==
  ASSUME NEW n \in Nat \ {0}, NEW k \in [1 .. n -> Nat]
  PROVE  \E m \in 1 .. n : \A i \in 1 .. n : k[i] <= k[m]
<1> DEFINE T == {l \in Nat : l + 1 <= n => \E m \in 1 .. l + 1 : \A i \in 1 .. l + 1 : k[i] <= k[m]}
<1>1. 0 \in T
  <2>1. \A i \in 1 .. 0 + 1 : i = 1 /\ k[1] <= k[1]
    OBVIOUS
  <2> QED BY <2>1
<1>2. ASSUME NEW l \in Nat, l \in T PROVE l + 1 \in T
  <2> SUFFICES ASSUME (l + 1) + 1 <= n
               PROVE  \E m \in 1 .. (l + 1) + 1 : \A i \in 1 .. (l + 1) + 1 : k[i] <= k[m]
    OBVIOUS
  <2>1. PICK m \in 1 .. l + 1 : \A i \in 1 .. l + 1 : k[i] <= k[m]
    BY <1>2
  <2> DEFINE e == (l + 1) + 1
  <2>2. /\ e \in 1 .. n /\ m \in 1 .. n /\ m \in 1 .. e /\ e \in 1 .. e
        /\ \A i \in 1 .. e : i \in 1 .. n /\ (i = e \/ i \in 1 .. l + 1)
    OBVIOUS
  <2> HIDE DEF e
  <2>3. \A i \in 1 .. e : k[i] \in Nat
    BY <2>2
  <2>4. CASE k[m] <= k[e]
    <3>1. \A i \in 1 .. e : k[i] <= k[e]
      BY <2>1, <2>2, <2>3, <2>4
    <3> QED BY <2>2, <3>1 DEF e
  <2>5. CASE k[e] <= k[m]
    <3>1. \A i \in 1 .. e : k[i] <= k[m]
      BY <2>1, <2>2, <2>5
    <3> QED BY <2>2, <3>1 DEF e
  <2> QED BY <2>2, <2>3, <2>4, <2>5
<1>3. Nat \subseteq T
  <2> HIDE DEF T
  <2> QED BY <1>1, <1>2, Induction
<1>4. n - 1 \in Nat /\ (n - 1) + 1 = n
  OBVIOUS
<1>5. n - 1 \in T
  <2> HIDE DEF T
  <2> QED BY <1>3, <1>4
<1> QED BY <1>4, <1>5

(* Any keys can be put in order. *)
LEMMA OrderExists ==
  ASSUME NEW n \in Nat, NEW k \in [1 .. n -> Nat]
  PROVE  \E p : Orders(p, k, n)
<1> DEFINE T == {l \in Nat : \A f \in [1 .. l -> Nat] : \E p : Orders(p, f, l)}
<1>1. 0 \in T
  <2> SUFFICES ASSUME NEW f \in [1 .. 0 -> Nat] PROVE \E p : Orders(p, f, 0)
    OBVIOUS
  <2>1. Orders([i \in 1 .. 0 |-> i], f, 0)
    BY DEF Orders
  <2> QED BY <2>1
<1>2. ASSUME NEW l \in Nat, l \in T PROVE l + 1 \in T
  <2> SUFFICES ASSUME NEW f \in [1 .. l + 1 -> Nat] PROVE \E p : Orders(p, f, l + 1)
    OBVIOUS
  <2> DEFINE e == l + 1
  <2>0. /\ e \in Nat \ {0} /\ e \in 1 .. e /\ e \notin 1 .. l
        /\ \A i : i \in 1 .. e <=> i = e \/ i \in 1 .. l
        /\ \A i \in 1 .. l : i < e
        /\ \A i, j \in 1 .. e : i < j => i \in 1 .. l
    OBVIOUS
  <2> HIDE DEF e
  <2>1. PICK m \in 1 .. e : \A i \in 1 .. e : f[i] <= f[m]
    BY <2>0, Greatest DEF e
  <2> DEFINE g == [i \in 1 .. l |-> IF i = m THEN f[e] ELSE f[i]]
  <2>2. g \in [1 .. l -> Nat]
    BY <2>0 DEF e
  <2>3. PICK q : Orders(q, g, l)
    BY <1>2, <2>2
  <2> DEFINE r(i) == IF q[i] = m THEN e ELSE q[i]
             p == [i \in 1 .. e |-> IF i = e THEN m ELSE r(i)]
  <2>4. \A i \in 1 .. l : /\ q[i] \in 1 .. l /\ r(i) \in 1 .. e /\ r(i) # m
                          /\ f[r(i)] = g[q[i]] /\ p[i] = r(i)
    BY <2>0, <2>3 DEF Orders
  <2>5. p[e] = m
    BY <2>0
  <2>6. \A i, j \in 1 .. l : i < j => r(i) # r(j)
    BY <2>0, <2>3 DEF Orders
  <2>7. \A i, j \in 1 .. l : i < j => f[r(i)] <= f[r(j)]
    BY <2>3, <2>4 DEF Orders
  <2>8. p \in [1 .. e -> 1 .. e]
    BY <2>0, <2>4
  <2>9. \A i, j \in 1 .. e : i < j => p[i] # p[j] /\ f[p[i]] <= f[p[j]]
    <3> SUFFICES ASSUME NEW i \in 1 .. e, NEW j \in 1 .. e, i < j
                 PROVE  p[i] # p[j] /\ f[p[i]] <= f[p[j]]
      OBVIOUS
    <3> HIDE DEF r, p, g
    <3>1. i \in 1 .. l
      BY <2>0
    <3>2. CASE j = e
      BY <2>1, <2>4, <2>5, <3>1, <3>2
    <3>3. CASE j \in 1 .. l
      BY <2>4, <2>6, <2>7, <3>1, <3>3
    <3> QED BY <2>0, <3>2, <3>3
  <2>10. \A t \in 1 .. e : \E i \in 1 .. e : p[i] = t
    <3> SUFFICES ASSUME NEW t \in 1 .. e PROVE \E i \in 1 .. e : p[i] = t
      OBVIOUS
    <3>1. CASE t = m
      BY <2>0, <2>5, <3>1
    <3>2. CASE t # m /\ t \in 1 .. l
      <4>1. PICK i \in 1 .. l : q[i] = t
        BY <2>3, <3>2 DEF Orders
      <4>2. p[i] = t /\ i \in 1 .. e
        BY <2>0, <2>4, <3>2, <4>1
      <4> QED BY <4>2
    <3>3. CASE t # m /\ t = e
      <4>1. m \in 1 .. l
        BY <2>0, <3>3
      <4>2. PICK i \in 1 .. l : q[i] = m
        BY <2>3, <4>1 DEF Orders
      <4>3. p[i] = e /\ i \in 1 .. e
        BY <2>0, <2>4, <4>2
      <4> QED BY <3>3, <4>3
    <3> QED BY <2>0, <3>1, <3>2, <3>3
  <2>11. Orders(p, f, e)
    <3> HIDE DEF p
    <3> QED BY <2>8, <2>9, <2>10 DEF Orders
  <2> QED BY <2>11 DEF e
<1>3. Nat \subseteq T
  <2> HIDE DEF T
  <2> QED BY <1>1, <1>2, Induction
<1> QED BY <1>3

(* Blocks of which no two meet. *)
Separate(F) ==
  \A i, j \in DOMAIN F : i # j => End(F[i]) <= F[j].offset \/ End(F[j]) <= F[i].offset

InRow(F) == \A i, j \in DOMAIN F : i < j => End(F[i]) <= F[j].offset

(* Sorting by offset puts them in a row. *)
LEMMA SortIs ==
  ASSUME NEW F \in Seq(Blocks), Separate(F)
  PROVE  LET G == Vec!ByOffset(F)
         IN G \in Seq(Blocks) /\ Len(G) = Len(F) /\ ToSet(G) = ToSet(F) /\ InRow(G)
<1> DEFINE n == Len(F)
           D == DOMAIN F
           Good(p) == p \in Vec!Bijection(D, D) /\ Vec!Sorts(p, F)
           p0 == CHOOSE p \in Vec!Bijection(D, D) : Vec!Sorts(p, F)
           G == [i \in D |-> F[p0[i]]]
<1>1. n \in Nat /\ D = 1 .. n /\ \A i \in D : F[i] \in Blocks
  OBVIOUS
<1>2. \A b \in Blocks : b.offset \in Nat /\ b.size \in Nat \ {0} /\ End(b) \in Nat /\ b.offset < End(b)
  BY DEF Blocks, End
<1>3. \E p : Good(p)
  <2> DEFINE k == [i \in 1 .. n |-> F[i].offset]
  <2>1. k \in [1 .. n -> Nat]
    BY <1>1, <1>2
  <2>2. PICK p : Orders(p, k, n)
    BY <1>1, <2>1, OrderExists
  <2>3. p \in [D -> D] /\ \A i \in D : k[p[i]] = F[p[i]].offset
    BY <1>1, <2>2 DEF Orders
  <2>4. Vec!Sorts(p, F)
    BY <1>1, <2>2, <2>3 DEF Orders, Vec!Sorts
  <2>5. \A i, j \in D : p[i] = p[j] => i = j
    <3> SUFFICES ASSUME NEW i \in D, NEW j \in D, i # j PROVE p[i] # p[j]
      OBVIOUS
    <3>1. i \in 1 .. n /\ j \in 1 .. n /\ (i < j \/ j < i)
      BY <1>1
    <3> QED BY <2>2, <3>1 DEF Orders
  <2>6. p \in Vec!Bijection(D, D)
    BY <1>1, <2>2, <2>3, <2>5 DEF Orders, Vec!Bijection, Vec!Injection, Vec!Surjection, Vec!IsInjective
  <2> QED BY <2>4, <2>6
<1>4. Good(p0)
  BY <1>3
<1>5. /\ p0 \in [D -> D]
      /\ \A i, j \in D : p0[i] = p0[j] => i = j
      /\ \A t \in D : \E i \in D : p0[i] = t
      /\ \A i, j \in D : i < j => F[p0[i]].offset <= F[p0[j]].offset
  BY <1>4 DEF Vec!Bijection, Vec!Injection, Vec!Surjection, Vec!IsInjective, Vec!Sorts
<1> HIDE DEF p0
<1>6. G \in Seq(Blocks) /\ Len(G) = n /\ DOMAIN G = D
  <2>1. G \in [1 .. n -> Blocks]
    BY <1>1, <1>5
  <2> QED BY <1>1, <2>1
<1>7. ToSet(G) = ToSet(F)
  BY <1>5, <1>6 DEF ToSet
<1>8. InRow(G)
  <2> SUFFICES ASSUME NEW i \in D, NEW j \in D, i < j PROVE End(G[i]) <= G[j].offset
    BY <1>6 DEF InRow
  <2>1. p0[i] # p0[j] /\ p0[i] \in D /\ p0[j] \in D
    BY <1>1, <1>5
  <2>2. End(F[p0[i]]) <= F[p0[j]].offset \/ End(F[p0[j]]) <= F[p0[i]].offset
    BY <2>1 DEF Separate
  <2>3. F[p0[i]].offset <= F[p0[j]].offset
    BY <1>5
  <2> QED BY <1>1, <1>2, <2>1, <2>2, <2>3
<1>9. Vec!ByOffset(F) = G
  BY DEF Vec!ByOffset, p0
<1> QED BY <1>6, <1>7, <1>8, <1>9

-----------------------------------------------------------------------------
(* Gluing: the pass that fills the vector merged.                          *)

(* A vector whose blocks rise and do not touch. *)
Rising(M) == \A i, j \in DOMAIN M : i < j => End(M[i]) < M[j].offset

(* What the pass of mergeFreeBlocks has made of blocks that begin at the   *)
(* offsets O and end at E, all of them so far.                             *)
GluedFrom(M, O, E) ==
  /\ M \in Seq(Blocks)
  /\ Rising(M)
  /\ Offsets(ToSet(M)) = O \ E
  /\ Ends(ToSet(M)) = E \ O
  /\ M = <<>> => O = {} /\ E = {}
  /\ M # <<>> => End(Last(M)) \in E /\ \A x \in O \cup E : x <= End(Last(M))

(* A block begins before it ends. *)
LEMMA BlockIs ==
  \A b \in Blocks : b.offset \in Nat /\ b.size \in Nat \ {0} /\ End(b) \in Nat /\ b.offset < End(b)
BY DEF Blocks, End

(* Where the blocks of a vector begin and end. *)
LEMMA OfToSet ==
  ASSUME NEW M \in Seq(Blocks)
  PROVE  /\ \A x : x \in Offsets(ToSet(M)) <=> \E i \in 1 .. Len(M) : x = M[i].offset
         /\ \A x : x \in Ends(ToSet(M)) <=> \E i \in 1 .. Len(M) : x = End(M[i])
<1>1. DOMAIN M = 1 .. Len(M)
  OBVIOUS
<1> QED BY <1>1 DEF Offsets, Ends, ToSet

(* A block that touches the last of the vector is glued to it. *)
LEMMA GlueTouching ==
  ASSUME NEW M \in Seq(Blocks), M # <<>>, NEW b \in Blocks, End(Last(M)) = b.offset
  PROVE  LET N == Vec!Glue(M, b)
         IN /\ N \in Seq(Blocks) /\ Len(N) = Len(M)
            /\ \A i \in 1 .. Len(M) : N[i].offset = M[i].offset
            /\ \A i \in 1 .. Len(M) : i # Len(M) => End(N[i]) = End(M[i])
            /\ End(N[Len(M)]) = End(b)
<1> DEFINE n == Len(M)
           new == [M[n] EXCEPT !.size = M[n].size + b.size]
           N == [M EXCEPT ![n] = new]
<1>1. n \in Nat /\ n \in 1 .. n /\ DOMAIN M = 1 .. n /\ \A i \in 1 .. n : M[i] \in Blocks
  OBVIOUS
<1>2. new \in Blocks /\ new.offset = M[n].offset /\ new.size = M[n].size + b.size
  <2>1. PICK o \in Nat, s \in Nat \ {0} : M[n] = [offset |-> o, size |-> s]
    BY <1>1 DEF Blocks
  <2>2. b.size \in Nat
    BY BlockIs
  <2>3. new = [offset |-> o, size |-> s + b.size]
    BY <2>1
  <2>4. s + b.size \in Nat \ {0}
    BY <2>2
  <2> HIDE DEF new
  <2> QED BY <2>1, <2>3, <2>4 DEF Blocks
<1>3. End(new) = End(b)
  <2>1. M[n].offset + M[n].size = b.offset /\ M[n].offset \in Nat /\ M[n].size \in Nat /\ b.size \in Nat
    BY <1>1, BlockIs DEF Last, End
  <2>2. End(new) = M[n].offset + (M[n].size + b.size)
    BY <1>2 DEF End
  <2>3. End(b) = b.offset + b.size
    BY DEF End
  <2> HIDE DEF n, new
  <2> QED BY <2>1, <2>2, <2>3
<1>4. Vec!Glue(M, b) = N
  BY DEF Vec!Glue, Vec!A!End, End, Vec!Last, Last
<1>5. N \in Seq(Blocks) /\ Len(N) = n
  BY <1>1, <1>2
<1>6. \A i \in 1 .. n : N[i] = IF i = n THEN new ELSE M[i]
  BY <1>1
<1> HIDE DEF new, N
<1> QED BY <1>1, <1>2, <1>3, <1>4, <1>5, <1>6

(* Any other is a new one at the back. *)
LEMMA GlueClear ==
  ASSUME NEW M \in Seq(Blocks), NEW b \in Blocks, M = <<>> \/ End(Last(M)) # b.offset
  PROVE  LET N == Vec!Glue(M, b)
         IN /\ N \in Seq(Blocks) /\ Len(N) = Len(M) + 1
            /\ \A i \in 1 .. Len(M) : N[i] = M[i]
            /\ N[Len(M) + 1] = b
<1>1. Vec!Glue(M, b) = Append(M, b)
  BY DEF Vec!Glue, Vec!A!End, End, Vec!Last, Last
<1> QED BY <1>1

(* One block further, behind all that was glued. *)
LEMMA GlueStep ==
  ASSUME NEW M, NEW O \in SUBSET Nat, NEW E \in SUBSET Nat, GluedFrom(M, O, E), NEW b \in Blocks,
         \A x \in E : x <= b.offset, \A x \in O : x < b.offset
  PROVE  GluedFrom(Vec!Glue(M, b), O \cup {b.offset}, E \cup {End(b)})
<1> DEFINE n == Len(M)
           N == Vec!Glue(M, b)
           P == O \cup {b.offset}
           Q == E \cup {End(b)}
<1>1. M \in Seq(Blocks) /\ n \in Nat /\ \A i \in 1 .. n : M[i] \in Blocks
  BY DEF GluedFrom
<1>2. b.offset \in Nat /\ End(b) \in Nat /\ b.offset < End(b)
  BY BlockIs
<1>3. /\ \A i \in 1 .. n : M[i].offset \in Nat /\ End(M[i]) \in Nat /\ M[i].offset < End(M[i])
  BY <1>1, BlockIs
<1>4. \A i, j \in 1 .. n : i < j => End(M[i]) < M[j].offset
  BY <1>1 DEF GluedFrom, Rising
<1>5. /\ \A x : x \in O \ E <=> \E i \in 1 .. n : x = M[i].offset
      /\ \A x : x \in E \ O <=> \E i \in 1 .. n : x = End(M[i])
  BY <1>1, OfToSet DEF GluedFrom
<1>6. CASE M # <<>> /\ End(Last(M)) = b.offset
  <2>1. n \in 1 .. n /\ End(M[n]) = b.offset /\ b.offset \in E
    BY <1>1, <1>6 DEF Last, GluedFrom
  <2>2. /\ N \in Seq(Blocks) /\ Len(N) = n
        /\ \A i \in 1 .. n : N[i].offset = M[i].offset
        /\ \A i \in 1 .. n : i # n => End(N[i]) = End(M[i])
        /\ End(N[n]) = End(b)
    BY <1>1, <1>6, GlueTouching
  <2> HIDE DEF n, N
  <2>3. Rising(N)
    <3>1. DOMAIN N = 1 .. n
      BY <2>2
    <3> SUFFICES ASSUME NEW i \in 1 .. n, NEW j \in 1 .. n, i < j PROVE End(N[i]) < N[j].offset
      BY <3>1 DEF Rising
    <3>2. i # n
      BY <1>1
    <3> QED BY <3>2, <2>2, <1>4
  <2>4. P \ Q = O \ E
    BY <1>2, <2>1
  <2>5. Offsets(ToSet(N)) = P \ Q
    <3>1. \A x : x \in Offsets(ToSet(N)) <=> \E i \in 1 .. n : x = M[i].offset
      BY <2>2, OfToSet
    <3> QED BY <3>1, <1>5, <2>4
  <2>6. Ends(ToSet(N)) = Q \ P
    <3>1. \A x : x \in Ends(ToSet(N)) <=> \E i \in 1 .. n : x = End(N[i])
      BY <2>2, OfToSet
    <3>2. \A i \in 1 .. n : i # n => End(M[i]) # b.offset
      <4>1. \A i \in 1 .. n : i # n => i < n
        BY <1>1
      <4> QED BY <1>2, <1>3, <1>4, <2>1, <4>1
    <3>3. End(b) \notin O /\ End(b) \notin E
      BY <1>2
    <3>4. ASSUME NEW x \in Ends(ToSet(N)) PROVE x \in Q \ P
      <4>1. PICK i \in 1 .. n : x = End(N[i])
        BY <3>1
      <4>2. CASE i = n
        BY <4>1, <4>2, <2>2, <3>3, <1>2
      <4>3. CASE i # n
        <5>1. x = End(M[i])
          BY <4>1, <4>3, <2>2
        <5> QED BY <5>1, <1>5, <3>2, <4>3
      <4> QED BY <4>2, <4>3
    <3>5. ASSUME NEW x \in Q \ P PROVE x \in Ends(ToSet(N))
      <4>1. CASE x = End(b)
        BY <4>1, <2>1, <2>2, <3>1
      <4>2. CASE x # End(b)
        <5>1. x \in E \ O
          BY <4>2
        <5>2. PICK i \in 1 .. n : x = End(M[i])
          BY <5>1, <1>5
        <5>3. i # n
          BY <5>2, <2>1
        <5> QED BY <5>2, <5>3, <2>2, <3>1
      <4> QED BY <4>1, <4>2
    <3> QED BY <3>4, <3>5
  <2>7. N # <<>> /\ Last(N) = N[n]
    BY <2>1, <2>2 DEF Last
  <2>8. \A x \in P \cup Q : x <= End(b)
    BY <1>2
  <2> QED BY <2>2, <2>3, <2>5, <2>6, <2>7, <2>8 DEF GluedFrom, N
<1>7. CASE M = <<>> \/ End(Last(M)) # b.offset
  <2>1. /\ N \in Seq(Blocks) /\ Len(N) = n + 1
        /\ \A i \in 1 .. n : N[i] = M[i]
        /\ N[n + 1] = b
    BY <1>1, <1>7, GlueClear
  <2>2. \A x \in E : x < b.offset
    <3>1. CASE M = <<>>
      BY <3>1 DEF GluedFrom
    <3>2. CASE M # <<>>
      <4>1. End(Last(M)) \in E /\ \A x \in E : x <= End(Last(M))
        BY <3>2 DEF GluedFrom
      <4> DEFINE e == End(Last(M))
      <4>2. e \in E /\ e # b.offset /\ \A x \in E : x <= e
        BY <4>1, <3>2, <1>7
      <4> HIDE DEF e
      <4>3. e \in Nat /\ e <= b.offset /\ \A x \in E : x \in Nat
        BY <4>2
      <4> QED BY <4>2, <4>3, <1>2
    <3> QED BY <3>1, <3>2
  <2> HIDE DEF n, N
  <2>3. /\ \A i : i \in 1 .. n + 1 <=> i = n + 1 \/ i \in 1 .. n
        /\ n + 1 \in 1 .. n + 1
        /\ \A i \in 1 .. n : i # n + 1
    BY <1>1
  <2>4. Rising(N)
    <3>1. DOMAIN N = 1 .. n + 1
      BY <2>1
    <3> SUFFICES ASSUME NEW i \in 1 .. n + 1, NEW j \in 1 .. n + 1, i < j PROVE End(N[i]) < N[j].offset
      BY <3>1 DEF Rising
    <3>2. i \in 1 .. n
      BY <1>1
    <3>3. CASE j \in 1 .. n
      BY <3>2, <3>3, <2>1, <1>4
    <3>4. CASE j = n + 1
      <4>1. End(M[i]) \in E
        BY <3>2, <1>5
      <4> QED BY <4>1, <3>2, <3>4, <2>1, <2>2
    <3> QED BY <3>3, <3>4, <2>3
  <2>5. /\ P \ Q = (O \ E) \cup {b.offset}
        /\ Q \ P = (E \ O) \cup {End(b)}
    BY <1>2, <2>2
  <2>6. Offsets(ToSet(N)) = P \ Q
    <3>1. \A x : x \in Offsets(ToSet(N)) <=> \E i \in 1 .. n + 1 : x = N[i].offset
      BY <2>1, OfToSet
    <3>2. \A x : x \in Offsets(ToSet(N)) <=> x = b.offset \/ \E i \in 1 .. n : x = M[i].offset
      BY <3>1, <2>1, <2>3
    <3> QED BY <3>2, <1>5, <2>5
  <2>7. Ends(ToSet(N)) = Q \ P
    <3>1. \A x : x \in Ends(ToSet(N)) <=> \E i \in 1 .. n + 1 : x = End(N[i])
      BY <2>1, OfToSet
    <3>2. \A x : x \in Ends(ToSet(N)) <=> x = End(b) \/ \E i \in 1 .. n : x = End(M[i])
      BY <3>1, <2>1, <2>3
    <3> QED BY <3>2, <1>5, <2>5
  <2>8. N # <<>> /\ Last(N) = b
    BY <1>1, <2>1 DEF Last
  <2>9. \A x \in P \cup Q : x <= End(b)
    BY <1>2
  <2> QED BY <2>1, <2>4, <2>6, <2>7, <2>8, <2>9 DEF GluedFrom, N
<1> QED BY <1>6, <1>7

(* The pass glues one block after the other. *)
LEMMA GluesInTurn ==
  ASSUME NEW F \in Seq(Blocks), NEW G \in Seq(Blocks), G = Vec!ByOffset(F)
  PROVE  \E g : /\ g[0] = <<>>
                /\ g[Len(G)] = Vec!MergeFreeBlocks(F)
                /\ \A k \in 1 .. Len(G) : g[k] = Vec!Glue(g[k - 1], G[k])
<1> DEFINE n == Len(G)
           V == Seq(Blocks)
           h == [p \in V \X (1 .. n) |-> Vec!Glue(p[1], G[p[2]])]
           E(g) == g = [t \in SUBSET (1 .. n) |->
                          IF t = {} THEN <<>> ELSE Vec!Glue(g[t \ {Max(t)}], G[Max(t)])]
           f == CHOOSE g : E(g)
<1>1. n \in Nat /\ DOMAIN G = 1 .. n /\ \A i \in 1 .. n : G[i] \in Blocks
  OBVIOUS
<1>2. ASSUME NEW v \in V, NEW k \in 1 .. n PROVE Vec!Glue(v, G[k]) \in V
  <2>1. G[k] \in Blocks
    BY <1>1
  <2>2. CASE v # <<>> /\ End(Last(v)) = G[k].offset
    BY <2>1, <2>2, GlueTouching
  <2>3. CASE v = <<>> \/ End(Last(v)) # G[k].offset
    BY <2>1, <2>3, GlueClear
  <2> QED BY <2>2, <2>3
<1>3. \A v \in V, k \in 1 .. n : h[<<v, k>>] = Vec!Glue(v, G[k]) /\ h[<<v, k>>] \in V
  BY <1>2
<1>4. <<>> \in V
  OBVIOUS
<1> HIDE DEF V, h
<1>5. FoldDefined(n, V, <<>>, h)
  BY <1>1, <1>3, <1>4, FoldExists
<1>6. \E g : E(g)
  <2>1. PICK g \in [SUBSET (1 .. n) -> V] :
               g = [t \in SUBSET (1 .. n) |->
                      IF t = {} THEN <<>> ELSE h[<<g[t \ {Max(t)}], Max(t)>>]]
    BY <1>5 DEF FoldDefined, FoldEquation
  <2>2. ASSUME NEW t \in SUBSET (1 .. n), t # {}
        PROVE  h[<<g[t \ {Max(t)}], Max(t)>>] = Vec!Glue(g[t \ {Max(t)}], G[Max(t)])
    <3>1. Max(t) \in 1 .. n
      BY <1>1, <2>2, MaxOfSome
    <3>2. g[t \ {Max(t)}] \in V
      OBVIOUS
    <3> QED BY <3>1, <3>2, <1>3
  <2>3. E(g)
    BY <2>1, <2>2
  <2> QED BY <2>3
<1>7. E(f)
  BY <1>6
<1>8. Vec!MergeFreeBlocks(F) = f[1 .. n]
  BY <1>1 DEF Vec!MergeFreeBlocks, Vec!FoldLeft, Vec!MapThenFoldSet, Vec!Max, Max
<1> HIDE DEF f
<1>9. FoldsWith(f, n, V, <<>>, h)
  <2>1. f[{}] = <<>>
    BY <1>7
  <2>2. ASSUME NEW t \in SUBSET (1 .. n), t # {}, f[t \ {Max(t)}] \in V
        PROVE  f[t] = h[<<f[t \ {Max(t)}], Max(t)>>]
    <3>1. Max(t) \in 1 .. n
      BY <1>1, <2>2, MaxOfSome
    <3>2. f[t] = Vec!Glue(f[t \ {Max(t)}], G[Max(t)])
      BY <1>7, <2>2
    <3> QED BY <3>1, <3>2, <2>2, <1>3
  <2> QED BY <1>1, <1>3, <1>4, <2>1, <2>2 DEF FoldsWith
<1>10. PICK g : InTurnBy(g, n, V, <<>>, h) /\ g[n] = f[1 .. n]
  BY <1>9, FoldInTurn
<1>11. \A k \in 1 .. n : g[k] = Vec!Glue(g[k - 1], G[k])
  BY <1>3, <1>10 DEF InTurnBy
<1> QED BY <1>8, <1>10, <1>11 DEF InTurnBy

(* What a merge returns: the same runs as XAlloc's, from front to back. *)
LEMMA VectorMerge ==
  ASSUME NEW F \in Seq(Blocks), Separate(F)
  PROVE  LET M == Vec!MergeFreeBlocks(F)
         IN /\ M \in Seq(Blocks)
            /\ Rising(M)
            /\ ToSet(M) = MergeFreeBlocks(ToSet(F))
<1> DEFINE G == Vec!ByOffset(F)
           n == Len(G)
           M == Vec!MergeFreeBlocks(F)
           O(k) == {G[i].offset : i \in 1 .. k}
           E(k) == {End(G[i]) : i \in 1 .. k}
<1>1. G \in Seq(Blocks) /\ ToSet(G) = ToSet(F) /\ InRow(G)
  BY SortIs
<1>2. PICK g : /\ g[0] = <<>>
               /\ g[n] = M
               /\ \A k \in 1 .. n : g[k] = Vec!Glue(g[k - 1], G[k])
  BY <1>1, GluesInTurn
<1> HIDE DEF G, M
<1>3. n \in Nat /\ DOMAIN G = 1 .. n /\ \A i \in 1 .. n : G[i] \in Blocks
  BY <1>1
<1>4. \A i \in 1 .. n : G[i].offset \in Nat /\ End(G[i]) \in Nat /\ G[i].offset < End(G[i])
  BY <1>3, BlockIs
<1>5. \A i, j \in 1 .. n : i < j => End(G[i]) <= G[j].offset
  BY <1>1, <1>3 DEF InRow
<1> HIDE DEF n
<1> DEFINE T == {k \in Nat : k <= n => GluedFrom(g[k], O(k), E(k))}
<1>6. 0 \in T
  <2>1. 1 .. 0 = {}
    OBVIOUS
  <2>2. O(0) = {} /\ E(0) = {}
    BY <2>1
  <2>3. Offsets(ToSet(<<>>)) = {} /\ Ends(ToSet(<<>>)) = {}
    BY DEF Offsets, Ends, ToSet
  <2>4. <<>> \in Seq(Blocks) /\ Rising(<<>>)
    BY DEF Rising
  <2>5. GluedFrom(<<>>, {}, {})
    BY <2>3, <2>4 DEF GluedFrom
  <2>6. GluedFrom(g[0], O(0), E(0))
    <3> HIDE DEF O, E
    <3> QED BY <1>2, <2>2, <2>5
  <2> QED BY <2>6
<1>7. ASSUME NEW k \in Nat, k \in T PROVE k + 1 \in T
  <2> SUFFICES ASSUME k + 1 <= n PROVE GluedFrom(g[k + 1], O(k + 1), E(k + 1))
    OBVIOUS
  <2>1. GluedFrom(g[k], O(k), E(k))
    BY <1>3, <1>7
  <2>2. /\ k + 1 \in 1 .. n /\ (k + 1) - 1 = k
        /\ \A i \in 1 .. k : i \in 1 .. n /\ i < k + 1
        /\ \A i : i \in 1 .. k + 1 <=> i = k + 1 \/ i \in 1 .. k
    BY <1>3
  <2>3. g[k + 1] = Vec!Glue(g[k], G[k + 1]) /\ G[k + 1] \in Blocks
    BY <1>2, <1>3, <2>2
  <2>4. O(k + 1) = O(k) \cup {G[k + 1].offset} /\ E(k + 1) = E(k) \cup {End(G[k + 1])}
    BY <2>2
  <2>5. /\ \A x \in E(k) : x \in Nat /\ x <= G[k + 1].offset
        /\ \A x \in O(k) : x \in Nat /\ x < G[k + 1].offset
    <3>1. ASSUME NEW i \in 1 .. k
          PROVE  /\ End(G[i]) \in Nat /\ End(G[i]) <= G[k + 1].offset
                 /\ G[i].offset \in Nat /\ G[i].offset < G[k + 1].offset
      <4>1. i \in 1 .. n /\ i < k + 1
        BY <2>2
      <4>2. End(G[i]) <= G[k + 1].offset
        BY <4>1, <2>2, <1>5
      <4>3. G[i].offset \in Nat /\ End(G[i]) \in Nat /\ G[i].offset < End(G[i]) /\ G[k + 1].offset \in Nat
        BY <4>1, <2>2, <1>4
      <4> QED BY <4>2, <4>3
    <3> QED BY <3>1
  <2>6. O(k) \in SUBSET Nat /\ E(k) \in SUBSET Nat
    BY <2>5
  <2> DEFINE Ok == O(k)
             Ek == E(k)
  <2>7. GluedFrom(Vec!Glue(g[k], G[k + 1]), Ok \cup {G[k + 1].offset}, Ek \cup {End(G[k + 1])})
    <3>1. /\ GluedFrom(g[k], Ok, Ek) /\ Ok \in SUBSET Nat /\ Ek \in SUBSET Nat
          /\ \A x \in Ek : x <= G[k + 1].offset
          /\ \A x \in Ok : x < G[k + 1].offset
      BY <2>1, <2>5, <2>6
    <3> HIDE DEF Ok, Ek
    <3> QED BY <3>1, <2>3, GlueStep
  <2> QED BY <2>3, <2>4, <2>7
<1>8. GluedFrom(M, O(n), E(n))
  <2>1. n \in T
    <3> HIDE DEF T
    <3>1. Nat \subseteq T
      BY <1>6, <1>7, Induction
    <3> QED BY <1>3, <3>1
  <2>2. GluedFrom(g[n], O(n), E(n))
    BY <2>1, <1>3
  <2> QED BY <2>2, <1>2
<1>9. Offsets(ToSet(F)) = O(n) /\ Ends(ToSet(F)) = E(n)
  <2>1. n = Len(G)
    BY DEF n
  <2>2. /\ \A x : x \in Offsets(ToSet(G)) <=> \E i \in 1 .. n : x = G[i].offset
        /\ \A x : x \in Ends(ToSet(G)) <=> \E i \in 1 .. n : x = End(G[i])
    BY <1>1, <2>1, OfToSet
  <2>3. Offsets(ToSet(G)) = O(n) /\ Ends(ToSet(G)) = E(n)
    BY <2>2
  <2> QED BY <2>3, <1>1
<1>10. M \in Seq(Blocks) /\ Rising(M)
  BY <1>8 DEF GluedFrom
<1>11. ToSet(M) \subseteq Blocks /\ Apart(ToSet(M))
  <2>1. \A i \in DOMAIN M : M[i] \in Blocks /\ i \in Nat
    BY <1>10
  <2>2. \A i, j \in DOMAIN M : i = j \/ i < j \/ j < i
    BY <2>1
  <2> QED BY <1>10, <2>1, <2>2 DEF ToSet, Rising, Apart
<1>12. MergeFreeBlocks(ToSet(M)) = ToSet(M)
  BY <1>11, MergeApart
<1>13. MergeFreeBlocks(ToSet(M)) = MergeFreeBlocks(ToSet(F))
  <2> DEFINE OM == Offsets(ToSet(M))
             EM == Ends(ToSet(M))
             OF == Offsets(ToSet(F))
             EF == Ends(ToSet(F))
  <2>1. OM = OF \ EF /\ EM = EF \ OF
    BY <1>8, <1>9 DEF GluedFrom
  <2> HIDE DEF OM, EM, OF, EF
  <2>2. OM \ EM = OF \ EF /\ EM \ OM = EF \ OF
    BY <2>1
  <2> QED BY <2>2 DEF MergeFreeBlocks, OM, EM, OF, EF
<1> QED BY <1>10, <1>12, <1>13 DEF M

-----------------------------------------------------------------------------
(* Taking a block apart.                                                   *)

(* Two blocks that do not meet. *)
Clearing(b, c) == End(b) <= c.offset \/ End(c) <= b.offset

(* A rising vector less one of its blocks. *)
LEMMA RemoveIs ==
  ASSUME NEW F \in Seq(Blocks), Rising(F), NEW i \in 1 .. Len(F)
  PROVE  LET R == Vec!RemoveAt(F, i)
         IN R \in Seq(Blocks) /\ Separate(R) /\ ToSet(R) = ToSet(F) \ {F[i]}
<1> DEFINE n == Len(F)
           at(k) == IF k < i THEN k ELSE k + 1
           R == Vec!RemoveAt(F, i)
<1>1. n \in Nat /\ DOMAIN F = 1 .. n /\ \A k \in 1 .. n : F[k] \in Blocks
  OBVIOUS
<1>2. R \in Seq(Blocks) /\ Len(R) = n - 1 /\ \A k \in 1 .. n - 1 : R[k] = F[at(k)]
  <2> DEFINE A == SubSeq(F, 1, i - 1)
             B == SubSeq(F, i + 1, n)
  <2>1. A \in Seq(Blocks) /\ Len(A) = i - 1 /\ \A k \in 1 .. i - 1 : A[k] = F[k]
    OBVIOUS
  <2>2. B \in Seq(Blocks) /\ Len(B) = n - i /\ \A k \in 1 .. n - i : B[k] = F[k + i]
    OBVIOUS
  <2>3. R = A \o B
    BY DEF Vec!RemoveAt
  <2> HIDE DEF A, B, R
  <2>4. R \in Seq(Blocks) /\ Len(R) = n - 1
    BY <2>1, <2>2, <2>3, <1>1
  <2>5. ASSUME NEW k \in 1 .. n - 1 PROVE R[k] = F[at(k)]
    <3>1. CASE k < i
      <4>1. k \in 1 .. i - 1
        BY <3>1
      <4>2. R[k] = A[k]
        BY <4>1, <2>1, <2>2, <2>3, <1>1
      <4> QED BY <4>1, <4>2, <2>1, <3>1
    <3>2. CASE ~(k < i)
      <4>1. k - (i - 1) \in 1 .. n - i /\ (k - (i - 1)) + i = k + 1
        BY <3>2, <1>1
      <4>2. R[k] = B[k - (i - 1)]
        BY <3>2, <2>1, <2>2, <2>3, <1>1
      <4> QED BY <4>1, <4>2, <2>2, <3>2
    <3> QED BY <3>1, <3>2
  <2> QED BY <2>4, <2>5
<1>3. \A j, k \in 1 .. n : j # k => Clearing(F[j], F[k]) /\ F[j] # F[k]
  <2> SUFFICES ASSUME NEW j \in 1 .. n, NEW k \in 1 .. n, j < k
               PROVE  End(F[j]) < F[k].offset /\ F[j] # F[k]
    <3>1. \A j, k \in 1 .. n : j # k => j < k \/ k < j
      OBVIOUS
    <3>2. \A j \in 1 .. n : End(F[j]) \in Nat /\ F[j].offset \in Nat
      BY <1>1, BlockIs
    <3> HIDE DEF n
    <3> QED BY <3>1, <3>2 DEF Clearing
  <2>1. End(F[j]) < F[k].offset
    BY <1>1 DEF Rising
  <2> QED BY <2>1, <1>1, BlockIs
<1>4. DOMAIN R = 1 .. n - 1
  BY <1>2
<1>5. \A k \in 1 .. n - 1 : at(k) \in 1 .. n /\ at(k) # i
  BY <1>1
<1>6. \A j, k \in 1 .. n - 1 : j # k => at(j) # at(k)
  BY <1>1
<1>7. \A k \in 1 .. n : k # i => \E j \in 1 .. n - 1 : at(j) = k
  <2> SUFFICES ASSUME NEW k \in 1 .. n, k # i PROVE \E j \in 1 .. n - 1 : at(j) = k
    OBVIOUS
  <2>1. CASE k < i
    <3>1. k \in 1 .. n - 1 /\ at(k) = k
      BY <2>1, <1>1
    <3> QED BY <3>1
  <2>2. CASE i < k
    <3>1. k - 1 \in 1 .. n - 1 /\ at(k - 1) = k
      BY <2>2, <1>1
    <3> QED BY <3>1
  <2> QED BY <2>1, <2>2
<1> HIDE DEF at, R, n
<1>8. Separate(R)
  BY <1>2, <1>3, <1>4, <1>5, <1>6 DEF Separate, Clearing
<1>9. ToSet(R) = ToSet(F) \ {F[i]}
  <2>1. \A x : x \in ToSet(R) <=> \E k \in 1 .. n - 1 : x = F[at(k)]
    BY <1>2, <1>4 DEF ToSet
  <2>2. \A x : x \in ToSet(F) <=> \E k \in 1 .. n : x = F[k]
    BY <1>1 DEF ToSet
  <2>3. i \in 1 .. n
    BY DEF n
  <2> QED BY <2>1, <2>2, <2>3, <1>3, <1>5, <1>7
<1> QED BY <1>2, <1>8, <1>9 DEF R

(* Two vectors one behind the other. *)
LEMMA ConcatIs ==
  ASSUME NEW F \in Seq(Blocks), NEW G \in Seq(Blocks), Separate(F), Separate(G),
         \A b \in ToSet(F), c \in ToSet(G) : Clearing(b, c)
  PROVE  LET H == F \o G
         IN H \in Seq(Blocks) /\ Separate(H) /\ ToSet(H) = ToSet(F) \cup ToSet(G)
<1> DEFINE m == Len(F)
           n == Len(G)
           H == F \o G
<1>1. /\ m \in Nat /\ DOMAIN F = 1 .. m
      /\ n \in Nat /\ DOMAIN G = 1 .. n
  OBVIOUS
<1>2. /\ H \in Seq(Blocks) /\ Len(H) = m + n /\ DOMAIN H = 1 .. m + n
      /\ \A k \in 1 .. m : H[k] = F[k]
      /\ \A k \in 1 .. n : H[m + k] = G[k]
  OBVIOUS
<1>3. /\ \A k \in 1 .. m : k \in 1 .. m + n
      /\ \A k \in 1 .. n : m + k \in 1 .. m + n
      /\ \A k \in 1 .. m + n : k \in 1 .. m \/ \E j \in 1 .. n : k = m + j
  <2>1. ASSUME NEW k \in 1 .. m + n, k \notin 1 .. m PROVE \E j \in 1 .. n : k = m + j
    <3>1. k - m \in 1 .. n /\ k = m + (k - m)
      BY <1>1, <2>1
    <3> QED BY <3>1
  <2> QED BY <1>1, <2>1
<1> HIDE DEF m, n, H
<1>4. ToSet(H) = ToSet(F) \cup ToSet(G)
  <2>1. \A x : x \in ToSet(H) <=> \E k \in 1 .. m + n : x = H[k]
    BY <1>2 DEF ToSet
  <2>2. \A x : x \in ToSet(F) <=> \E k \in 1 .. m : x = F[k]
    BY <1>1 DEF ToSet
  <2>3. \A x : x \in ToSet(G) <=> \E k \in 1 .. n : x = G[k]
    BY <1>1 DEF ToSet
  <2>4. ASSUME NEW x \in ToSet(H) PROVE x \in ToSet(F) \cup ToSet(G)
    <3>1. PICK k \in 1 .. m + n : x = H[k]
      BY <2>1
    <3>2. CASE k \in 1 .. m
      BY <3>1, <3>2, <1>2, <2>2
    <3>3. CASE k \notin 1 .. m
      <4>1. PICK j \in 1 .. n : k = m + j
        BY <1>3, <3>3
      <4> QED BY <3>1, <4>1, <1>2, <2>3
    <3> QED BY <3>2, <3>3
  <2>5. ASSUME NEW x \in ToSet(F) PROVE x \in ToSet(H)
    BY <1>2, <1>3, <2>1, <2>2
  <2>6. ASSUME NEW x \in ToSet(G) PROVE x \in ToSet(H)
    <3>1. PICK k \in 1 .. n : x = G[k]
      BY <2>3
    <3>2. m + k \in 1 .. m + n /\ H[m + k] = x
      BY <3>1, <1>2, <1>3
    <3> QED BY <3>2, <2>1
  <2> QED BY <2>4, <2>5, <2>6
<1>5. Separate(H)
  <2> SUFFICES ASSUME NEW j \in 1 .. m + n, NEW k \in 1 .. m + n, j # k PROVE Clearing(H[j], H[k])
    BY <1>2 DEF Separate, Clearing
  <2>1. CASE j \in 1 .. m /\ k \in 1 .. m
    BY <2>1, <1>1, <1>2 DEF Separate, Clearing
  <2>2. CASE j \in 1 .. m /\ k \notin 1 .. m
    <3>1. PICK y \in 1 .. n : k = m + y
      BY <1>3, <2>2
    <3>2. H[j] \in ToSet(F) /\ H[k] \in ToSet(G)
      BY <1>1, <1>2, <2>2, <3>1 DEF ToSet
    <3> QED BY <3>2
  <2>3. CASE j \notin 1 .. m /\ k \in 1 .. m
    <3>1. PICK x \in 1 .. n : j = m + x
      BY <1>3, <2>3
    <3>2. H[j] \in ToSet(G) /\ H[k] \in ToSet(F)
      BY <1>1, <1>2, <2>3, <3>1 DEF ToSet
    <3> QED BY <3>2 DEF Clearing
  <2>4. CASE j \notin 1 .. m /\ k \notin 1 .. m
    <3>1. PICK x \in 1 .. n, y \in 1 .. n : j = m + x /\ k = m + y
      BY <1>3, <2>4
    <3>2. H[j] = G[x] /\ H[k] = G[y] /\ x # y
      BY <1>2, <3>1
    <3> QED BY <3>2, <1>1 DEF Separate, Clearing
  <2> QED BY <2>1, <2>2, <2>3, <2>4
<1> QED BY <1>2, <1>4, <1>5 DEF H

(* One block or none. *)
LEMMA FewIs ==
  /\ Separate(<<>>) /\ <<>> \in Seq(Blocks) /\ ToSet(<<>>) = {}
  /\ \A b \in Blocks : Separate(<<b>>) /\ <<b>> \in Seq(Blocks) /\ ToSet(<<b>>) = {b}
<1>1. ASSUME NEW b \in Blocks
      PROVE  Separate(<<b>>) /\ <<b>> \in Seq(Blocks) /\ ToSet(<<b>>) = {b}
  <2>1. DOMAIN <<b>> = {1} /\ <<b>>[1] = b /\ <<b>> \in Seq(Blocks)
    OBVIOUS
  <2> QED BY <2>1 DEF Separate, ToSet
<1>2. Separate(<<>>) /\ <<>> \in Seq(Blocks) /\ ToSet(<<>>) = {}
  BY DEF Separate, ToSet
<1> QED BY <1>1, <1>2

(* splitFreeBlock takes a stretch out of a block of the vector. *)
LEMMA VectorSplit ==
  ASSUME NEW F \in Seq(Blocks), Rising(F), NEW i \in 1 .. Len(F), NEW o \in Nat, NEW n \in Nat,
         F[i].offset <= o, o + n <= End(F[i])
  PROVE  LET M == Vec!SplitFreeBlock(F, i, o, n)
         IN /\ M \in Seq(Blocks)
            /\ Rising(M)
            /\ ToSet(M) = SplitFreeBlock(ToSet(F), F[i], o, n)
<1> DEFINE b == F[i]
           left  == IF o > b.offset THEN <<Block(b.offset, o - b.offset)>> ELSE <<>>
           right == IF o + n < End(b) THEN <<Block(o + n, End(b) - (o + n))>> ELSE <<>>
           R == Vec!RemoveAt(F, i)
           H == R \o left \o right
<1>1. b \in Blocks /\ b.offset \in Nat /\ End(b) \in Nat /\ b.offset < End(b) /\ b \in ToSet(F)
      /\ b.offset <= o /\ o + n <= End(b) /\ o <= o + n
  <2>1. b \in Blocks /\ i \in DOMAIN F /\ b.offset <= o /\ o + n <= End(b)
    OBVIOUS
  <2>2. b \in ToSet(F)
    BY <2>1 DEF ToSet
  <2> HIDE DEF b
  <2> QED BY <2>1, <2>2, BlockIs
<1>2. R \in Seq(Blocks) /\ Separate(R) /\ ToSet(R) = ToSet(F) \ {b}
  BY RemoveIs
<1>3. \A c \in ToSet(R) : c \in Blocks /\ Clearing(c, b)
  <2> SUFFICES ASSUME NEW c \in ToSet(F), c # b PROVE c \in Blocks /\ Clearing(c, b)
    BY <1>2
  <2>1. PICK j \in 1 .. Len(F) : c = F[j]
    BY DEF ToSet
  <2>2. j # i /\ (j < i \/ i < j) /\ j \in DOMAIN F /\ i \in DOMAIN F
    BY <2>1
  <2>3. End(F[j]) < F[i].offset \/ End(F[i]) < F[j].offset
    BY <2>2 DEF Rising
  <2>4. F[j] \in Blocks
    BY <2>2
  <2>5. End(F[j]) \in Nat /\ F[j].offset \in Nat
    BY <2>4, BlockIs
  <2> QED BY <2>1, <2>3, <2>4, <2>5, <1>1 DEF Clearing
<1> HIDE DEF b, R
<1>4. /\ left \in Seq(Blocks) /\ Separate(left) /\ ToSet(left) = LeftOf(b, o)
      /\ \A c \in ToSet(left) : c \in Blocks /\ c.offset = b.offset /\ End(c) = o
  <2>1. CASE o > b.offset
    <3> DEFINE c == Block(b.offset, o - b.offset)
    <3>1. c \in Blocks /\ c.offset = b.offset /\ End(c) = o
      <4> DEFINE p == b.offset
      <4>1. p \in Nat /\ p < o
        BY <2>1, <1>1
      <4>2. c = [offset |-> p, size |-> o - p]
        BY DEF Block
      <4> HIDE DEF p
      <4>3. o - p \in Nat \ {0} /\ p + (o - p) = o
        BY <4>1
      <4>4. End(c) = p + (o - p)
        BY <4>2 DEF End
      <4> HIDE DEF c
      <4> QED BY <4>1, <4>2, <4>3, <4>4 DEF Blocks, p
    <3>2. LeftOf(b, o) = {c} /\ left = <<c>>
      BY <2>1 DEF LeftOf
    <3> HIDE DEF c, left
    <3> QED BY <3>1, <3>2, FewIs
  <2>2. CASE ~(o > b.offset)
    <3>1. LeftOf(b, o) = {} /\ left = <<>>
      BY <2>2 DEF LeftOf
    <3> HIDE DEF left
    <3> QED BY <3>1, FewIs
  <2> QED BY <2>1, <2>2
<1>5. /\ right \in Seq(Blocks) /\ Separate(right) /\ ToSet(right) = RightOf(b, o, n)
      /\ \A c \in ToSet(right) : c \in Blocks /\ c.offset = o + n /\ End(c) = End(b)
  <2>1. CASE o + n < End(b)
    <3> DEFINE c == Block(o + n, End(b) - (o + n))
    <3>1. c \in Blocks /\ c.offset = o + n /\ End(c) = End(b)
      <4> DEFINE e == End(b)
      <4>0. e \in Nat /\ o + n < e
        BY <2>1, <1>1
      <4> HIDE DEF e
      <4>1. e - (o + n) \in Nat \ {0} /\ o + n \in Nat /\ (o + n) + (e - (o + n)) = e
        BY <4>0
      <4>2. c = [offset |-> o + n, size |-> e - (o + n)]
        BY DEF Block, e
      <4>3. End(c) = (o + n) + (e - (o + n))
        BY <4>2 DEF End
      <4> HIDE DEF c
      <4> QED BY <4>1, <4>2, <4>3 DEF Blocks, e
    <3>2. RightOf(b, o, n) = {c} /\ right = <<c>>
      BY <2>1 DEF RightOf
    <3> HIDE DEF c, right
    <3> QED BY <3>1, <3>2, FewIs
  <2>2. CASE ~(o + n < End(b))
    <3>1. RightOf(b, o, n) = {} /\ right = <<>>
      BY <2>2 DEF RightOf
    <3> HIDE DEF right
    <3> QED BY <3>1, FewIs
  <2> QED BY <2>1, <2>2
<1> HIDE DEF left, right
<1> DEFINE K == R \o left
<1>6. K \in Seq(Blocks) /\ Separate(K) /\ ToSet(K) = ToSet(R) \cup ToSet(left)
  <2>1. \A c \in ToSet(R), d \in ToSet(left) : Clearing(c, d)
    <3> SUFFICES ASSUME NEW c \in ToSet(R), NEW d \in ToSet(left) PROVE Clearing(c, d)
      OBVIOUS
    <3>1. c \in Blocks /\ Clearing(c, b) /\ d.offset = b.offset /\ End(d) = o
      BY <1>3, <1>4
    <3> QED BY <3>1, <1>1, BlockIs DEF Clearing
  <2> QED BY <2>1, <1>2, <1>4, ConcatIs
<1>7. H \in Seq(Blocks) /\ Separate(H) /\ ToSet(H) = ToSet(K) \cup ToSet(right)
  <2>1. \A c \in ToSet(K), d \in ToSet(right) : Clearing(c, d)
    <3> SUFFICES ASSUME NEW c \in ToSet(K), NEW d \in ToSet(right) PROVE Clearing(c, d)
      OBVIOUS
    <3>1. d.offset = o + n /\ End(d) = End(b)
      BY <1>5
    <3>2. CASE c \in ToSet(R)
      <4>1. c \in Blocks /\ Clearing(c, b)
        BY <1>3, <3>2
      <4> QED BY <3>1, <4>1, <1>1, BlockIs DEF Clearing
    <3>3. CASE c \in ToSet(left)
      <4>1. End(c) = o
        BY <1>4, <3>3
      <4> QED BY <3>1, <4>1 DEF Clearing
    <3> QED BY <1>6, <3>2, <3>3
  <2>2. H = K \o right
    OBVIOUS
  <2> HIDE DEF K, H
  <2> QED BY <2>1, <2>2, <1>5, <1>6, ConcatIs
<1>8. Vec!SplitFreeBlock(F, i, o, n) = Vec!MergeFreeBlocks(H)
  BY DEF Vec!SplitFreeBlock, Vec!A!Block, Block, Vec!A!End, End, left, right, R, b
<1>9. SplitFreeBlock(ToSet(F), b, o, n) = MergeFreeBlocks(ToSet(H))
  BY <1>2, <1>4, <1>5, <1>6, <1>7 DEF SplitFreeBlock
<1> HIDE DEF H
<1> QED BY <1>7, <1>8, <1>9, VectorMerge DEF b

-----------------------------------------------------------------------------
(* The invariant of the vector, and its steps.                             *)

Spans(a) == Span(a.offset, a.size)

(* Where free is called, what clients hold lies on page boundaries and     *)
(* outside the free blocks, so that a block given back meets no other.     *)
KeptOut ==
  FreeCalled =>
    /\ \A x \in Offsets(ToSet(blocks)) \cup Ends(ToSet(blocks)) : Multiple(x)
    /\ \A a \in live : /\ Multiple(a.offset) /\ Multiple(a.size) /\ a.size \in Nat \ {0}
                       /\ Spans(a) \cap Covered(ToSet(blocks)) = {}
    /\ \A a, c \in live : a # c => Spans(a) \cap Spans(c) = {}

VectorInv ==
  /\ blocks \in Seq(Blocks)
  /\ Rising(blocks)
  /\ KeptOut

(* A rising vector is a list of blocks that do not touch. *)
LEMMA RisingApart ==
  ASSUME NEW M \in Seq(Blocks), Rising(M)
  PROVE  ToSet(M) \subseteq Blocks /\ Apart(ToSet(M))
<1>1. \A i \in DOMAIN M : M[i] \in Blocks /\ i \in Nat
  OBVIOUS
<1>2. \A i, j \in DOMAIN M : i = j \/ i < j \/ j < i
  BY <1>1
<1> QED BY <1>1, <1>2 DEF ToSet, Rising, Apart

(* The first of some positions. *)
LEMMA FirstIs ==
  ASSUME NEW n \in Nat, NEW S \in SUBSET (1 .. n), S # {}
  PROVE  Vec!First(S) \in S /\ \A j \in S : Vec!First(S) <= j
<1>1. S \in SUBSET Int /\ \A x \in S : 1 <= x
  OBVIOUS
<1>2. Min(S) \in S /\ \A j \in S : Min(S) <= j
  BY <1>1, MinIs
<1>3. Vec!First(S) = Min(S)
  BY DEF Vec!First, Min
<1> QED BY <1>2, <1>3

(* The first position of a set is the block of lowest offset there. *)
LEMMA FirstIsFirst ==
  ASSUME blocks \in Seq(Blocks), Rising(blocks), NEW S \in SUBSET (1 .. Len(blocks)), S # {}
  PROVE  /\ Vec!First(S) \in S
         /\ Vec!A!IsFirst(blocks[Vec!First(S)], {blocks[j] : j \in S})
<1> DEFINE i == Vec!First(S)
<1>1. Len(blocks) \in Nat /\ DOMAIN blocks = 1 .. Len(blocks)
  OBVIOUS
<1>2. i \in S /\ \A j \in S : i <= j
  BY <1>1, FirstIs
<1> HIDE DEF i
<1>3. ASSUME NEW j \in S PROVE blocks[i].offset <= blocks[j].offset
  <2>1. blocks[i] \in Blocks /\ blocks[j] \in Blocks /\ i \in DOMAIN blocks /\ j \in DOMAIN blocks
    BY <1>1, <1>2
  <2>2. i = j \/ i < j
    BY <1>1, <1>2
  <2>3. i < j => End(blocks[i]) < blocks[j].offset
    BY <2>1 DEF Rising
  <2> DEFINE b == blocks[i]
             c == blocks[j]
  <2>4. /\ b.offset \in Nat /\ c.offset \in Nat /\ End(b) \in Nat /\ b.offset < End(b)
        /\ i < j => End(b) < c.offset
        /\ i = j => b = c
    BY <2>1, <2>3, BlockIs
  <2> HIDE DEF b, c
  <2>5. b.offset <= c.offset
    BY <2>2, <2>4
  <2> QED BY <2>5 DEF b, c
<1>4. Vec!A!IsFirst(blocks[i], {blocks[j] : j \in S})
  BY <1>2, <1>3 DEF Vec!A!IsFirst
<1> QED BY <1>2, <1>4 DEF i

(* The loops choose what XAlloc chooses. *)
LEMMA LoopsChoose ==
  ASSUME VectorInv, NEW p, NEW n
  PROVE  /\ Vec!HoldsPreferred(p, n) \in SUBSET (1 .. Len(blocks))
         /\ Vec!LongEnough(n) \in SUBSET (1 .. Len(blocks))
         /\ Vec!A!HoldsPreferred(p, n) = {blocks[j] : j \in Vec!HoldsPreferred(p, n)}
         /\ Vec!A!LongEnough(n) = {blocks[j] : j \in Vec!LongEnough(n)}
<1>1. DOMAIN blocks = 1 .. Len(blocks)
  BY DEF VectorInv
<1>2. Vec!A!HoldsPreferred(p, n) = {blocks[j] : j \in Vec!HoldsPreferred(p, n)}
  BY DEF Vec!A!HoldsPreferred, Vec!HoldsPreferred, Vec!ToSet
<1>3. Vec!A!LongEnough(n) = {blocks[j] : j \in Vec!LongEnough(n)}
  BY DEF Vec!A!LongEnough, Vec!LongEnough, Vec!ToSet
<1>4. Vec!HoldsPreferred(p, n) \subseteq DOMAIN blocks /\ Vec!LongEnough(n) \subseteq DOMAIN blocks
  BY DEF Vec!HoldsPreferred, Vec!LongEnough
<1> QED BY <1>1, <1>2, <1>3, <1>4

(* What XAlloc's operators say of the set is what they say here. *)
LEMMA SameOperators ==
  /\ \A F : Vec!A!MergeFreeBlocks(F) = MergeFreeBlocks(F)
  /\ \A F, b, o, n : Vec!A!SplitFreeBlock(F, b, o, n) = SplitFreeBlock(F, b, o, n)
  /\ \A M : Vec!ToSet(M) = ToSet(M)
<1>1. \A F : Vec!A!MergeFreeBlocks(F) = MergeFreeBlocks(F)
  BY DEF Vec!A!MergeFreeBlocks, MergeFreeBlocks, Vec!A!Runs, Runs, Vec!A!Offsets, Vec!A!Ends,
         Offsets, Ends, Vec!A!End, End, Vec!A!Block, Block
<1>2. \A b, o, n : Vec!A!LeftOf(b, o) = LeftOf(b, o) /\ Vec!A!RightOf(b, o, n) = RightOf(b, o, n)
  BY DEF Vec!A!LeftOf, LeftOf, Vec!A!RightOf, RightOf, Vec!A!End, End, Vec!A!Block, Block
<1>3. \A F, b, o, n : Vec!A!SplitFreeBlock(F, b, o, n) = SplitFreeBlock(F, b, o, n)
  BY <1>1, <1>2 DEF Vec!A!SplitFreeBlock, SplitFreeBlock
<1>4. \A M : Vec!ToSet(M) = ToSet(M)
  BY DEF Vec!ToSet, ToSet
<1> QED BY <1>1, <1>3, <1>4

(* A stretch taken out of a block, as XAlloc takes it. *)
LEMMA TakeKeeps ==
  ASSUME VectorInv, NEW i \in 1 .. Len(blocks), NEW o \in Nat, NEW p, NEW n \in Nat, Multiple(n),
         blocks[i].offset <= o, o + n <= End(blocks[i]), FreeCalled => Multiple(o),
         Vec!Take(i, o, p, n)
  PROVE  /\ VectorInv'
         /\ ToSet(blocks)' = SplitFreeBlock(ToSet(blocks), blocks[i], o, n)
<1> DEFINE F == ToSet(blocks)
           M == Vec!SplitFreeBlock(blocks, i, o, n)
           b == blocks[i]
<1>1. blocks \in Seq(Blocks) /\ Rising(blocks)
  BY DEF VectorInv
<1>2. blocks' = M
  BY DEF Vec!Take
<1>3. M \in Seq(Blocks) /\ Rising(M) /\ ToSet(M) = SplitFreeBlock(F, b, o, n)
  BY <1>1, VectorSplit
<1>4. F \subseteq Blocks /\ Apart(F) /\ b \in F
  BY <1>1, RisingApart DEF ToSet
<1>5. b.offset <= o /\ o + n <= End(b)
  OBVIOUS
<1> HIDE DEF M, F, b
<1>6. /\ Covered(ToSet(M)) = Covered(F) \ Span(o, n)
      /\ Span(o, n) \subseteq Covered(F)
      /\ Offsets(ToSet(M)) \subseteq Offsets(F) \cup {o + n}
      /\ Ends(ToSet(M)) \subseteq Ends(F) \cup {o}
  BY <1>3, <1>4, <1>5, Split
<1>7. KeptOut'
  <2> SUFFICES ASSUME FreeCalled
               PROVE  /\ \A x \in Offsets(ToSet(M)) \cup Ends(ToSet(M)) : Multiple(x)
                      /\ \A a \in live' : /\ Multiple(a.offset) /\ Multiple(a.size) /\ a.size \in Nat \ {0}
                                          /\ Spans(a) \cap Covered(ToSet(M)) = {}
                      /\ \A a, c \in live' : a # c => Spans(a) \cap Spans(c) = {}
    BY <1>2 DEF KeptOut, Spans
  <2>1. /\ \A x \in Offsets(F) \cup Ends(F) : Multiple(x)
        /\ \A a \in live : /\ Multiple(a.offset) /\ Multiple(a.size) /\ a.size \in Nat \ {0}
                           /\ Spans(a) \cap Covered(F) = {}
        /\ \A a, c \in live : a # c => Spans(a) \cap Spans(c) = {}
    BY DEF VectorInv, KeptOut, F
  <2>2. Multiple(o) /\ Multiple(o + n)
    BY MultipleSum
  <2> DEFINE new == [offset |-> RoundDown(o), size |-> n, booked |-> o]
  <2>3. live' = live \/ (n > 0 /\ live' = live \cup {new})
    BY DEF Vec!Take, Vec!A!RoundDown, RoundDown
  <2>4. new.offset = o /\ new.size = n /\ Spans(new) = Span(o, n)
    BY <2>2, RoundDownMultiple DEF Spans
  <2>5. \A x \in Offsets(ToSet(M)) \cup Ends(ToSet(M)) : Multiple(x)
    BY <1>6, <2>1, <2>2
  <2> HIDE DEF new
  <2>6. \A a \in live : Spans(a) \cap Covered(ToSet(M)) = {} /\ Spans(a) \cap Spans(new) = {}
    BY <1>6, <2>1, <2>4
  <2>7. Spans(new) \cap Covered(ToSet(M)) = {}
    BY <1>6, <2>4
  <2>8. CASE live' = live
    BY <2>1, <2>5, <2>6, <2>8
  <2>9. CASE n > 0 /\ live' = live \cup {new}
    <3>1. n \in Nat \ {0}
      BY <2>9
    <3> QED BY <2>1, <2>2, <2>4, <2>5, <2>6, <2>7, <2>9, <3>1
  <2> QED BY <2>3, <2>8, <2>9
<1>8. VectorInv'
  BY <1>2, <1>3, <1>7 DEF VectorInv, Rising
<1> QED BY <1>2, <1>3, <1>8 DEF F, b

(* Taking a chosen stretch is one of XAlloc's two ways to allocate. *)
LEMMA TakeAllocates ==
  ASSUME VectorInv, NEW i \in 1 .. Len(blocks), NEW p, NEW n,
         NEW o \in {p, blocks[i].offset}, Vec!A!Choice(p, n, blocks[i], o), Vec!Take(i, o, p, n),
         ToSet(blocks)' = SplitFreeBlock(ToSet(blocks), blocks[i], o, n)
  PROVE  Vec!A!AllocateOK(p, n) \/ Vec!A!AllocateThrows(p, n)
<1> DEFINE b == blocks[i]
<1>1. b \in Vec!ToSet(blocks) /\ o \in {p, b.offset} /\ Vec!A!Choice(p, n, b, o)
  BY DEF VectorInv, Vec!ToSet
<1>2. Vec!ToSet(blocks)' = Vec!A!SplitFreeBlock(Vec!ToSet(blocks), b, o, n)
  BY SameOperators DEF Vec!ToSet, ToSet
<1> HIDE DEF b
<1>3. CASE /\ n > 0
           /\ live' = live \cup {[offset |-> Vec!A!RoundDown(o), size |-> n, booked |-> o]}
           /\ committed' = committed \cup Vec!A!PagesOf(o, n)
           /\ reply' = Vec!A!Answer("ok", p, n)
           /\ UNCHANGED lost
  BY <1>1, <1>2, <1>3 DEF Vec!A!AllocateOK
<1>4. CASE /\ lost' = lost \cup Vec!A!Span(o, n)
           /\ reply' = Vec!A!Answer("thrown", p, n)
           /\ UNCHANGED <<live, committed>>
  BY <1>1, <1>2, <1>4 DEF Vec!A!AllocateThrows
<1> QED BY <1>3, <1>4 DEF Vec!Take

(* What allocate does, XAlloc does. *)
LEMMA VectorAllocates ==
  ASSUME VectorInv, NEW p \in Preferred, NEW size \in Requests, Vec!Allocate(p, size)
  PROVE  VectorInv' /\ Vec!A!Allocate(p, size)
<1> DEFINE n == Vec!A!AlignSize(size)
           HP == Vec!HoldsPreferred(p, n)
           LE == Vec!LongEnough(n)
<1>1. n \in Nat /\ Multiple(n) /\ p \in Nat
  <2>1. n = AlignSize(size)
    BY DEF Vec!A!AlignSize, AlignSize
  <2> HIDE DEF n
  <2> QED BY <2>1, AlignSizeIs, CallerAssumption
<1>2. \/ HP # {} /\ Vec!Take(Vec!First(HP), p, p, n)
      \/ HP = {} /\ LE # {} /\ Vec!Take(Vec!First(LE), blocks[Vec!First(LE)].offset, p, n)
      \/ HP = {} /\ LE = {} /\ reply' = Vec!A!Answer("null", p, n)
         /\ UNCHANGED <<blocks, live, lost, committed>>
  BY DEF Vec!Allocate
<1>3. blocks \in Seq(Blocks) /\ Rising(blocks) /\ DOMAIN blocks = 1 .. Len(blocks)
  BY DEF VectorInv
<1>4. /\ HP \in SUBSET (1 .. Len(blocks)) /\ LE \in SUBSET (1 .. Len(blocks))
      /\ Vec!A!HoldsPreferred(p, n) = {blocks[j] : j \in HP}
      /\ Vec!A!LongEnough(n) = {blocks[j] : j \in LE}
  BY LoopsChoose
<1>5. /\ \A j \in HP : blocks[j].offset <= p /\ p + n <= End(blocks[j])
      /\ \A j \in LE : blocks[j].offset + n <= End(blocks[j]) /\ blocks[j].offset \in Nat
  <2>1. ASSUME NEW j \in HP PROVE blocks[j].offset <= p /\ p + n <= End(blocks[j])
    <3>1. blocks[j].offset <= p /\ Vec!A!End(blocks[j]) >= p + n
      BY DEF Vec!HoldsPreferred
    <3>2. blocks[j] \in Blocks
      BY <1>3, <1>4
    <3>3. End(blocks[j]) \in Nat /\ p + n \in Nat
      BY <3>2, <1>1, BlockIs
    <3> QED BY <3>1, <3>3 DEF Vec!A!End, End
  <2>2. ASSUME NEW j \in LE PROVE blocks[j].offset + n <= End(blocks[j]) /\ blocks[j].offset \in Nat
    <3>1. blocks[j].size >= n
      BY DEF Vec!LongEnough
    <3>2. blocks[j] \in Blocks
      BY <1>3, <1>4
    <3>3. blocks[j].offset \in Nat /\ blocks[j].size \in Nat
      BY <3>2, BlockIs
    <3> HIDE DEF n
    <3> QED BY <3>1, <3>3, <1>1 DEF End
  <2> QED BY <2>1, <2>2
<1> HIDE DEF n, HP, LE
<1>6. CASE HP # {} /\ Vec!Take(Vec!First(HP), p, p, n)
  <2> DEFINE i == Vec!First(HP)
  <2>1. i \in HP /\ Vec!A!IsFirst(blocks[i], {blocks[j] : j \in HP})
    BY <1>3, <1>4, <1>6, FirstIsFirst
  <2>2. Vec!A!Choice(p, n, blocks[i], p)
    <3> HIDE DEF i
    <3>1. Vec!A!HoldsPreferred(p, n) # {} /\ Vec!A!IsFirst(blocks[i], Vec!A!HoldsPreferred(p, n))
      BY <1>4, <2>1
    <3> QED BY <3>1 DEF Vec!A!Choice
  <2>3. FreeCalled => Multiple(p)
    <3>1. FreeCalled => p % PageSize = 0
      BY FreeAssumption
    <3>2. p \div PageSize \in Nat /\ p = PageSize * (p \div PageSize) + (p % PageSize)
      BY <1>1, SpaceAssumption
    <3>3. PageSize * (p \div PageSize) \in Nat
      BY <3>2, SpaceAssumption
    <3> QED BY <3>1, <3>2, <3>3 DEF Multiple
  <2>4. Vec!Take(i, p, p, n)
    BY <1>6
  <2> HIDE DEF i
  <2>5. /\ VectorInv'
        /\ ToSet(blocks)' = SplitFreeBlock(ToSet(blocks), blocks[i], p, n)
    BY <1>1, <1>4, <1>5, <2>1, <2>3, <2>4, TakeKeeps
  <2>6. Vec!A!AllocateOK(p, n) \/ Vec!A!AllocateThrows(p, n)
    BY <1>4, <2>1, <2>2, <2>4, <2>5, TakeAllocates
  <2> QED BY <2>5, <2>6 DEF Vec!A!Allocate, n
<1>7. CASE HP = {} /\ LE # {} /\ Vec!Take(Vec!First(LE), blocks[Vec!First(LE)].offset, p, n)
  <2> DEFINE i == Vec!First(LE)
             o == blocks[i].offset
  <2>1. i \in LE /\ Vec!A!IsFirst(blocks[i], {blocks[j] : j \in LE})
    BY <1>3, <1>4, <1>7, FirstIsFirst
  <2>2. Vec!A!Choice(p, n, blocks[i], o)
    BY <1>4, <1>7, <2>1 DEF Vec!A!Choice
  <2>3. FreeCalled => Multiple(o)
    <3>1. o \in Offsets(ToSet(blocks))
      BY <1>3, <1>4, <2>1 DEF Offsets, ToSet
    <3> HIDE DEF o
    <3> QED BY <3>1 DEF VectorInv, KeptOut
  <2>4. Vec!Take(i, o, p, n)
    BY <1>7
  <2>5. o \in Nat /\ blocks[i].offset <= o /\ o + n <= End(blocks[i]) /\ o \in {p, blocks[i].offset}
    BY <1>5, <2>1
  <2> HIDE DEF i, o
  <2>6. /\ VectorInv'
        /\ ToSet(blocks)' = SplitFreeBlock(ToSet(blocks), blocks[i], o, n)
    BY <1>1, <1>4, <2>1, <2>3, <2>4, <2>5, TakeKeeps
  <2>7. Vec!A!AllocateOK(p, n) \/ Vec!A!AllocateThrows(p, n)
    BY <1>4, <2>1, <2>2, <2>4, <2>5, <2>6, TakeAllocates
  <2> QED BY <2>6, <2>7 DEF Vec!A!Allocate, n
<1>8. CASE HP = {} /\ LE = {} /\ reply' = Vec!A!Answer("null", p, n)
           /\ UNCHANGED <<blocks, live, lost, committed>>
  <2>1. VectorInv'
    BY <1>8 DEF VectorInv, KeptOut, Rising, ToSet
  <2>2. Vec!ToSet(blocks)' = Vec!ToSet(blocks)
    BY <1>8
  <2>3. Vec!A!AllocateNull(p, n)
    BY <1>4, <1>8, <2>2 DEF Vec!A!AllocateNull
  <2> QED BY <2>1, <2>3 DEF Vec!A!Allocate, n
<1> QED BY <1>2, <1>6, <1>7, <1>8

(* A block given back, as XAlloc adds it. *)
LEMMA VectorFrees ==
  ASSUME VectorInv, NEW a \in live, Vec!Free(a)
  PROVE  VectorInv' /\ (Vec!A!Free(a) \/ Vec!A!FreeThrows(a))
<1> DEFINE blk == Block(a.offset, a.size)
           F == ToSet(blocks)
           M == Vec!MergeFreeBlocks(Append(blocks, blk))
<1>1. FreeCalled
  BY DEF Vec!Free
<1>2. CASE /\ reply' = Vec!A!Answer("thrown", 0, a.size)
           /\ UNCHANGED <<blocks, live, lost, committed>>
  <2>1. VectorInv'
    BY <1>2 DEF VectorInv, KeptOut, Rising, ToSet
  <2>2. Vec!ToSet(blocks)' = Vec!ToSet(blocks)
    BY <1>2
  <2> QED BY <1>1, <1>2, <2>1, <2>2 DEF Vec!A!FreeThrows
<1>3. CASE /\ committed' = committed \ Vec!A!PagesOf(a.offset, a.size)
           /\ blocks' = M
           /\ live' = live \ {a}
           /\ reply' = Vec!A!Answer("freed", 0, a.size)
           /\ UNCHANGED lost
  <2>1. /\ \A x \in Offsets(F) \cup Ends(F) : Multiple(x)
        /\ \A c \in live : /\ Multiple(c.offset) /\ Multiple(c.size) /\ c.size \in Nat \ {0}
                           /\ Spans(c) \cap Covered(F) = {}
        /\ \A c, d \in live : c # d => Spans(c) \cap Spans(d) = {}
    BY <1>1 DEF VectorInv, KeptOut
  <2>2. blocks \in Seq(Blocks) /\ Rising(blocks) /\ DOMAIN blocks = 1 .. Len(blocks)
        /\ \A i \in DOMAIN blocks : blocks[i] \in Blocks
    BY DEF VectorInv
  <2>3. F \subseteq Blocks /\ Apart(F)
    BY <2>2, RisingApart
  <2>4. /\ blk \in Blocks /\ blk.offset = a.offset /\ End(blk) = a.offset + a.size
        /\ Bytes(blk) = Spans(a) /\ Multiple(End(blk)) /\ Multiple(blk.offset)
    <3>1. a.offset \in Nat /\ a.size \in Nat \ {0} /\ Multiple(a.offset + a.size)
      BY <2>1, MultipleSum
    <3> QED BY <2>1, <3>1 DEF Block, Blocks, End, Bytes, Spans
  <2> HIDE DEF blk, M, F
  <2>5. Clear(F, blk)
    <3> SUFFICES ASSUME NEW b \in F PROVE Clearing(b, blk)
      BY DEF Clear, Clearing
    <3>1. Bytes(b) \cap Bytes(blk) = {}
      BY <2>1, <2>4 DEF Covered
    <3>2. b \in Blocks
      BY <2>3
    <3>3. b.offset \notin Bytes(blk) \/ b.offset \notin Bytes(b)
      BY <3>1
    <3>4. blk.offset \notin Bytes(blk) \/ blk.offset \notin Bytes(b)
      BY <3>1
    <3>5. /\ b.offset \in Nat /\ End(b) \in Nat /\ b.offset < End(b)
          /\ blk.offset \in Nat /\ End(blk) \in Nat /\ blk.offset < End(blk)
      BY <3>2, <2>4, BlockIs
    <3>6. /\ \A x : x \in Bytes(b) <=> x \in Nat /\ b.offset <= x /\ x < End(b)
          /\ \A x : x \in Bytes(blk) <=> x \in Nat /\ blk.offset <= x /\ x < End(blk)
      BY <3>2, <2>4, BytesOf
    <3> QED BY <3>3, <3>4, <3>5, <3>6 DEF Clearing
  <2>6. LET G == Append(blocks, blk)
        IN G \in Seq(Blocks) /\ Separate(G) /\ ToSet(G) = F \cup {blk}
    <3> DEFINE G == blocks \o <<blk>>
    <3>1. Append(blocks, blk) = G
      BY <2>2, <2>4
    <3>2. Separate(blocks)
      <4> SUFFICES ASSUME NEW i \in DOMAIN blocks, NEW j \in DOMAIN blocks, i # j
                   PROVE  Clearing(blocks[i], blocks[j])
        BY DEF Separate, Clearing
      <4>1. i < j \/ j < i
        BY <2>2
      <4>2. End(blocks[i]) < blocks[j].offset \/ End(blocks[j]) < blocks[i].offset
        BY <4>1, <2>2 DEF Rising
      <4>3. blocks[i] \in Blocks /\ blocks[j] \in Blocks
        BY <2>2
      <4> QED BY <4>2, <4>3, BlockIs DEF Clearing
    <3>3. Separate(<<blk>>) /\ <<blk>> \in Seq(Blocks) /\ ToSet(<<blk>>) = {blk}
      BY <2>4, FewIs
    <3>4. \A b \in ToSet(blocks), c \in ToSet(<<blk>>) : Clearing(b, c)
      BY <2>5, <3>3 DEF Clear, Clearing, F
    <3>5. G \in Seq(Blocks) /\ Separate(G) /\ ToSet(G) = ToSet(blocks) \cup {blk}
      BY <2>2, <3>2, <3>3, <3>4, ConcatIs
    <3> HIDE DEF G
    <3> QED BY <3>1, <3>5 DEF F
  <2>7. M \in Seq(Blocks) /\ Rising(M) /\ ToSet(M) = MergeFreeBlocks(F \cup {blk})
    BY <2>6, VectorMerge DEF M
  <2>8. /\ Covered(ToSet(M)) = Covered(F) \cup Bytes(blk)
        /\ Offsets(ToSet(M)) \subseteq Offsets(F \cup {blk})
        /\ Ends(ToSet(M)) \subseteq Ends(F \cup {blk})
    BY <2>3, <2>4, <2>5, <2>7, MergeOne
  <2>9. /\ \A x \in Offsets(ToSet(M)) \cup Ends(ToSet(M)) : Multiple(x)
        /\ \A c \in live' : /\ Multiple(c.offset) /\ Multiple(c.size) /\ c.size \in Nat \ {0}
                            /\ Spans(c) \cap Covered(ToSet(M)) = {}
        /\ \A c, d \in live' : c # d => Spans(c) \cap Spans(d) = {}
    <3>1. Offsets(F \cup {blk}) = Offsets(F) \cup {blk.offset} /\ Ends(F \cup {blk}) = Ends(F) \cup {End(blk)}
      BY DEF Offsets, Ends
    <3>2. \A x \in Offsets(ToSet(M)) \cup Ends(ToSet(M)) : Multiple(x)
      BY <3>1, <2>1, <2>4, <2>8
    <3>3. ASSUME NEW c \in live, c # a PROVE Spans(c) \cap Covered(ToSet(M)) = {}
      BY <3>3, <2>1, <2>4, <2>8
    <3> QED BY <3>2, <3>3, <2>1, <1>3
  <2>10. VectorInv'
    <3>1. KeptOut'
      BY <1>3, <2>9 DEF KeptOut, Spans
    <3> QED BY <1>3, <2>7, <3>1 DEF VectorInv, Rising
  <2>11. Vec!A!Free(a)
    <3>1. Vec!A!Block(a.offset, a.size) = blk
      BY DEF Vec!A!Block, Block, blk
    <3>2. Vec!ToSet(blocks)' = Vec!A!MergeFreeBlocks(Vec!ToSet(blocks) \cup {Vec!A!Block(a.offset, a.size)})
      BY <1>3, <2>7, <3>1, SameOperators DEF F
    <3> QED BY <1>1, <1>3, <3>2 DEF Vec!A!Free
  <2> QED BY <2>10, <2>11
<1> QED BY <1>2, <1>3 DEF Vec!Free, Vec!A!Block, Block

(* One block, the region. *)
LEMMA VectorBegins == Vec!Init => VectorInv /\ Vec!A!Init
<1> SUFFICES ASSUME Vec!Init PROVE VectorInv /\ Vec!A!Init
  OBVIOUS
<1> DEFINE b == Block(0, Total)
<1>1. blocks = <<b>> /\ live = {}
  BY DEF Vec!Init, Vec!A!Block, Block
<1>2. b \in Blocks /\ b.offset = 0 /\ End(b) = Total
  BY SpaceAssumption DEF Blocks, Block, End
<1>3. Vec!A!Init
  <2>1. Vec!ToSet(blocks) = {Vec!A!Block(0, Total)}
    BY DEF Vec!Init, Vec!ToSet
  <2> QED BY <2>1 DEF Vec!Init, Vec!A!Init
<1> HIDE DEF b
<1>4. blocks \in Seq(Blocks) /\ Rising(blocks) /\ ToSet(blocks) = {b}
  <2>1. DOMAIN blocks = {1}
    BY <1>1
  <2> QED BY <1>1, <1>2, <2>1, FewIs DEF Rising
<1>5. Offsets(ToSet(blocks)) = {0} /\ Ends(ToSet(blocks)) = {Total}
  BY <1>2, <1>4 DEF Offsets, Ends
<1>6. KeptOut
  BY <1>1, <1>5, TotalMultiple DEF KeptOut
<1> QED BY <1>3, <1>4, <1>6 DEF VectorInv

(* Every step on the vector keeps its invariant and is a step of XAlloc. *)
LEMMA VectorNext == VectorInv /\ [Vec!Next]_(Vec!vars) => VectorInv' /\ [Vec!A!Next]_(Vec!A!vars)
<1> SUFFICES ASSUME VectorInv, [Vec!Next]_(Vec!vars) PROVE VectorInv' /\ [Vec!A!Next]_(Vec!A!vars)
  OBVIOUS
<1>1. ASSUME NEW p \in Preferred, NEW size \in Requests, Vec!Allocate(p, size)
      PROVE  VectorInv' /\ Vec!A!Next
  BY <1>1, VectorAllocates DEF Vec!A!Next
<1>2. ASSUME NEW a \in live, Vec!Free(a)
      PROVE  VectorInv' /\ Vec!A!Next
  BY <1>2, VectorFrees DEF Vec!A!Next
<1>3. CASE UNCHANGED Vec!vars
  <2>1. VectorInv'
    BY <1>3 DEF Vec!vars, VectorInv, KeptOut, Rising, ToSet
  <2>2. UNCHANGED Vec!A!vars
    BY <1>3 DEF Vec!vars, Vec!A!vars
  <2> QED BY <2>1, <2>2
<1> QED BY <1>1, <1>2, <1>3 DEF Vec!Next

(* The vector is sorted, and no two of its blocks touch, whenever an       *)
(* operation begins: what the loops of allocate rely on.                   *)
THEOREM VectorSorted == Vec!Spec => []SortedAndApart
<1>1. VectorInv => SortedAndApart
  <2> SUFFICES ASSUME VectorInv PROVE SortedAndApart
    OBVIOUS
  <2>1. \A i \in DOMAIN blocks : blocks[i] \in Blocks
    BY DEF VectorInv
  <2>2. \A i \in DOMAIN blocks : blocks[i].size > 0
    BY <2>1, BlockIs
  <2> QED BY <2>2 DEF VectorInv, Rising, SortedAndApart, End
<1> QED BY <1>1, VectorBegins, VectorNext, PTL DEF Vec!Spec

(* The vector, sorted and glued in one pass, is a list of free blocks as   *)
(* XAlloc has it: the code's loops refine its choice and its merge.        *)
THEOREM VectorImplements == Vec!Spec => Vec!ImplementsXAlloc
<1>1. Vec!ImplementsXAlloc <=> Vec!A!Init /\ [][Vec!A!Next]_(Vec!A!vars)
  BY DEF Vec!ImplementsXAlloc, Vec!A!Spec
<1> QED BY <1>1, VectorBegins, VectorNext, PTL DEF Vec!Spec
=============================================================================
