---------------------------- MODULE LoaderProofs ----------------------------
(***************************************************************************)
(* Proofs about the loader, for every set of executables: the image is the *)
(* one described, sections lie in it, imports are those recorded, and the  *)
(* runtime reads the metadata that the recompiler wrote.                   *)
(***************************************************************************)
EXTENDS Loader, FoldLemmas

-----------------------------------------------------------------------------
(* Sums and loops over sequences.                                          *)

(* g holds what is summed of s after each element. *)
Sums(g, n, s) ==
  /\ g[0] = 0 /\ g[n] = Total(s)
  /\ \A k \in 0 .. n : g[k] \in Nat
  /\ \A k \in 1 .. n : g[k] = g[k - 1] + s[k]

(* A sum is made of the sums up to each element. *)
LEMMA TotalIs ==
  ASSUME NEW n \in Nat, NEW s \in [1 .. n -> Nat]
  PROVE  \E g : Sums(g, n, s)
<1> DEFINE h == [p \in Nat \X (1 .. n) |-> p[1] + s[p[2]]]
           E(g) == g = [t \in SUBSET (1 .. n) |->
                          IF t = {} THEN 0 ELSE g[t \ {Max(t)}] + s[Max(t)]]
           f == CHOOSE g : E(g)
<1>1. \A v \in Nat, k \in 1 .. n : h[<<v, k>>] = v + s[k] /\ h[<<v, k>>] \in Nat
  OBVIOUS
<1>2. DOMAIN s = 1 .. n /\ \A t \in SUBSET (1 .. n) : t # {} => Max(t) \in 1 .. n
  BY MaxOfSome
<1> HIDE DEF h
<1>3. \E g : E(g)
  <2>1. PICK g \in [SUBSET (1 .. n) -> Nat] : FoldEquation(g, n, 0, h)
    BY <1>1, FoldExists DEF FoldDefined
  <2>2. E(g)
    BY <1>1, <1>2, <2>1 DEF FoldEquation
  <2> QED BY <2>2
<1>4. E(f)
  BY <1>3
<1>5. Total(s) = f[1 .. n]
  BY <1>2 DEF Total, FoldLeft, MapThenFoldSet
<1> HIDE DEF f
<1>6. FoldsWith(f, n, Nat, 0, h)
  BY <1>1, <1>2, <1>4 DEF FoldsWith
<1>7. PICK g : InTurnBy(g, n, Nat, 0, h) /\ g[n] = f[1 .. n]
  BY <1>6, FoldInTurn
<1>8. Sums(g, n, s)
  BY <1>1, <1>5, <1>7 DEF Sums, InTurnBy
<1> QED BY <1>8

(* The sum of nothing. *)
LEMMA TotalNone == \A s \in [1 .. 0 -> Nat] : Total(s) = 0
<1> SUFFICES ASSUME NEW s \in [1 .. 0 -> Nat] PROVE Total(s) = 0
  OBVIOUS
<1>1. PICK g : Sums(g, 0, s)
  BY TotalIs
<1> QED BY <1>1 DEF Sums

(* The sum up to one element more. *)
LEMMA TotalNext ==
  ASSUME NEW n \in Nat, NEW s \in [1 .. (n + 1) -> Nat]
  PROVE  /\ Total(s) \in Nat
         /\ Total([k \in 1 .. n |-> s[k]]) \in Nat
         /\ Total(s) = Total([k \in 1 .. n |-> s[k]]) + s[n + 1]
<1> DEFINE r == [k \in 1 .. n |-> s[k]]
<1>1. r \in [1 .. n -> Nat] /\ \A k \in 1 .. n : r[k] = s[k]
  OBVIOUS
<1> HIDE DEF r
<1>2. PICK g : Sums(g, n + 1, s)
  BY TotalIs
<1>3. PICK f : Sums(f, n, r)
  BY <1>1, TotalIs
<1> DEFINE T == {k \in Nat : k <= n => g[k] = f[k]}
<1>4. 0 \in T
  BY <1>2, <1>3 DEF Sums
<1>5. ASSUME NEW k \in Nat, k \in T PROVE k + 1 \in T
  <2> SUFFICES ASSUME k + 1 <= n PROVE g[k + 1] = f[k + 1]
    OBVIOUS
  <2>1. k + 1 \in 1 .. n /\ k + 1 \in 1 .. (n + 1) /\ (k + 1) - 1 = k /\ g[k] = f[k]
    BY <1>5
  <2>2. g[k + 1] = g[k] + s[k + 1] /\ f[k + 1] = f[k] + r[k + 1]
    BY <1>2, <1>3, <2>1 DEF Sums
  <2> QED BY <1>1, <2>1, <2>2
<1>6. g[n] = f[n]
  <2> HIDE DEF T
  <2>1. Nat \subseteq T
    BY <1>4, <1>5, Induction
  <2> QED BY <2>1 DEF T
<1>7. n + 1 \in 1 .. (n + 1) /\ (n + 1) - 1 = n /\ n \in 0 .. n /\ n + 1 \in 0 .. (n + 1)
  OBVIOUS
<1>8. g[n + 1] = g[n] + s[n + 1] /\ g[n + 1] \in Nat /\ f[n] \in Nat
  BY <1>2, <1>3, <1>7 DEF Sums
<1>9. Total(s) = g[n + 1] /\ Total(r) = f[n]
  BY <1>2, <1>3 DEF Sums
<1> QED BY <1>6, <1>8, <1>9 DEF r

(* What is left of a number when it is cut to 32 bits. *)
LEMMA WrapIs ==
  /\ Numbers \subseteq Nat
  /\ \A x \in Nat : x % Wrap \in Nat /\ x % Wrap < Wrap /\ (x < Wrap => x % Wrap = x)
<1>1. Wrap \in Nat /\ Wrap > 0
  BY WrapAssumption
<1> QED BY <1>1 DEF Numbers

(* The blocks of a compressed image.                                       *)
BasicBlocks == [data : Numbers, zero : Numbers]

(* Where the first k blocks are described to end, in the image and in the  *)
(* source. *)
Off(b, k) == Described(SubSeq(b, 1, k))

Con(b, k) == Consumed(SubSeq(b, 1, k))

(* Both are sums over the first k blocks. *)
LEMMA OffsIs ==
  ASSUME NEW b \in Seq(BasicBlocks), NEW k \in 0 .. Len(b)
  PROVE  /\ Off(b, k) = Total([j \in 1 .. k |-> b[j].data + b[j].zero])
         /\ Con(b, k) = Total([j \in 1 .. k |-> b[j].data])
<1>1. DOMAIN SubSeq(b, 1, k) = 1 .. k /\ \A j \in 1 .. k : SubSeq(b, 1, k)[j] = b[j]
  OBVIOUS
<1> QED BY <1>1 DEF Off, Con, Described, Consumed

(* A block begins where the one before it ends. *)
LEMMA OffNext ==
  ASSUME NEW b \in Seq(BasicBlocks)
  PROVE  /\ Off(b, 0) = 0 /\ Con(b, 0) = 0
         /\ Off(b, Len(b)) = Described(b) /\ Con(b, Len(b)) = Consumed(b)
         /\ \A k \in 0 .. Len(b) : Off(b, k) \in Nat /\ Con(b, k) \in Nat
         /\ \A k \in 1 .. Len(b) : /\ Off(b, k) = Off(b, k - 1) + b[k].data + b[k].zero
                                   /\ Con(b, k) = Con(b, k - 1) + b[k].data
                                   /\ b[k].data \in Nat /\ b[k].zero \in Nat
<1>1. ASSUME NEW k \in 1 .. Len(b)
      PROVE  b[k].data \in Nat /\ b[k].zero \in Nat /\ b[k].data + b[k].zero \in Nat
  <2>1. b[k] \in BasicBlocks
    OBVIOUS
  <2>2. b[k].data \in Nat /\ b[k].zero \in Nat
    BY <2>1, WrapIs DEF BasicBlocks
  <2> QED BY <2>2
<1> DEFINE w(k) == [j \in 1 .. k |-> b[j].data + b[j].zero]
           d(k) == [j \in 1 .. k |-> b[j].data]
<1>2. ASSUME NEW k \in 0 .. Len(b)
      PROVE  w(k) \in [1 .. k -> Nat] /\ d(k) \in [1 .. k -> Nat]
  BY <1>1
<1>3. Off(b, 0) = 0 /\ Con(b, 0) = 0
  <2>1. 0 \in 0 .. Len(b)
    OBVIOUS
  <2>2. Off(b, 0) = Total(w(0)) /\ Con(b, 0) = Total(d(0))
    BY <2>1, OffsIs
  <2>3. w(0) \in [1 .. 0 -> Nat] /\ d(0) \in [1 .. 0 -> Nat]
    BY <1>2, <2>1
  <2> HIDE DEF w, d
  <2> QED BY <2>2, <2>3, TotalNone
<1>4. Off(b, Len(b)) = Described(b) /\ Con(b, Len(b)) = Consumed(b)
  <2>1. SubSeq(b, 1, Len(b)) = b
    OBVIOUS
  <2> QED BY <2>1 DEF Off, Con
<1>5. ASSUME NEW k \in 1 .. Len(b)
      PROVE  /\ Off(b, k) = Off(b, k - 1) + b[k].data + b[k].zero
             /\ Con(b, k) = Con(b, k - 1) + b[k].data
             /\ Off(b, k) \in Nat /\ Con(b, k) \in Nat
             /\ Off(b, k - 1) \in Nat /\ Con(b, k - 1) \in Nat
  <2>1. k - 1 \in Nat /\ k - 1 \in 0 .. Len(b) /\ k \in 0 .. Len(b) /\ (k - 1) + 1 = k
    OBVIOUS
  <2>2. /\ Off(b, k) = Total(w(k)) /\ Off(b, k - 1) = Total(w(k - 1))
        /\ Con(b, k) = Total(d(k)) /\ Con(b, k - 1) = Total(d(k - 1))
    BY <2>1, OffsIs
  <2>3. w(k) \in [1 .. k -> Nat] /\ d(k) \in [1 .. k -> Nat]
    BY <1>2, <2>1
  <2>4. /\ w(k - 1) = [j \in 1 .. (k - 1) |-> w(k)[j]]
        /\ d(k - 1) = [j \in 1 .. (k - 1) |-> d(k)[j]]
        /\ w(k)[k] = b[k].data + b[k].zero /\ d(k)[k] = b[k].data
    OBVIOUS
  <2> HIDE DEF w, d
  <2>5. /\ Total(w(k)) \in Nat /\ Total(w(k - 1)) \in Nat
        /\ Total(w(k)) = Total(w(k - 1)) + w(k)[k]
    <3>1. w(k) \in [1 .. ((k - 1) + 1) -> Nat]
      BY <2>1, <2>3
    <3> QED BY ONLY <3>1, <2>1, <2>4, TotalNext
  <2>6. /\ Total(d(k)) \in Nat /\ Total(d(k - 1)) \in Nat
        /\ Total(d(k)) = Total(d(k - 1)) + d(k)[k]
    <3>1. d(k) \in [1 .. ((k - 1) + 1) -> Nat]
      BY <2>1, <2>3
    <3> QED BY ONLY <3>1, <2>1, <2>4, TotalNext
  <2> QED BY <1>1, <2>2, <2>4, <2>5, <2>6
<1>6. ASSUME NEW k \in 0 .. Len(b) PROVE Off(b, k) \in Nat /\ Con(b, k) \in Nat
  BY <1>3, <1>5
<1> QED BY <1>1, <1>3, <1>4, <1>5, <1>6

(* Later blocks end later. *)
LEMMA OffGrows ==
  ASSUME NEW b \in Seq(BasicBlocks), NEW k \in 0 .. Len(b), NEW m \in k .. Len(b)
  PROVE  Off(b, k) <= Off(b, m) /\ Con(b, k) <= Con(b, m)
<1> DEFINE T == {j \in Nat : k <= j /\ j <= Len(b) => Off(b, k) <= Off(b, j) /\ Con(b, k) <= Con(b, j)}
<1>1. 0 \in T
  BY OffNext
<1>2. ASSUME NEW j \in Nat, j \in T PROVE j + 1 \in T
  <2> SUFFICES ASSUME k <= j + 1, j + 1 <= Len(b)
               PROVE  Off(b, k) <= Off(b, j + 1) /\ Con(b, k) <= Con(b, j + 1)
    OBVIOUS
  <2>1. j + 1 \in 1 .. Len(b) /\ (j + 1) - 1 = j /\ j \in 0 .. Len(b)
    OBVIOUS
  <2>2. /\ Off(b, j + 1) = Off(b, j) + b[j + 1].data + b[j + 1].zero
        /\ Con(b, j + 1) = Con(b, j) + b[j + 1].data
        /\ b[j + 1].data \in Nat /\ b[j + 1].zero \in Nat
    BY <2>1, OffNext
  <2>3. /\ Off(b, j) \in Nat /\ Off(b, k) \in Nat /\ Off(b, j + 1) \in Nat
        /\ Con(b, j) \in Nat /\ Con(b, k) \in Nat /\ Con(b, j + 1) \in Nat
    BY <2>1, OffNext
  <2>4. CASE k = j + 1
    BY <2>3, <2>4
  <2>5. CASE k <= j
    <3>1. Off(b, k) <= Off(b, j) /\ Con(b, k) <= Con(b, j)
      BY <1>2, <2>1, <2>5
    <3>2. Off(b, j) <= Off(b, j + 1) /\ Con(b, j) <= Con(b, j + 1)
      BY <2>2, <2>3, SMTT(20)
    <3> QED BY ONLY <3>1, <3>2, <2>3
  <2> QED BY <2>4, <2>5
<1> HIDE DEF T
<1>3. Nat \subseteq T
  BY <1>1, <1>2, Induction
<1> QED BY <1>3 DEF T

(* No more is consumed than is described. *)
LEMMA ConsumedFits == \A b \in Seq(BasicBlocks) : Consumed(b) <= Described(b)
<1> SUFFICES ASSUME NEW b \in Seq(BasicBlocks) PROVE Consumed(b) <= Described(b)
  OBVIOUS
<1> DEFINE T == {k \in Nat : k <= Len(b) => Con(b, k) <= Off(b, k)}
<1>1. 0 \in T
  BY OffNext
<1>2. ASSUME NEW k \in Nat, k \in T PROVE k + 1 \in T
  <2> SUFFICES ASSUME k + 1 <= Len(b) PROVE Con(b, k + 1) <= Off(b, k + 1)
    OBVIOUS
  <2>1. k + 1 \in 1 .. Len(b) /\ (k + 1) - 1 = k /\ k \in 0 .. Len(b) /\ k <= Len(b)
    OBVIOUS
  <2>2. /\ Off(b, k + 1) = Off(b, k) + b[k + 1].data + b[k + 1].zero
        /\ Con(b, k + 1) = Con(b, k) + b[k + 1].data
        /\ b[k + 1].data \in Nat /\ b[k + 1].zero \in Nat
        /\ Off(b, k) \in Nat /\ Con(b, k) \in Nat
    BY <2>1, OffNext
  <2>3. Con(b, k) <= Off(b, k)
    BY <1>2, <2>1
  <2> QED BY <2>2, <2>3
<1> HIDE DEF T
<1>3. Nat \subseteq T
  BY <1>1, <1>2, Induction
<1>4. Len(b) \in Nat
  OBVIOUS
<1>5. Con(b, Len(b)) <= Off(b, Len(b))
  BY <1>3, <1>4 DEF T
<1> QED BY <1>5, OffNext

(* When the sizes add up, blocks are placed where they are described. *)
LEMMA PlacedIs ==
  ASSUME NEW b \in Seq(BasicBlocks)
  PROVE  /\ SizeOf(b) \in Nat
         /\ \A k \in 0 .. Len(b) : Placed(SubSeq(b, 1, k)) \in Nat
         /\ Described(b) < Wrap =>
              /\ SizeOf(b) = Described(b)
              /\ \A k \in 0 .. Len(b) : Placed(SubSeq(b, 1, k)) = Off(b, k)
<1> DEFINE w(k) == [j \in 1 .. k |-> b[j].data + b[j].zero]
           v(k) == [j \in 1 .. k |-> (b[j].data + b[j].zero) % Wrap]
<1>1. Len(b) \in Nat /\ Described(b) \in Nat /\ Off(b, Len(b)) = Described(b)
  BY OffNext
<1>2. \A k \in 1 .. Len(b) : b[k].data \in Nat /\ b[k].zero \in Nat /\ b[k].data + b[k].zero \in Nat
  BY OffNext
<1>3. SizeOf(b) \in Nat /\ (Described(b) < Wrap => SizeOf(b) = Described(b))
  BY <1>1, WrapIs DEF SizeOf
<1>4. ASSUME NEW k \in 0 .. Len(b) PROVE Placed(SubSeq(b, 1, k)) = Total(v(k))
  <2>1. DOMAIN SubSeq(b, 1, k) = 1 .. k /\ \A j \in 1 .. k : SubSeq(b, 1, k)[j] = b[j]
    OBVIOUS
  <2> QED BY <2>1 DEF Placed
<1>5. ASSUME NEW k \in 0 .. Len(b) PROVE Total(v(k)) \in Nat
  <2>1. k \in Nat /\ v(k) \in [1 .. k -> Nat]
    BY <1>2, WrapIs
  <2> HIDE DEF v
  <2>2. PICK g : Sums(g, k, v(k))
    BY <2>1, TotalIs
  <2> QED BY <2>1, <2>2 DEF Sums
<1>6. ASSUME Described(b) < Wrap, NEW k \in 0 .. Len(b) PROVE v(k) = w(k)
  <2> SUFFICES ASSUME NEW j \in 1 .. k
               PROVE  (b[j].data + b[j].zero) % Wrap = b[j].data + b[j].zero
    OBVIOUS
  <2>1. j \in 1 .. Len(b) /\ j - 1 \in 0 .. Len(b) /\ j \in 0 .. Len(b) /\ Len(b) \in j .. Len(b)
    BY <1>1
  <2>2. Off(b, j) <= Off(b, Len(b))
    BY <2>1, OffGrows
  <2>3. Off(b, j) = Off(b, j - 1) + b[j].data + b[j].zero /\ Off(b, j - 1) \in Nat
    BY <2>1, OffNext
  <2>4. b[j].data + b[j].zero < Wrap
    BY <1>1, <1>2, <1>6, <2>1, <2>2, <2>3, WrapAssumption
  <2> QED BY <1>2, <2>1, <2>4, WrapIs
<1> HIDE DEF v
<1>7. ASSUME Described(b) < Wrap, NEW k \in 0 .. Len(b)
      PROVE  Placed(SubSeq(b, 1, k)) = Off(b, k)
  BY <1>4, <1>6, <1>7, OffsIs
<1> QED BY <1>3, <1>4, <1>5, <1>7

(* Every cell of the image lies in a block. *)
LEMMA InSomeBlock ==
  ASSUME NEW b \in Seq(BasicBlocks), NEW p \in 1 .. Described(b)
  PROVE  \E n \in DOMAIN b : Off(b, n - 1) < p /\ p <= Off(b, n)
<1> DEFINE T == {k \in 0 .. Len(b) : p <= Off(b, k)}
<1>1. Len(b) \in T /\ T \in SUBSET Int /\ \A k \in T : 0 <= k
  BY OffNext
<1> DEFINE n == Min(T)
<1>2. n \in T /\ \A k \in T : n <= k
  <2>1. T # {} /\ 0 \in Int
    BY <1>1
  <2> HIDE DEF T
  <2> QED BY <1>1, <2>1, MinIs
<1> HIDE DEF n
<1>3. n # 0
  BY <1>2, OffNext
<1>4. n \in 1 .. Len(b) /\ n - 1 \in 0 .. Len(b) /\ n - 1 \notin T
  BY <1>2, <1>3
<1>5. Off(b, n - 1) \in Nat
  BY <1>4, OffNext
<1> QED BY <1>2, <1>4, <1>5

-----------------------------------------------------------------------------
(* Sequences.                                                              *)

(* A sequence is kept element after element. *)
LEMMA KeptInTurn ==
  ASSUME NEW S, NEW s \in Seq(S), NEW T
  PROVE  LET n == Len(s)
             V == Seq(S)
             h == [p \in V \X (1 .. n) |-> IF s[p[2]] \in T THEN Append(p[1], s[p[2]]) ELSE p[1]]
         IN \E g : InTurnBy(g, n, V, <<>>, h) /\ g[n] = Kept(s, T)
<1> DEFINE n == Len(s)
           V == Seq(S)
           h == [p \in V \X (1 .. n) |-> IF s[p[2]] \in T THEN Append(p[1], s[p[2]]) ELSE p[1]]
           E(g) == g = [t \in SUBSET (1 .. n) |->
                          IF t = {} THEN <<>>
                          ELSE IF s[Max(t)] \in T THEN Append(g[t \ {Max(t)}], s[Max(t)])
                          ELSE g[t \ {Max(t)}]]
           f == CHOOSE g : E(g)
<1>1. /\ n \in Nat /\ <<>> \in V /\ DOMAIN s = 1 .. n
      /\ \A t \in SUBSET (1 .. n) : t # {} => Max(t) \in 1 .. n
  BY MaxOfSome
<1>2. \A v \in V, k \in 1 .. n :
        /\ h[<<v, k>>] = IF s[k] \in T THEN Append(v, s[k]) ELSE v
        /\ h[<<v, k>>] \in V
  OBVIOUS
<1> HIDE DEF h, V, n
<1>3. \E g : E(g)
  <2>1. PICK g \in [SUBSET (1 .. n) -> V] : FoldEquation(g, n, <<>>, h)
    BY <1>1, <1>2, FoldExists DEF FoldDefined
  <2>2. E(g)
    BY <1>1, <1>2, <2>1 DEF FoldEquation
  <2> QED BY <2>2
<1>4. E(f)
  BY <1>3
<1>5. Kept(s, T) = f[1 .. n]
  BY <1>1 DEF Kept, FoldLeft, MapThenFoldSet
<1> HIDE DEF f
<1>6. FoldsWith(f, n, V, <<>>, h)
  BY <1>1, <1>2, <1>4 DEF FoldsWith
<1>7. PICK g : InTurnBy(g, n, V, <<>>, h) /\ g[n] = f[1 .. n]
  BY <1>6, FoldInTurn
<1> QED BY <1>5, <1>7 DEF h, V, n

(* What is kept of a sequence is a sequence of its elements. *)
LEMMA KeptIs ==
  ASSUME NEW S, NEW s \in Seq(S), NEW T
  PROVE  Kept(s, T) \in Seq(S)
<1> DEFINE n == Len(s)
           V == Seq(S)
           h == [p \in V \X (1 .. n) |-> IF s[p[2]] \in T THEN Append(p[1], s[p[2]]) ELSE p[1]]
<1>1. PICK g : InTurnBy(g, n, V, <<>>, h) /\ g[n] = Kept(s, T)
  BY KeptInTurn
<1> HIDE DEF h
<1> QED BY <1>1 DEF InTurnBy

(* The elements kept are those of the sequence that are in the set. *)
LEMMA KeptAre ==
  ASSUME NEW S, NEW s \in Seq(S), NEW T
  PROVE  /\ \A e \in ToSet(Kept(s, T)) : e \in ToSet(s) /\ e \in T
         /\ \A e \in ToSet(s) : e \in T => e \in ToSet(Kept(s, T))
<1> DEFINE n == Len(s)
           V == Seq(S)
           h == [p \in V \X (1 .. n) |-> IF s[p[2]] \in T THEN Append(p[1], s[p[2]]) ELSE p[1]]
<1>1. PICK g : InTurnBy(g, n, V, <<>>, h) /\ g[n] = Kept(s, T)
  BY KeptInTurn
<1>2. n \in Nat /\ DOMAIN s = 1 .. n /\ \A k \in 1 .. n : s[k] \in S
  OBVIOUS
<1> DEFINE A(c, k) == /\ \A e \in ToSet(c) : e \in T /\ \E j \in 1 .. k : e = s[j]
                      /\ \A j \in 1 .. k : s[j] \in T => s[j] \in ToSet(c)
           P == {k \in Nat : k <= n => A(g[k], k)}
<1>3. 0 \in P
  BY <1>1 DEF InTurnBy, ToSet
<1>4. ASSUME NEW k \in Nat, k \in P PROVE k + 1 \in P
  <2> SUFFICES ASSUME k + 1 <= n PROVE A(g[k + 1], k + 1)
    OBVIOUS
  <2>1. k + 1 \in 1 .. n /\ (k + 1) - 1 = k /\ k \in 0 .. n
    BY <1>2
  <2>2. g[k] \in V /\ g[k + 1] = h[<<g[k], k + 1>>]
    BY <1>1, <2>1, ZenonT(30) DEF InTurnBy
  <2>3. g[k + 1] = IF s[k + 1] \in T THEN Append(g[k], s[k + 1]) ELSE g[k]
    BY <2>1, <2>2
  <2>4. A(g[k], k)
    BY <1>2, <1>4, <2>1
  <2> DEFINE c == g[k]
             d == g[k + 1]
  <2>5. s[k + 1] \in T => \A e : e \in ToSet(d) <=> e \in ToSet(c) \/ e = s[k + 1]
    <3> SUFFICES ASSUME s[k + 1] \in T
                 PROVE  \A e : e \in ToSet(d) <=> e \in ToSet(c) \/ e = s[k + 1]
      OBVIOUS
    <3>1. d = Append(c, s[k + 1]) /\ c \in Seq(S) /\ s[k + 1] \in S
      BY <1>2, <2>1, <2>2, <2>3
    <3> HIDE DEF c, d
    <3>2. ToSet(d) = ToSet(c) \cup {s[k + 1]}
      BY <3>1 DEF ToSet
    <3> QED BY <3>2
  <2>6. s[k + 1] \notin T => d = c
    BY <2>3
  <2> HIDE DEF c, d
  <2>7. \A j \in 1 .. (k + 1) : j \in 1 .. k \/ j = k + 1
    OBVIOUS
  <2>8. A(c, k)
    BY <2>4 DEF c
  <2>9. A(d, k + 1)
    BY <2>5, <2>6, <2>7, <2>8
  <2> QED BY <2>9 DEF d
<1> HIDE DEF P
<1>5. Nat \subseteq P
  BY <1>3, <1>4, Induction
<1>6. A(g[n], n)
  BY <1>2, <1>5 DEF P
<1> QED BY <1>1, <1>2, <1>6 DEF ToSet

(* g[k] is the first k sequences one after the other. *)
Joins(g, n, S, ss) ==
  /\ g \in [0 .. n -> Seq(S)]
  /\ g[0] = <<>> /\ g[n] = FlattenSeq(ss)
  /\ \A k \in 1 .. n : g[k] = g[k - 1] \o ss[k]

(* A joined sequence is made one sequence after the other. *)
LEMMA FlattenIs ==
  ASSUME NEW S, NEW ss \in Seq(Seq(S))
  PROVE  \E g : Joins(g, Len(ss), S, ss)
<1> DEFINE n == Len(ss)
           V == Seq(S)
           h == [p \in V \X (1 .. n) |-> p[1] \o ss[p[2]]]
           E(f) == f = [i \in 1 .. n |-> IF i = 1 THEN ss[i] ELSE f[i - 1] \o ss[i]]
           flat == CHOOSE f : E(f)
<1>1. n \in Nat /\ <<>> \in V /\ \A k \in 1 .. n : ss[k] \in V
  OBVIOUS
<1>2. ASSUME NEW v \in V, NEW k \in 1 .. n
      PROVE  h[<<v, k>>] = v \o ss[k] /\ h[<<v, k>>] \in V
  <2>1. v \o ss[k] \in V
    BY <1>1
  <2>2. h[<<v, k>>] = v \o ss[k]
    <3> HIDE DEF V, n
    <3> QED OBVIOUS
  <2> QED BY <2>1, <2>2
<1>3. \A k \in 1 .. n : <<>> \o ss[k] = ss[k]
  OBVIOUS
<1>4. n = 0 => FlattenSeq(ss) = <<>>
  BY DEF FlattenSeq
<1>5. n # 0 => FlattenSeq(ss) = flat[n]
  BY DEF FlattenSeq
<1> HIDE DEF h, V, n
<1>6. PICK G \in [SUBSET (1 .. n) -> V] : FoldEquation(G, n, <<>>, h)
  BY <1>1, <1>2, FoldExists DEF FoldDefined
<1>7. FoldsWith(G, n, V, <<>>, h)
  BY <1>1, <1>2, <1>6 DEF FoldsWith, FoldEquation
<1>8. PICK g : InTurnBy(g, n, V, <<>>, h)
  BY <1>7, FoldInTurn
<1>9. /\ g \in [0 .. n -> V] /\ g[0] = <<>>
      /\ \A k \in 1 .. n : g[k] = g[k - 1] \o ss[k]
  BY <1>2, <1>8 DEF InTurnBy
<1>10. E([i \in 1 .. n |-> g[i]])
  <2> DEFINE f == [i \in 1 .. n |-> g[i]]
  <2>1. ASSUME NEW i \in 1 .. n
        PROVE  f[i] = IF i = 1 THEN ss[i] ELSE f[i - 1] \o ss[i]
    <3>1. CASE i = 1
      <4>1. 1 - 1 = 0 /\ 1 \in 1 .. n
        BY <3>1
      <4>2. g[1] = g[0] \o ss[1]
        BY <4>1, <1>9
      <4> QED BY <3>1, <4>2, <1>3, <1>9
    <3>2. CASE i # 1
      <4>1. i - 1 \in 1 .. n
        BY <1>1, <3>2
      <4> QED BY <3>2, <4>1, <1>9
    <3> QED BY <3>1, <3>2
  <2> QED BY <2>1
<1>11. E(flat)
  BY <1>10
<1> HIDE DEF flat
<1> DEFINE T == {k \in Nat : k \in 1 .. n => flat[k] = g[k]}
<1>12. 0 \in T
  OBVIOUS
<1>13. ASSUME NEW k \in Nat, k \in T PROVE k + 1 \in T
  <2> SUFFICES ASSUME k + 1 \in 1 .. n PROVE flat[k + 1] = g[k + 1]
    OBVIOUS
  <2>0. (k + 1) - 1 = k
    OBVIOUS
  <2>1. (k + 1) - 1 = k /\ g[k + 1] = g[k] \o ss[k + 1]
    BY <2>0, <1>9
  <2>2. CASE k = 0
    <3>1. flat[k + 1] = ss[k + 1]
      BY <1>11, <2>2
    <3> QED BY <3>1, <2>1, <2>2, <1>3, <1>9
  <2>3. CASE k # 0
    <3>1. k \in 1 .. n /\ k + 1 # 1
      BY <1>1, <2>3
    <3>2. flat[k + 1] = flat[k] \o ss[k + 1]
      BY <1>11, <3>1, <2>1
    <3> QED BY <3>1, <3>2, <2>1, <1>13
  <2> QED BY <2>2, <2>3
<1>14. n # 0 => flat[n] = g[n]
  <2> HIDE DEF T
  <2>1. Nat \subseteq T
    BY <1>12, <1>13, Induction
  <2> QED BY <1>1, <2>1 DEF T
<1>15. g[n] = FlattenSeq(ss)
  BY <1>4, <1>5, <1>9, <1>14
<1> QED BY <1>9, <1>15 DEF Joins, V, n

(* One more sequence. *)
LEMMA FlattenNext ==
  ASSUME NEW S, NEW ss \in Seq(Seq(S)), NEW k \in 1 .. Len(ss)
  PROVE  /\ FlattenSeq(SubSeq(ss, 1, k)) = FlattenSeq(SubSeq(ss, 1, k - 1)) \o ss[k]
         /\ FlattenSeq(SubSeq(ss, 1, k - 1)) \in Seq(S)
<1> DEFINE a == SubSeq(ss, 1, k)
           b == SubSeq(ss, 1, k - 1)
<1>1. /\ a \in Seq(Seq(S)) /\ Len(a) = k /\ \A i \in 1 .. k : a[i] = ss[i]
      /\ b \in Seq(Seq(S)) /\ Len(b) = k - 1 /\ \A i \in 1 .. (k - 1) : b[i] = ss[i]
      /\ k \in Nat /\ k - 1 \in Nat
  OBVIOUS
<1> HIDE DEF a, b
<1>2. PICK g : Joins(g, k, S, a)
  BY <1>1, FlattenIs
<1>3. PICK f : Joins(f, k - 1, S, b)
  BY <1>1, FlattenIs
<1> DEFINE T == {i \in Nat : i <= k - 1 => g[i] = f[i]}
<1>4. 0 \in T
  BY <1>2, <1>3 DEF Joins
<1>5. ASSUME NEW i \in Nat, i \in T PROVE i + 1 \in T
  <2> SUFFICES ASSUME i + 1 <= k - 1 PROVE g[i + 1] = f[i + 1]
    OBVIOUS
  <2>1. i + 1 \in 1 .. (k - 1) /\ i + 1 \in 1 .. k /\ (i + 1) - 1 = i /\ g[i] = f[i]
    BY <1>1, <1>5
  <2>2. g[i + 1] = g[i] \o a[i + 1] /\ f[i + 1] = f[i] \o b[i + 1]
    BY <1>2, <1>3, <2>1 DEF Joins
  <2> QED BY <1>1, <2>1, <2>2
<1>6. g[k - 1] = f[k - 1]
  <2> HIDE DEF T
  <2>1. Nat \subseteq T
    BY <1>4, <1>5, Induction
  <2> QED BY <1>1, <2>1 DEF T
<1>7. k \in 1 .. k /\ k - 1 \in 0 .. (k - 1)
  BY <1>1
<1>8. g[k] = g[k - 1] \o a[k] /\ f[k - 1] \in Seq(S)
  BY <1>2, <1>3, <1>7 DEF Joins
<1>9. g[k] = FlattenSeq(a) /\ f[k - 1] = FlattenSeq(b)
  BY <1>2, <1>3 DEF Joins
<1> QED BY <1>1, <1>6, <1>7, <1>8, <1>9 DEF a, b

(* Two sequences joined. *)
LEMMA JoinIs ==
  ASSUME NEW S, NEW x \in Seq(S), NEW y \in Seq(S)
  PROVE  /\ x \o y \in Seq(S) /\ Len(x \o y) = Len(x) + Len(y)
         /\ \A i \in 1 .. Len(x) : (x \o y)[i] = x[i]
         /\ \A j \in 1 .. Len(y) : (x \o y)[Len(x) + j] = y[j]
OBVIOUS

(* Where each sequence stands in the joined one. *)
Stands(o, n, ss) ==
  /\ o \in [0 .. n -> Nat] /\ o[0] = 0
  /\ \A k \in 1 .. n : o[k] = o[k - 1] + Len(ss[k])
  /\ Len(FlattenSeq(ss)) = o[n]
  /\ \A k \in 1 .. n : \A j \in 1 .. Len(ss[k]) :
       o[k - 1] + j \in 1 .. o[n] /\ FlattenSeq(ss)[o[k - 1] + j] = ss[k][j]

(* Every element of every sequence is found at its place in the joined one. *)
LEMMA FlattenAt ==
  ASSUME NEW S, NEW ss \in Seq(Seq(S))
  PROVE  /\ FlattenSeq(ss) \in Seq(S)
         /\ \E o : Stands(o, Len(ss), ss)
<1> DEFINE n == Len(ss)
<1>1. n \in Nat /\ \A k \in 1 .. n : ss[k] \in Seq(S) /\ Len(ss[k]) \in Nat
  OBVIOUS
<1> HIDE DEF n
<1>2. PICK g : Joins(g, n, S, ss)
  BY FlattenIs DEF n
<1>3. \A k \in 0 .. n : g[k] \in Seq(S) /\ Len(g[k]) \in Nat
  BY <1>1, <1>2 DEF Joins
<1> DEFINE o == [k \in 0 .. n |-> Len(g[k])]
           Holds(m) == \A k \in 1 .. m : \A j \in 1 .. Len(ss[k]) :
                         o[k - 1] + j \in 1 .. o[m] /\ g[m][o[k - 1] + j] = ss[k][j]
           T == {m \in Nat : m <= n => Holds(m)}
<1>4. o \in [0 .. n -> Nat] /\ \A k \in 0 .. n : o[k] = Len(g[k])
  BY <1>3
<1>5. ASSUME NEW k \in 1 .. n
      PROVE  /\ o[k] = o[k - 1] + Len(ss[k])
             /\ \A i \in 1 .. o[k - 1] : g[k][i] = g[k - 1][i]
             /\ \A j \in 1 .. Len(ss[k]) : g[k][o[k - 1] + j] = ss[k][j]
  <2>1. k - 1 \in 0 .. n /\ k \in 0 .. n
    BY <1>1
  <2>2. g[k] = g[k - 1] \o ss[k] /\ g[k - 1] \in Seq(S) /\ ss[k] \in Seq(S)
    BY <1>1, <1>2, <1>3, <2>1 DEF Joins
  <2>3. o[k] = Len(g[k]) /\ o[k - 1] = Len(g[k - 1])
    BY <1>4, <2>1
  <2>4. /\ Len(g[k]) = Len(g[k - 1]) + Len(ss[k])
        /\ \A i \in 1 .. Len(g[k - 1]) : g[k][i] = g[k - 1][i]
        /\ \A j \in 1 .. Len(ss[k]) : g[k][Len(g[k - 1]) + j] = ss[k][j]
    <3> DEFINE x == g[k - 1]
               y == ss[k]
               z == g[k]
    <3>1. x \in Seq(S) /\ y \in Seq(S) /\ z = x \o y
      BY <2>2
    <3> HIDE DEF x, y, z
    <3>2. /\ Len(z) = Len(x) + Len(y)
          /\ \A i \in 1 .. Len(x) : z[i] = x[i]
          /\ \A j \in 1 .. Len(y) : z[Len(x) + j] = y[j]
      BY ONLY <3>1, JoinIs
    <3> QED BY <3>2 DEF x, y, z
  <2> HIDE DEF o
  <2> QED BY <2>3, <2>4
<1> HIDE DEF o
<1>6. 0 \in T
  OBVIOUS
<1>7. ASSUME NEW m \in Nat, m \in T PROVE m + 1 \in T
  <2> SUFFICES ASSUME m + 1 <= n, NEW k \in 1 .. (m + 1), NEW j \in 1 .. Len(ss[k])
               PROVE  o[k - 1] + j \in 1 .. o[m + 1] /\ g[m + 1][o[k - 1] + j] = ss[k][j]
    OBVIOUS
  <2>1. m + 1 \in 1 .. n /\ (m + 1) - 1 = m /\ m \in 0 .. n /\ m + 1 \in 0 .. n /\ k \in 1 .. n
        /\ k - 1 \in 0 .. n
    BY <1>1
  <2>2. o[m] \in Nat /\ o[m + 1] \in Nat /\ Len(ss[m + 1]) \in Nat /\ o[k - 1] \in Nat
    BY <1>1, <1>4, <2>1
  <2>3. /\ o[m + 1] = o[m] + Len(ss[m + 1])
        /\ \A i \in 1 .. o[m] : g[m + 1][i] = g[m][i]
        /\ \A i \in 1 .. Len(ss[m + 1]) : g[m + 1][o[m] + i] = ss[m + 1][i]
    BY <1>5, <2>1
  <2>4. CASE k = m + 1
    BY <2>1, <2>2, <2>3, <2>4
  <2>5. CASE k # m + 1
    <3>1. k \in 1 .. m
      BY <2>5
    <3>2. o[k - 1] + j \in 1 .. o[m] /\ g[m][o[k - 1] + j] = ss[k][j]
      BY <1>7, <2>1, <3>1
    <3>3. o[m] <= o[m + 1]
      BY ONLY <2>2, <2>3
    <3>4. o[k - 1] + j \in 1 .. o[m + 1]
      BY ONLY <3>2, <3>3, <2>2
    <3> QED BY <3>2, <3>4, <2>3
  <2> QED BY <2>4, <2>5
<1>8. Holds(n)
  <2> HIDE DEF Holds
  <2>1. \A m \in Nat : m \in T => m + 1 \in T
    BY <1>7
  <2> HIDE DEF T
  <2>2. Nat \subseteq T
    BY <1>6, <2>1, Induction
  <2> QED BY <1>1, <2>2 DEF T
<1>9. g[n] = FlattenSeq(ss) /\ g[0] = <<>> /\ n \in 0 .. n /\ 0 \in 0 .. n
  BY <1>1, <1>2 DEF Joins
<1>10. FlattenSeq(ss) \in Seq(S)
  BY <1>3, <1>9
<1>11. o[0] = 0 /\ Len(FlattenSeq(ss)) = o[n]
  BY <1>4, <1>9
<1>12. Stands(o, n, ss)
  BY <1>4, <1>5, <1>8, <1>9, <1>11 DEF Stands
<1> QED BY <1>10, <1>12 DEF n

(* No element is more than the sum. *)
LEMMA TotalBounds ==
  ASSUME NEW n \in Nat, NEW s \in [1 .. n -> Nat]
  PROVE  Total(s) \in Nat /\ \A j \in 1 .. n : s[j] <= Total(s)
<1>1. PICK g : Sums(g, n, s)
  BY TotalIs
<1> DEFINE T == {k \in Nat : k <= n => \A j \in 1 .. k : s[j] <= g[k]}
<1>2. 0 \in T
  OBVIOUS
<1>3. ASSUME NEW k \in Nat, k \in T PROVE k + 1 \in T
  <2> SUFFICES ASSUME k + 1 <= n, NEW j \in 1 .. (k + 1) PROVE s[j] <= g[k + 1]
    OBVIOUS
  <2>1. k + 1 \in 1 .. n /\ (k + 1) - 1 = k /\ k \in 0 .. n /\ k + 1 \in 0 .. n /\ j \in 1 .. n
    OBVIOUS
  <2>2. g[k] \in Nat /\ g[k + 1] = g[k] + s[k + 1] /\ s[k + 1] \in Nat /\ s[j] \in Nat
    BY <1>1, <2>1 DEF Sums
  <2>3. j # k + 1 => s[j] <= g[k]
    BY <1>3, <2>1
  <2> QED BY <2>2, <2>3
<1>4. \A j \in 1 .. n : s[j] <= g[n]
  <2> HIDE DEF T
  <2>1. Nat \subseteq T
    BY <1>2, <1>3, Induction
  <2> QED BY <2>1 DEF T
<1> QED BY <1>1, <1>4 DEF Sums

(* The image has to reach the end of every section, as 32 bits give it. *)
LEMMA ExtentIs ==
  ASSUME NEW secs \in Seq(SectionHeaders)
  PROVE  /\ Extent(secs) \in Nat
         /\ \A k \in 1 .. Len(secs) : (secs[k].voff + secs[k].vsize) % Wrap <= Extent(secs)
<1> DEFINE n == Len(secs)
           s == [k \in 1 .. n |-> (secs[k].voff + secs[k].vsize) % Wrap]
           X == {0} \cup {(e.voff + e.vsize) % Wrap : e \in ToSet(secs)}
<1>1. ASSUME NEW k \in 1 .. n PROVE (secs[k].voff + secs[k].vsize) % Wrap \in Nat
  <2>1. secs[k] \in SectionHeaders
    OBVIOUS
  <2>2. secs[k].voff \in Nat /\ secs[k].vsize \in Nat
    BY <2>1, WrapIs DEF SectionHeaders
  <2> QED BY <2>2, WrapIs
<1>2. /\ n \in Nat /\ s \in [1 .. n -> Nat]
      /\ \A k \in 1 .. n : s[k] = (secs[k].voff + secs[k].vsize) % Wrap
  BY <1>1
<1>3. \A x \in X : x = 0 \/ \E k \in 1 .. n : x = s[k]
  BY DEF ToSet
<1>4. 0 \in X /\ \A k \in 1 .. n : s[k] \in X
  BY DEF ToSet
<1> HIDE DEF X, s, n
<1>5. Total(s) \in Nat /\ \A j \in 1 .. n : s[j] <= Total(s)
  BY <1>2, TotalBounds
<1>6. X \in SUBSET Int /\ X # {} /\ \A x \in X : x <= Total(s)
  BY <1>2, <1>3, <1>4, <1>5
<1>7. Max(X) \in X /\ \A x \in X : x <= Max(X)
  <2>1. Total(s) \in Int
    BY <1>5
  <2> QED BY ONLY <1>6, <2>1, MaxIs
<1>8. Max(X) \in Nat
  BY <1>2, <1>3, <1>7
<1>9. Extent(secs) = Max(X)
  BY DEF Extent, X
<1> QED BY <1>2, <1>4, <1>7, <1>8, <1>9 DEF n

-----------------------------------------------------------------------------
(* Sections copied from the file as they are.                              *)
Copied(m, old, secs) == FoldLeft(LAMBDA c, s : CopyRaw(c, old, s), m, secs)

(* The sections among the first k that give cell p. *)
Giving(old, secs, k, p) ==
  {i \in 1 .. k : /\ secs[i].voff >= old /\ p > secs[i].voff
                  /\ p <= secs[i].voff + Smaller(secs[i].vsize, secs[i].psize)
                  /\ (secs[i].psize + secs[i].poff) % Wrap <= Len(file.source)}

(* What stands in the file is a cell. *)
LEMMA StoredIsCell ==
  ASSUME file.source \in Seq(Contents)
  PROVE  \A k : Stored(k) \in Cells
<1> SUFFICES ASSUME NEW k, k \in DOMAIN file.source PROVE Stored(k) \in Cells
  BY DEF Stored, Cells, Contents
<1>1. file.source[k] \in Contents /\ k \in Nat
  OBVIOUS
<1>2. Sealed(k) \in Cells
  BY <1>1 DEF Sealed, Cells
<1> QED BY <1>1, <1>2 DEF Stored, Cells

(* One section.                                                            *)
LEMMA CopyRawIs ==
  ASSUME file.source \in Seq(Contents), NEW old \in Nat, NEW n \in Nat,
         NEW m \in [1 .. n -> Cells], NEW s \in SectionHeaders
  PROVE  /\ CopyRaw(m, old, s) \in [1 .. n -> Cells]
         /\ \A p \in 1 .. n :
              CopyRaw(m, old, s)[p] =
                IF /\ s.voff >= old /\ p > s.voff
                   /\ p <= s.voff + Smaller(s.vsize, s.psize)
                   /\ (s.psize + s.poff) % Wrap <= Len(file.source)
                THEN Stored(s.poff + p - s.voff) ELSE m[p]
<1>1. s.voff \in Nat /\ s.vsize \in Nat /\ s.poff \in Nat /\ s.psize \in Nat
  BY WrapIs DEF SectionHeaders
<1>2. /\ Smaller(s.vsize, s.psize) = Smaller(s.psize, s.vsize)
      /\ Smaller(s.vsize, s.psize) \in Nat /\ Smaller(s.vsize, s.psize) <= s.psize
  BY <1>1 DEF Smaller
<1> DEFINE small == Smaller(s.vsize, s.psize)
           fits == (s.psize + s.poff) % Wrap <= Len(file.source)
<1> HIDE DEF small, fits
<1>3. IsRaw(old, s) <=> s.psize # 0 /\ fits /\ s.voff >= old
  BY DEF IsRaw, fits
<1>4. small \in Nat /\ small <= s.psize
  BY <1>2 DEF small
<1>5. CopyRaw(m, old, s) = IF ~ IsRaw(old, s) THEN m
                           ELSE [p \in 1 .. n |-> IF p \in s.voff + 1 .. s.voff + small
                                                  THEN Stored(s.poff + p - s.voff) ELSE m[p]]
  <2>1. DOMAIN m = 1 .. n /\ small = Smaller(s.psize, s.vsize)
    BY <1>2 DEF small
  <2> QED BY <2>1 DEF CopyRaw
<1>6. CopyRaw(m, old, s) \in [1 .. n -> Cells]
  BY <1>5, StoredIsCell
<1>7. ASSUME NEW p \in 1 .. n
      PROVE  CopyRaw(m, old, s)[p] =
               IF s.voff >= old /\ p > s.voff /\ p <= s.voff + small /\ fits
               THEN Stored(s.poff + p - s.voff) ELSE m[p]
  <2>1. p \in s.voff + 1 .. s.voff + small <=> p > s.voff /\ p <= s.voff + small
    BY <1>1, <1>4
  <2>2. s.psize = 0 => ~ (p > s.voff /\ p <= s.voff + small)
    BY <1>1, <1>4
  <2>3. CASE IsRaw(old, s)
    BY <1>3, <1>5, <2>1, <2>3
  <2>4. CASE ~ IsRaw(old, s)
    BY <1>3, <1>5, <2>2, <2>4
  <2> QED BY <2>3, <2>4
<1> QED BY <1>6, <1>7 DEF small, fits

(* All of them: what no section gives stays as it was.                     *)
LEMMA CopiedIs ==
  ASSUME file.source \in Seq(Contents), NEW old \in Nat, NEW n \in Nat,
         NEW m \in [1 .. n -> Cells], NEW secs \in Seq(SectionHeaders)
  PROVE  /\ Copied(m, old, secs) \in [1 .. n -> Cells]
         /\ \A p \in 1 .. n :
              IF Giving(old, secs, Len(secs), p) = {} THEN Copied(m, old, secs)[p] = m[p]
              ELSE \E i \in Giving(old, secs, Len(secs), p) :
                     Copied(m, old, secs)[p] = Stored(secs[i].poff + p - secs[i].voff)
<1> DEFINE N == Len(secs)
           V == [1 .. n -> Cells]
           h == [v \in V \X (1 .. N) |-> CopyRaw(v[1], old, secs[v[2]])]
           E(g) == g = [t \in SUBSET (1 .. N) |->
                          IF t = {} THEN m ELSE CopyRaw(g[t \ {Max(t)}], old, secs[Max(t)])]
           f == CHOOSE g : E(g)
<1>1. /\ N \in Nat /\ m \in V /\ DOMAIN secs = 1 .. N
      /\ \A k \in 1 .. N : secs[k] \in SectionHeaders
      /\ \A t \in SUBSET (1 .. N) : t # {} => Max(t) \in 1 .. N
  BY MaxOfSome
<1>2. ASSUME NEW v \in V, NEW k \in 1 .. N
      PROVE  h[<<v, k>>] = CopyRaw(v, old, secs[k]) /\ h[<<v, k>>] \in V
  <2>1. CopyRaw(v, old, secs[k]) \in V
    BY <1>1, CopyRawIs
  <2> QED BY <2>1
<1> HIDE DEF h, V, N
<1>3. \E g : E(g)
  <2>1. PICK g \in [SUBSET (1 .. N) -> V] : FoldEquation(g, N, m, h)
    BY <1>1, <1>2, FoldExists DEF FoldDefined
  <2>2. E(g)
    BY <1>1, <1>2, <2>1 DEF FoldEquation
  <2> QED BY <2>2
<1>4. E(f)
  BY <1>3
<1>5. Copied(m, old, secs) = f[1 .. N]
  BY <1>1 DEF Copied, FoldLeft, MapThenFoldSet
<1> HIDE DEF f
<1>6. FoldsWith(f, N, V, m, h)
  BY <1>1, <1>2, <1>4 DEF FoldsWith
<1>7. PICK g : InTurnBy(g, N, V, m, h) /\ g[N] = f[1 .. N]
  BY <1>6, FoldInTurn
<1>8. /\ g \in [0 .. N -> V] /\ g[0] = m
      /\ \A k \in 1 .. N : g[k - 1] \in V /\ g[k] = CopyRaw(g[k - 1], old, secs[k])
  BY <1>1, <1>2, <1>7 DEF InTurnBy
<1> DEFINE Holds(k) == \A p \in 1 .. n :
             IF Giving(old, secs, k, p) = {} THEN g[k][p] = m[p]
             ELSE \E i \in Giving(old, secs, k, p) :
                    g[k][p] = Stored(secs[i].poff + p - secs[i].voff)
           T == {k \in Nat : k <= N => Holds(k)}
<1>9. 0 \in T
  <2>1. \A p \in 1 .. n : Giving(old, secs, 0, p) = {}
    BY DEF Giving
  <2> QED BY <2>1, <1>8
<1>10. ASSUME NEW k \in Nat, k \in T PROVE k + 1 \in T
  <2> SUFFICES ASSUME k + 1 <= N PROVE Holds(k + 1)
    OBVIOUS
  <2>1. k + 1 \in 1 .. N /\ (k + 1) - 1 = k /\ k <= N
    BY <1>1
  <2>4. Holds(k)
    <3> HIDE DEF Holds
    <3> QED BY <1>10, <2>1
  <2>2. g[k] \in V /\ g[k + 1] = CopyRaw(g[k], old, secs[k + 1]) /\ secs[k + 1] \in SectionHeaders
    <3>1. g[(k + 1) - 1] \in V /\ g[k + 1] = CopyRaw(g[(k + 1) - 1], old, secs[k + 1])
      BY <1>8, <2>1
    <3> QED BY <1>1, <2>1, <3>1
  <2>3. ASSUME NEW p \in 1 .. n
        PROVE  IF Giving(old, secs, k + 1, p) = {} THEN g[k + 1][p] = m[p]
               ELSE \E i \in Giving(old, secs, k + 1, p) :
                      g[k + 1][p] = Stored(secs[i].poff + p - secs[i].voff)
    <3>1. g[k + 1][p] = IF k + 1 \in Giving(old, secs, k + 1, p)
                        THEN Stored(secs[k + 1].poff + p - secs[k + 1].voff) ELSE g[k][p]
      <4>1. k + 1 \in 1 .. (k + 1)
        OBVIOUS
      <4> DEFINE s == secs[k + 1]
      <4>2. s \in SectionHeaders /\ g[k] \in [1 .. n -> Cells] /\ g[k + 1] = CopyRaw(g[k], old, s)
        BY <2>2 DEF V
      <4>3. k + 1 \in Giving(old, secs, k + 1, p) <=>
              /\ s.voff >= old /\ p > s.voff
              /\ p <= s.voff + Smaller(s.vsize, s.psize)
              /\ (s.psize + s.poff) % Wrap <= Len(file.source)
        BY <4>1 DEF Giving
      <4> HIDE DEF s
      <4>4. CopyRaw(g[k], old, s)[p] =
                IF /\ s.voff >= old /\ p > s.voff
                   /\ p <= s.voff + Smaller(s.vsize, s.psize)
                   /\ (s.psize + s.poff) % Wrap <= Len(file.source)
                THEN Stored(s.poff + p - s.voff) ELSE g[k][p]
        BY <4>2, CopyRawIs
      <4> QED BY <4>2, <4>3, <4>4 DEF s
    <3>2. Giving(old, secs, k + 1, p) \ {k + 1} = Giving(old, secs, k, p)
      BY DEF Giving
    <3>3. CASE k + 1 \in Giving(old, secs, k + 1, p)
      BY <3>1, <3>3
    <3>4. CASE k + 1 \notin Giving(old, secs, k + 1, p)
      BY <2>4, <3>1, <3>2, <3>4
    <3> QED BY <3>3, <3>4
  <2> QED BY <2>3
<1>11. Holds(N)
  <2> HIDE DEF Holds
  <2>1. \A k \in Nat : k \in T => k + 1 \in T
    BY <1>10
  <2> HIDE DEF T
  <2>2. Nat \subseteq T
    BY <1>9, <2>1, Induction
  <2> QED BY <1>1, <2>2 DEF T
<1>12. Copied(m, old, secs) = g[N] /\ g[N] \in V
  BY <1>1, <1>5, <1>7, <1>8
<1> QED BY <1>11, <1>12 DEF V, N

-----------------------------------------------------------------------------
(* The optional headers.                                                   *)
(* A name that a library may get. *)
Texts == STRING \cup {"Unknown"}

ImportedLibs == [index : Nat, records : Seq(Nat)]

XexData ==
  [base : Nat, entry : Nat, encrypted : BOOLEAN,
   compression : {"none", "basic", "normal", "delta"}, blocks : Seq(BasicBlocks), title : Nat,
   libNames : Seq(Texts), records : Seq(Nat), devkit : BOOLEAN]

(* An element appended to a joined sequence. *)
LEMMA AppendJoin ==
  \A b, s \in Seq(Texts), e \in Texts : Append(b \o s, e) = b \o Append(s, e)
<1> SUFFICES ASSUME NEW b \in Seq(Texts), NEW s \in Seq(Texts), NEW e \in Texts
             PROVE  Append(b \o s, e) = b \o Append(s, e)
  OBVIOUS
<1> DEFINE x == Append(b \o s, e)
           y == b \o Append(s, e)
<1>1. Len(x) = Len(b) + Len(s) + 1 /\ Len(y) = Len(b) + Len(s) + 1
      /\ x \in Seq(Texts) /\ y \in Seq(Texts)
  OBVIOUS
<1>2. ASSUME NEW i \in 1 .. Len(b) + Len(s) + 1 PROVE x[i] = y[i]
  <2>1. CASE i <= Len(b)
    BY <2>1
  <2>2. CASE i > Len(b) /\ i <= Len(b) + Len(s)
    BY <2>2
  <2>3. CASE i = Len(b) + Len(s) + 1
    BY <2>3
  <2> QED BY <2>1, <2>2, <2>3
<1> HIDE DEF x, y
<1>3. x = y
  BY <1>1, <1>2
<1> QED BY <1>3 DEF x, y

(* One library of an import header. *)
LEMMA AddLibraryIs ==
  ASSUME NEW x \in XexData, NEW table \in Seq(STRING), NEW lib \in ImportedLibs
  PROVE  /\ AddLibrary(x, table, lib) \in XexData
         /\ LibName(table, lib) \in Texts
         /\ LibName(table, lib) # "" =>
              AddLibrary(x, table, lib).libNames = Append(x.libNames, LibName(table, lib))
<1>1. LibName(table, lib) \in Texts
  <2>1. DOMAIN table = 1 .. Len(table) /\ \A k \in DOMAIN table : table[k] \in STRING
    OBVIOUS
  <2> QED BY <2>1 DEF LibName, Texts
<1>2. x.libNames \in Seq(Texts) /\ x.records \in Seq(Nat) /\ lib.records \in Seq(Nat)
  BY DEF XexData, ImportedLibs
<1> DEFINE names == IF LibName(table, lib) = "" THEN x.libNames
                    ELSE Append(x.libNames, LibName(table, lib))
           records == x.records \o lib.records
<1>3. names \in Seq(Texts) /\ records \in Seq(Nat)
  <2>1. Append(x.libNames, LibName(table, lib)) \in Seq(Texts)
    BY <1>1, <1>2
  <2>2. x.records \o lib.records \in Seq(Nat)
    BY <1>2
  <2> QED BY <1>2, <2>1, <2>2
<1>4. AddLibrary(x, table, lib) = [x EXCEPT !.libNames = names, !.records = records]
  BY DEF AddLibrary
<1> HIDE DEF names, records
<1>5. [x EXCEPT !.libNames = names, !.records = records] \in XexData
  BY <1>3 DEF XexData
<1>6. [x EXCEPT !.libNames = names, !.records = records].libNames = names
  BY DEF XexData
<1> QED BY <1>1, <1>4, <1>5, <1>6 DEF names

AddLibraries(x, table, libs) ==
  FoldLeft(LAMBDA y, lib : AddLibrary(y, table, lib), x, libs)

(* All libraries of an import header. *)
LEMMA AddLibrariesIs ==
  ASSUME NEW x \in XexData, NEW table \in Seq(STRING), NEW libs \in Seq(ImportedLibs)
  PROVE  /\ AddLibraries(x, table, libs) \in XexData
         /\ [j \in DOMAIN libs |-> LibName(table, libs[j])] \in Seq(Texts)
         /\ (\A j \in DOMAIN libs : LibName(table, libs[j]) # "") =>
              AddLibraries(x, table, libs).libNames =
                x.libNames \o [j \in DOMAIN libs |-> LibName(table, libs[j])]
<1> DEFINE n == Len(libs)
           V == XexData
           names == [j \in DOMAIN libs |-> LibName(table, libs[j])]
           h == [v \in V \X (1 .. n) |-> AddLibrary(v[1], table, libs[v[2]])]
           E(g) == g = [t \in SUBSET (1 .. n) |->
                          IF t = {} THEN x ELSE AddLibrary(g[t \ {Max(t)}], table, libs[Max(t)])]
           f == CHOOSE g : E(g)
<1>1. /\ n \in Nat /\ x \in V /\ DOMAIN libs = 1 .. n
      /\ \A k \in 1 .. n : libs[k] \in ImportedLibs
      /\ \A t \in SUBSET (1 .. n) : t # {} => Max(t) \in 1 .. n
  BY MaxOfSome
<1>2. ASSUME NEW v \in V, NEW k \in 1 .. n
      PROVE  h[<<v, k>>] = AddLibrary(v, table, libs[k]) /\ h[<<v, k>>] \in V
  <2>1. AddLibrary(v, table, libs[k]) \in V
    BY <1>1, AddLibraryIs
  <2> QED BY <2>1
<1> HIDE DEF h, V, n
<1>3. \E g : E(g)
  <2>1. PICK g \in [SUBSET (1 .. n) -> V] : FoldEquation(g, n, x, h)
    BY <1>1, <1>2, FoldExists DEF FoldDefined
  <2>2. E(g)
    BY <1>1, <1>2, <2>1 DEF FoldEquation
  <2> QED BY <2>2
<1>4. E(f)
  BY <1>3
<1>5. AddLibraries(x, table, libs) = f[1 .. n]
  BY <1>1 DEF AddLibraries, FoldLeft, MapThenFoldSet
<1> HIDE DEF f
<1>6. FoldsWith(f, n, V, x, h)
  BY <1>1, <1>2, <1>4 DEF FoldsWith
<1>7. PICK g : InTurnBy(g, n, V, x, h) /\ g[n] = f[1 .. n]
  BY <1>6, FoldInTurn
<1>8. /\ g \in [0 .. n -> V] /\ g[0] = x
      /\ \A k \in 1 .. n : g[k - 1] \in V /\ g[k] = AddLibrary(g[k - 1], table, libs[k])
  BY <1>1, <1>2, <1>7 DEF InTurnBy
<1>9. names \in Seq(Texts) /\ Len(names) = n /\ \A k \in 1 .. n : names[k] = LibName(table, libs[k])
  <2>1. \A k \in 1 .. n : LibName(table, libs[k]) \in Texts
    BY <1>1, AddLibraryIs DEF V
  <2> QED BY <1>1, <2>1
<1> HIDE DEF names
<1>10. ASSUME \A j \in DOMAIN libs : LibName(table, libs[j]) # ""
       PROVE  g[n].libNames = x.libNames \o names
  <2> DEFINE P(k) == g[k].libNames = x.libNames \o SubSeq(names, 1, k)
             T == {k \in Nat : k <= n => P(k)}
  <2>1. 0 \in T
    <3>1. x.libNames \in Seq(Texts) /\ SubSeq(names, 1, 0) = <<>>
      BY <1>1, <1>9 DEF V, XexData
    <3>2. x.libNames \o <<>> = x.libNames
      BY <3>1
    <3> QED BY <3>1, <3>2, <1>8
  <2>2. ASSUME NEW k \in Nat, k \in T PROVE k + 1 \in T
    <3> SUFFICES ASSUME k + 1 <= n PROVE P(k + 1)
      <4> HIDE DEF P
      <4> QED OBVIOUS
    <3>1. k + 1 \in 1 .. n /\ (k + 1) - 1 = k /\ k <= n
      BY <1>1
    <3>7. g[k].libNames = x.libNames \o SubSeq(names, 1, k)
      BY <2>2, <3>1
    <3>2. g[k] \in V /\ g[k + 1] = AddLibrary(g[k], table, libs[k + 1])
      <4>1. g[(k + 1) - 1] \in V /\ g[k + 1] = AddLibrary(g[(k + 1) - 1], table, libs[k + 1])
        BY <1>8, <3>1
      <4> QED BY <3>1, <4>1
    <3>3. g[k + 1].libNames = Append(g[k].libNames, names[k + 1])
      <4>1. libs[k + 1] \in ImportedLibs /\ LibName(table, libs[k + 1]) # ""
            /\ names[k + 1] = LibName(table, libs[k + 1])
        BY <1>1, <1>9, <1>10, <3>1
      <4> DEFINE v == g[k]
                 lib == libs[k + 1]
      <4>2. v \in XexData /\ lib \in ImportedLibs /\ LibName(table, lib) # ""
        BY <3>2, <4>1 DEF V
      <4> HIDE DEF v, lib
      <4>3. AddLibrary(v, table, lib).libNames = Append(v.libNames, LibName(table, lib))
        BY <4>2, AddLibraryIs
      <4> QED BY <3>2, <4>1, <4>3 DEF v, lib
    <3> DEFINE b == x.libNames
               s == SubSeq(names, 1, k)
               r == SubSeq(names, 1, k + 1)
    <3>4. /\ b \in Seq(Texts) /\ s \in Seq(Texts) /\ names[k + 1] \in Texts
          /\ r = Append(s, names[k + 1])
      BY <1>1, <1>9, <3>1 DEF V, XexData
    <3>5. g[k].libNames = b \o s
      BY <3>7
    <3> DEFINE e == names[k + 1]
    <3> HIDE DEF b, s, r, e
    <3>6. Append(b \o s, e) = b \o r
      <4>1. b \in Seq(Texts) /\ s \in Seq(Texts) /\ e \in Texts /\ r = Append(s, e)
        BY <3>4 DEF e
      <4> QED BY ONLY <4>1, AppendJoin
    <3> QED BY <3>3, <3>5, <3>6 DEF b, r, e
  <2>3. n \in T
    <3> HIDE DEF T
    <3>1. Nat \subseteq T
      BY <2>1, <2>2, Induction
    <3> QED BY <1>1, <3>1
  <2>4. SubSeq(names, 1, n) = names
    BY <1>1, <1>9
  <2>5. P(n)
    <3> HIDE DEF P
    <3> QED BY <1>1, <2>3
  <2> QED BY <2>4, <2>5
<1>11. g[n] \in V
  BY <1>1, <1>8
<1> QED BY <1>5, <1>7, <1>9, <1>10, <1>11 DEF V, names

(* What a header does to the data of the executable. *)
LEMMA ProcessedIs ==
  ASSUME NEW x \in XexData, NEW o \in OptionalHeaders
  PROVE  /\ Processed(x, o) \in XexData
         /\ NamesIn(o) \in Seq(Texts)
         /\ "" \notin ToSet(NamesIn(o)) => Processed(x, o).libNames = x.libNames \o NamesIn(o)
<1>1. CASE o.key = "imports"
  <2>1. o.table \in Seq(STRING) /\ o.libs \in Seq(ImportedLibs)
    BY <1>1 DEF OptionalHeaders, ImportedLibs
  <2>2. Processed(x, o) = AddLibraries(x, o.table, o.libs)
    BY <1>1 DEF Processed, AddLibraries
  <2>3. NamesIn(o) = [j \in DOMAIN o.libs |-> LibName(o.table, o.libs[j])]
    BY <1>1 DEF NamesIn
  <2>4. "" \notin ToSet(NamesIn(o)) => \A j \in DOMAIN o.libs : LibName(o.table, o.libs[j]) # ""
    BY <2>3 DEF ToSet
  <2> QED BY <2>1, <2>2, <2>3, <2>4, AddLibrariesIs
<1>2. CASE o.key # "imports"
  <2>1. NamesIn(o) = <<>> /\ x.libNames \in Seq(Texts) /\ x.libNames \o <<>> = x.libNames
    BY <1>2 DEF NamesIn, XexData
  <2>2. Processed(x, o) \in XexData /\ Processed(x, o).libNames = x.libNames
    <3>1. CASE o.key = "base"
      <4>1. o.value \in Nat /\ Processed(x, o) = [x EXCEPT !.base = o.value]
        BY <3>1 DEF Processed, OptionalHeaders
      <4> QED BY <4>1 DEF XexData
    <3>2. CASE o.key = "entry"
      <4>1. o.value \in Nat /\ Processed(x, o) = [x EXCEPT !.entry = o.value]
        BY <3>2 DEF Processed, OptionalHeaders
      <4> QED BY <4>1 DEF XexData
    <3>3. CASE o.key = "execution"
      <4>1. o.title \in Nat /\ Processed(x, o) = [x EXCEPT !.title = o.title]
        BY <3>3 DEF Processed, OptionalHeaders
      <4> QED BY <4>1 DEF XexData
    <3>4. CASE o.key = "format"
      <4> DEFINE b == IF o.compression = "basic" THEN o.blocks ELSE x.blocks
      <4>1. o.encrypted \in BOOLEAN /\ o.compression \in {"none", "basic", "normal", "delta"}
            /\ b \in Seq(BasicBlocks)
        BY <3>4 DEF OptionalHeaders, XexData, BasicBlocks
      <4>2. Processed(x, o) = [x EXCEPT !.encrypted = o.encrypted, !.compression = o.compression,
                                        !.blocks = b]
        BY <3>4 DEF Processed
      <4> HIDE DEF b
      <4> QED BY <4>1, <4>2 DEF XexData
    <3>5. CASE o.key \in {"resources", "other"}
      <4>1. Processed(x, o) = x
        BY <3>5 DEF Processed
      <4> QED BY <4>1
    <3>6. o.key \in {"base", "entry", "execution", "format", "imports", "resources", "other"}
      BY DEF OptionalHeaders
    <3> QED BY <1>2, <3>1, <3>2, <3>3, <3>4, <3>5, <3>6
  <2> QED BY <2>1, <2>2
<1> QED BY <1>1, <1>2

-----------------------------------------------------------------------------
(* The inductive invariant.                                                *)
Steps == {"open", "headers", "image", "blocks", "pe", "patch", "loaded", "runtime", "booted",
          "failed", "dead"}

(* Where the file has been opened, the image been read, and its PE header. *)
Opened == Steps \ {"open", "failed", "dead"}

Read == {"patch", "loaded", "runtime", "booted"}

ImportRecords == [type : {"variable", "function"}, name : STRING, addr : Nat]

Typed ==
  /\ pc \in Steps /\ at \in Nat \ {0}
  /\ file \in Files \cup {NoFile}
  /\ pc \in Opened => file \in Files /\ file.magic
  /\ xex \in XexData
  /\ memory \in Seq(Cells) /\ ivec \in Nat
  /\ sections \in Seq(SectionHeaders)
  /\ imports \in Seq(ImportRecords)

(* The names kept are those of the libraries of the headers processed.     *)
NamesOfHeaders == [k \in DOMAIN Opts |-> NamesIn(Opts[k])]

Named ==
  /\ pc = "open" => xex.libNames = <<>>
  /\ pc = "headers" => at <= Len(Opts) + 1
  /\ pc \in Opened /\ "" \notin ToSet(Libraries) =>
       /\ pc = "headers" => xex.libNames = FlattenSeq(SubSeq(NamesOfHeaders, 1, at - 1))
       /\ pc \in Opened \ {"headers"} => xex.libNames = Libraries

(* What a cell of the source is decrypted to when the chain is not broken. *)
RightKey == ~ xex.encrypted \/ xex.devkit = file.devkit

Plain(k) == IF k \in DOMAIN file.source /\ RightKey THEN file.source[k] ELSE Junk

(* The first n blocks have been copied, and behind them nothing yet.       *)
CopiedTo(n) ==
  /\ \A m \in 1 .. n : \A k \in 1 .. xex.blocks[m].data + xex.blocks[m].zero :
       memory[Off(xex.blocks, m - 1) + k] =
         IF k <= xex.blocks[m].data THEN Plain(Con(xex.blocks, m - 1) + k) ELSE Zero
  /\ \A p \in DOMAIN memory : p > Off(xex.blocks, n) => memory[p] = Zero

CopiedBlocks(n) == Len(memory) = SizeOf(xex.blocks) /\ (AddsUp => CopiedTo(n))

Copying ==
  /\ pc \in {"open", "headers", "image"} => ivec = 1
  /\ pc = "blocks" => /\ at <= Len(xex.blocks) + 1
                      /\ ivec = Con(xex.blocks, at - 1) + 1
                      /\ CopiedBlocks(at - 1)
  /\ pc = "pe" => /\ CopiedBlocks(Len(xex.blocks))
                  /\ AddsUp => Consumed(xex.blocks) <= Len(file.source)
  /\ ImageAsDescribed
  /\ SectionsInside

(* An import is an entry of the library that its record counts. *)
Recorded(i) ==
  LET word == WordAt(i.addr - xex.base) IN
  /\ i.addr \in ToSet(xex.records) /\ i.addr - xex.base + 1 \in DOMAIN memory
  /\ ~ Skipped(word)
  /\ i.type = IF word.type = 0 THEN "variable" ELSE "function"
  /\ \E e \in Found(NameOf(word), word.ordinal) : e.name = i.name

(* No record that has been passed is left out. *)
Taken(r) == Skipped(WordAt(r - xex.base)) \/ \E i \in ToSet(imports) : i.addr = r

Imported ==
  /\ pc \notin Read \cup {"failed", "dead"} => imports = <<>>
  /\ pc \in Read => \A i \in ToSet(imports) : Recorded(i)
  /\ pc \in Read => \A k \in 1 .. Len(xex.records) :
                      (pc = "patch" => k < at) => Taken(xex.records[k])

MetaData ==
  Header(Lonely)
    \o FlattenSeq([k \in DOMAIN Lonely |-> VariableFields(Lonely[k])])
    \o FlattenSeq([k \in DOMAIN sections |-> SectionFields(sections[k])])

Exported == /\ pc = "runtime" => md = MetaData
            /\ MetadataSurvives

IInv == Typed /\ Named /\ Copying /\ Imported /\ Exported

(* The invariant holds before the file is opened. *)
LEMMA InitHolds == Init => IInv
<1> SUFFICES ASSUME Init PROVE IInv
  OBVIOUS
<1> USE DEF Init
<1>1. Typed
  <2>1. xex \in XexData
    BY DEF XexData
  <2> QED BY <2>1 DEF Typed, Steps, Opened
<1>2. Named
  BY DEF Named, Opened, Steps
<1>3. Copying
  BY DEF Copying, ImageAsDescribed, SectionsInside
<1>4. Imported
  BY DEF Imported, Read
<1>5. Exported
  BY DEF Exported, MetadataSurvives
<1> QED BY <1>1, <1>2, <1>3, <1>4, <1>5 DEF IInv

(* Where the loader fails or the program ends nothing is left to keep. *)
LEMMA Stopped ==
  ASSUME IInv, pc' \in {"failed", "dead"}, at' \in Nat \ {0}, file' = file, xex' \in XexData,
         memory' \in Seq(Cells), ivec' \in Nat, sections' \in Seq(SectionHeaders),
         imports' \in Seq(ImportRecords)
  PROVE  IInv'
<1>1. Typed'
  BY DEF IInv, Typed, Steps, Opened
<1>2. Named'
  BY DEF Named, Opened, Steps
<1>3. Copying'
  BY DEF Copying, ImageAsDescribed, SectionsInside
<1>4. Imported'
  BY DEF Imported, Read
<1>5. Exported'
  BY DEF Exported, MetadataSurvives
<1> QED BY <1>1, <1>2, <1>3, <1>4, <1>5 DEF IInv

(* The headers of a file that was opened, and the names in them. *)
LEMMA OptsAre ==
  ASSUME IInv, pc \in Opened
  PROVE  /\ file.source \in Seq(Contents) /\ file.pe.sections \in Seq(SectionHeaders)
         /\ file.head \in Nat
         /\ Opts \in Seq(OptionalHeaders)
         /\ NamesOfHeaders \in Seq(Seq(Texts)) /\ Len(NamesOfHeaders) = Len(Opts)
         /\ \A k \in 1 .. Len(Opts) : NamesOfHeaders[k] = NamesIn(Opts[k])
<1>1. file.opts \in Seq(OptionalHeaders) /\ file.source \in Seq(Contents)
      /\ file.pe.sections \in Seq(SectionHeaders) /\ file.head \in Nat
  BY FileAssumption DEF IInv, Typed
<1>2. Opts \in Seq(OptionalHeaders)
  BY <1>1, KeptIs DEF Opts
<1>3. DOMAIN Opts = 1 .. Len(Opts) /\ Len(Opts) \in Nat
      /\ \A k \in 1 .. Len(Opts) : Opts[k] \in OptionalHeaders
  BY <1>2
<1>4. {} # XexData
  BY DEF IInv, Typed
<1>5. \A o \in OptionalHeaders : NamesIn(o) \in Seq(Texts)
  BY <1>4, ProcessedIs DEF IInv, Typed
<1>6. NamesOfHeaders = [k \in 1 .. Len(Opts) |-> NamesIn(Opts[k])]
  BY <1>3 DEF NamesOfHeaders
<1> HIDE DEF NamesOfHeaders
<1> QED BY <1>1, <1>2, <1>3, <1>5, <1>6

(* They are a matter of the file. *)
LEMMA FileSame ==
  ASSUME file' = file
  PROVE  Opts' = Opts /\ NamesOfHeaders' = NamesOfHeaders /\ Libraries' = Libraries
<1>1. Opts' = Opts
  BY DEF Opts
<1> QED BY <1>1 DEF NamesOfHeaders, Libraries

(* LoadXex reads the magic number. *)
LEMMA OpenFileStep ==
  ASSUME IInv, OpenFile, file' = file
  PROVE  IInv'
<1> USE DEF OpenFile, Go, loaded
<1>1. CASE file # NoFile /\ file.magic
  <2>1. Typed'
    BY <1>1 DEF IInv, Typed, Opened, Steps
  <2>2. Named'
    <3>1. pc' = "headers" /\ pc' \in Opened /\ at' = 1 /\ xex' = xex /\ xex.libNames = <<>>
      BY <1>1 DEF IInv, Named, Opened, Steps
    <3>2. FlattenSeq(SubSeq(NamesOfHeaders', 1, 1 - 1)) = <<>>
      <4>1. SubSeq(NamesOfHeaders', 1, 1 - 1) = <<>>
        OBVIOUS
      <4> QED BY <4>1 DEF FlattenSeq
    <3>3. 1 <= Len(Opts') + 1
      <4>1. Opts' \in Seq(OptionalHeaders)
        <5>1. file.opts \in Seq(OptionalHeaders)
          BY <1>1, FileAssumption DEF IInv, Typed
        <5> QED BY <5>1, KeptIs, FileSame DEF Opts
      <4> QED BY <4>1
    <3> QED BY <3>1, <3>2, <3>3 DEF Named
  <2>3. Copying'
    BY <1>1 DEF IInv, Copying, ImageAsDescribed, SectionsInside
  <2>4. Imported'
    BY <1>1 DEF IInv, Imported, Read
  <2>5. Exported'
    BY <1>1 DEF Exported, MetadataSurvives
  <2> QED BY <2>1, <2>2, <2>3, <2>4, <2>5 DEF IInv
<1>2. CASE ~ (file # NoFile /\ file.magic)
  <2>1. pc' = "failed" /\ at' = 1 /\ UNCHANGED loaded
    BY <1>2
  <2> QED BY <2>1, Stopped DEF IInv, Typed
<1> QED BY <1>1, <1>2


(* An element of a sequence, and of the set of its elements. *)
LEMMA ElementOf ==
  ASSUME NEW S, NEW s \in Seq(S)
  PROVE  /\ DOMAIN s = 1 .. Len(s)
         /\ \A k \in 1 .. Len(s) : s[k] \in S /\ s[k] \in ToSet(s)
         /\ \A e \in ToSet(s) : e \in S /\ \E k \in 1 .. Len(s) : e = s[k]
BY DEF ToSet

(* Where no name among all is empty none of a single header is. *)
LEMMA NoneEmpty ==
  ASSUME IInv, pc \in Opened, "" \notin ToSet(Libraries), NEW k \in 1 .. Len(Opts)
  PROVE  "" \notin ToSet(NamesIn(Opts[k]))
<1> DEFINE ss == NamesOfHeaders
<1>1. ss \in Seq(Seq(Texts)) /\ Len(ss) = Len(Opts) /\ ss[k] = NamesIn(Opts[k]) /\ k \in 1 .. Len(ss)
  BY OptsAre
<1>2. Libraries = FlattenSeq(ss)
  BY DEF Libraries, NamesOfHeaders
<1> HIDE DEF ss
<1>3. FlattenSeq(ss) \in Seq(Texts)
  BY <1>1, FlattenAt
<1>4. PICK o : Stands(o, Len(ss), ss)
  BY <1>1, FlattenAt
<1>5. \A j \in 1 .. Len(ss[k]) : FlattenSeq(ss)[o[k - 1] + j] = ss[k][j]
                                 /\ o[k - 1] + j \in 1 .. Len(FlattenSeq(ss))
  BY <1>1, <1>4 DEF Stands
<1>6. ss[k] \in Seq(Texts)
  BY <1>1, ElementOf
<1>7. ASSUME NEW j \in 1 .. Len(ss[k]) PROVE ss[k][j] # ""
  <2>1. FlattenSeq(ss)[o[k - 1] + j] \in ToSet(FlattenSeq(ss))
    BY <1>3, <1>5, ElementOf
  <2> QED BY <1>2, <1>5, <2>1
<1>8. \A e \in ToSet(ss[k]) : \E j \in 1 .. Len(ss[k]) : e = ss[k][j]
  BY ONLY <1>6, ElementOf
<1> QED BY <1>1, <1>7, <1>8

(* LoadHeaders processes one optional header; the names of its libraries are *)
(* those kept next.                                                        *)
LEMMA ProcessHeaderStep ==
  ASSUME IInv, ProcessHeader, file' = file
  PROVE  IInv'
<1> USE DEF Go, loaded
<1>1. CASE Opts[at].short /\ Fail
  BY <1>1, Stopped DEF IInv, Typed, Fail
<1>2. CASE Overruns(Opts[at]) /\ Go("dead") /\ UNCHANGED loaded
  BY <1>2, Stopped DEF IInv, Typed
<1>3. CASE /\ xex' = Processed(xex, Opts[at]) /\ at' = at + 1
           /\ UNCHANGED <<pc, memory, ivec, sections, imports>>
  <2>1. pc = "headers" /\ pc \in Opened /\ at \in 1 .. Len(Opts) /\ at' = at + 1 /\ pc' = pc
    <3>1. Opts \in Seq(OptionalHeaders) /\ pc = "headers" /\ at <= Len(Opts)
      BY OptsAre DEF ProcessHeader, Opened, Steps
    <3> QED BY <3>1, <1>3 DEF IInv, Typed, Opened, Steps
  <2>2. Opts[at] \in OptionalHeaders /\ NamesOfHeaders \in Seq(Seq(Texts))
        /\ Len(NamesOfHeaders) = Len(Opts) /\ NamesOfHeaders[at] = NamesIn(Opts[at])
    BY <2>1, OptsAre
  <2>3. xex \in XexData
    BY DEF IInv, Typed
  <2>4. xex' \in XexData
        /\ ("" \notin ToSet(NamesIn(Opts[at])) => xex'.libNames = xex.libNames \o NamesIn(Opts[at]))
    BY <1>3, <2>2, <2>3, ProcessedIs
  <2>5. Typed'
    <3>1. at + 1 \in Nat \ {0}
      BY <2>1
    <3> QED BY <1>3, <2>1, <2>4, <3>1 DEF IInv, Typed
  <2>6. Named'
    <3>1. at + 1 <= Len(Opts) + 1
      BY <2>1, OptsAre
    <3>2. ASSUME "" \notin ToSet(Libraries)
          PROVE  xex'.libNames = FlattenSeq(SubSeq(NamesOfHeaders, 1, (at + 1) - 1))
      <4>1. xex.libNames = FlattenSeq(SubSeq(NamesOfHeaders, 1, at - 1))
        BY <2>1, <3>2 DEF IInv, Named
      <4>2. xex'.libNames = xex.libNames \o NamesOfHeaders[at]
        BY <2>1, <2>2, <2>4, <3>2, NoneEmpty
      <4>3. FlattenSeq(SubSeq(NamesOfHeaders, 1, at))
              = FlattenSeq(SubSeq(NamesOfHeaders, 1, at - 1)) \o NamesOfHeaders[at]
        BY <2>1, <2>2, FlattenNext
      <4>4. (at + 1) - 1 = at
        BY <2>1
      <4> QED BY <4>1, <4>2, <4>3, <4>4
    <3> QED BY <2>1, <3>1, <3>2, FileSame DEF Named, Opened
  <2>7. Copying'
    BY <1>3, <2>1 DEF IInv, Copying, ImageAsDescribed, SectionsInside
  <2>8. Imported'
    BY <1>3, <2>1 DEF IInv, Imported, Read
  <2>9. Exported'
    BY <1>3, <2>1 DEF Exported, MetadataSurvives
  <2> QED BY <2>5, <2>6, <2>7, <2>8, <2>9 DEF IInv
<1> QED BY <1>1, <1>2, <1>3 DEF ProcessHeader


(* The certificate has been read: the names are those of all libraries. *)
LEMMA FinishHeadersStep ==
  ASSUME IInv, FinishHeaders, file' = file
  PROVE  IInv'
<1> USE DEF Go, loaded
<1>1. CASE ~ file.cert
  BY <1>1, Stopped DEF IInv, Typed, Fail, FinishHeaders
<1>2. CASE file.cert
  <2>1. /\ pc = "headers" /\ pc' = "image" /\ at' = 1
        /\ xex' = [xex EXCEPT !.devkit = (xex.title = 0)]
        /\ memory' = memory /\ ivec' = ivec /\ sections' = sections /\ imports' = imports
    BY <1>2 DEF FinishHeaders
  <2>2. pc \in Opened /\ pc' \in Opened /\ at > Len(Opts)
    BY <2>1 DEF Opened, Steps, FinishHeaders
  <2>3. xex' \in XexData /\ xex'.libNames = xex.libNames
    BY <2>1 DEF IInv, Typed, XexData
  <2>4. Typed'
    BY <2>1, <2>2, <2>3 DEF IInv, Typed, Opened, Steps
  <2>5. Named'
    <3>1. ASSUME "" \notin ToSet(Libraries) PROVE xex'.libNames = Libraries
      <4>1. xex.libNames = FlattenSeq(SubSeq(NamesOfHeaders, 1, at - 1)) /\ at <= Len(Opts) + 1
        BY <2>1, <2>2, <3>1 DEF IInv, Named
      <4>2. Len(Opts) \in Nat /\ at \in Nat
        BY <2>2, OptsAre DEF IInv, Typed
      <4>3. at - 1 = Len(Opts)
        BY <2>2, <4>1, <4>2
      <4>4. NamesOfHeaders \in Seq(Seq(Texts)) /\ Len(NamesOfHeaders) = Len(Opts)
        BY <2>2, OptsAre
      <4>5. SubSeq(NamesOfHeaders, 1, Len(Opts)) = NamesOfHeaders
        BY <4>4
      <4>6. Libraries = FlattenSeq(NamesOfHeaders)
        BY DEF Libraries, NamesOfHeaders
      <4> QED BY <2>3, <4>1, <4>3, <4>5, <4>6
    <3> QED BY <2>1, <2>2, <3>1, FileSame DEF Named
  <2>6. Copying'
    BY <2>1 DEF IInv, Copying, ImageAsDescribed, SectionsInside
  <2>7. Imported'
    BY <2>1 DEF IInv, Imported, Read
  <2>8. Exported'
    BY <2>1 DEF Exported, MetadataSurvives
  <2> QED BY <2>4, <2>5, <2>6, <2>7, <2>8 DEF IInv
<1> QED BY <1>1, <1>2

(* What a step has to show of the names, which it leaves as they are. *)
LEMMA NamedKept ==
  ASSUME IInv, file' = file, pc \in Opened \ {"headers"}, pc' \in Opened \ {"headers"},
         xex' = xex
  PROVE  Named'
BY FileSame DEF IInv, Named, Opened, Steps

(* LoadImageDataBasic allocates the image, all zeros. *)
LEMMA StartImageStep ==
  ASSUME IInv, StartImage, file' = file
  PROVE  IInv'
<1> USE DEF Go, loaded
<1>1. CASE ~ (xex.compression \in {"none", "basic"} /\ SizeOf(xex.blocks) < MaxImage)
  BY <1>1, Stopped DEF IInv, Typed, Fail, StartImage
<1>2. CASE xex.compression \in {"none", "basic"} /\ SizeOf(xex.blocks) < MaxImage
  <2>1. /\ pc = "image" /\ pc' = "blocks" /\ at' = 1 /\ xex' = xex /\ ivec' = ivec
        /\ memory' = [k \in 1 .. SizeOf(xex.blocks) |-> Zero]
        /\ sections' = sections /\ imports' = imports
    BY <1>2 DEF StartImage
  <2>2. xex.blocks \in Seq(BasicBlocks)
    BY DEF IInv, Typed, XexData
  <2>3. /\ SizeOf(xex.blocks) \in Nat /\ Len(xex.blocks) \in Nat
        /\ Off(xex.blocks, 0) = 0 /\ Con(xex.blocks, 0) = 0
    <3>1. Len(xex.blocks) \in Nat /\ Len(xex.blocks) \in 0 .. Len(xex.blocks)
      BY <2>2
    <3> QED BY <2>2, <3>1, OffNext, PlacedIs
  <2> DEFINE n == SizeOf(xex.blocks)
  <2> HIDE DEF n
  <2>4. memory' \in Seq(Cells) /\ Len(memory') = n /\ DOMAIN memory' = 1 .. n
        /\ \A p \in 1 .. n : memory'[p] = Zero
    <3>1. memory' = [k \in 1 .. n |-> Zero] /\ n \in Nat
      BY <2>1, <2>3 DEF n
    <3> QED BY <3>1 DEF Cells, Contents
  <2>5. Typed'
    BY <2>1, <2>4 DEF IInv, Typed, Opened, Steps
  <2>6. Named'
    BY <2>1, NamedKept DEF Opened, Steps
  <2>7. Copying'
    <3>1. (CopiedBlocks(0))'
      <4>1. Len(memory') = SizeOf(xex'.blocks)
        BY <2>1, <2>4 DEF n
      <4>2. \A p \in DOMAIN memory' : memory'[p] = Zero
        BY <2>4
      <4>3. ~ \E m \in 1 .. 0 : TRUE
        OBVIOUS
      <4> QED BY <4>1, <4>2, <4>3 DEF CopiedBlocks, CopiedTo
    <3>2. 1 <= Len(xex.blocks) + 1 /\ ivec = Con(xex.blocks, 0) + 1
      BY <2>1, <2>3 DEF IInv, Copying
    <3>3. at' - 1 = 0
      BY <2>1
    <3> QED BY <2>1, <3>1, <3>2, <3>3 DEF Copying, ImageAsDescribed, SectionsInside
  <2>8. Imported'
    BY <2>1 DEF IInv, Imported, Read
  <2>9. Exported'
    BY <2>1 DEF Exported, MetadataSurvives
  <2> QED BY <2>5, <2>6, <2>7, <2>8, <2>9 DEF IInv
<1> QED BY <1>1, <1>2


(* While the chain is not broken a cell is what the source holds. *)
LEMMA PlainIs ==
  ASSUME IInv, pc \in Opened
  PROVE  /\ \A k, e : Decrypted(k, e) \in Cells
         /\ \A k \in Int : Decrypted(k, k) = Plain(k)
<1>1. file.source \in Seq(Contents)
  BY OptsAre
<1>2. \A k : Stored(k) \in Cells
  BY <1>1, StoredIsCell
<1>3. \A k \in DOMAIN file.source : file.source[k] \in Cells
  BY <1>1 DEF Cells
<1>4. Junk \in Cells
  BY DEF Cells, Contents
<1>5. \A k, e : Decrypted(k, e) \in Cells
  BY <1>2, <1>3, <1>4 DEF Decrypted
<1>6. \A k \in Int : Decrypted(k, k) = Plain(k)
  BY DEF Plain, Decrypted, RightKey, Stored
<1> QED BY <1>5, <1>6

(* A step of CopyBlock that does not end the program. *)
Copies(dest, first) ==
  LET n == xex.blocks[at].data IN
  /\ pc' = pc /\ at' = at + 1 /\ xex' = xex /\ sections' = sections /\ imports' = imports
  /\ memory' = [p \in DOMAIN memory |->
                  IF p \in dest + 1 .. dest + n
                  THEN Decrypted(first + p - dest - 1, Chain(first, first + p - dest - 1))
                  ELSE memory[p]]
  /\ ivec' = IF n = 0 THEN ivec ELSE first + n

(* What it is for the sizes of the blocks to add up. *)
LEMMA AddsUpIs ==
  ASSUME IInv, pc \in Opened, AddsUp
  PROVE  /\ Described(xex.blocks) < Wrap
         /\ SizeOf(xex.blocks) = Described(xex.blocks)
         /\ Consumed(xex.blocks) <= Described(xex.blocks)
         /\ (file.head + Consumed(xex.blocks)) % Wrap = file.head + Consumed(xex.blocks)
<1> DEFINE b == xex.blocks
<1>1. b \in Seq(BasicBlocks) /\ Len(b) \in 0 .. Len(b)
  BY DEF IInv, Typed, XexData
<1>2. /\ Described(b) \in Nat /\ Consumed(b) \in Nat /\ file.head \in Nat
      /\ Wrap \in Nat
  BY <1>1, OffNext, OptsAre, WrapAssumption
<1>3. Consumed(b) <= Described(b)
  BY <1>1, ConsumedFits
<1>4. file.head + Described(b) < Wrap
  BY DEF AddsUp
<1> HIDE DEF b
<1>5. Described(b) < Wrap /\ file.head + Consumed(b) \in Nat /\ file.head + Consumed(b) < Wrap
  BY <1>2, <1>3, <1>4
<1>6. SizeOf(b) = Described(b)
  BY <1>1, <1>5, PlacedIs
<1> QED BY <1>3, <1>5, <1>6, WrapIs DEF b

(* A block is copied to where the blocks before it end, when they add up.  *)
LEMMA CopiedBlock ==
  ASSUME IInv, CopyBlock, pc' # "dead",
         NEW d, d = Off(xex.blocks, at - 1), NEW c, c = Con(xex.blocks, at - 1)
  PROVE  /\ Copies(Placed(SubSeq(xex.blocks, 1, at - 1)), c + 1)
         /\ AddsUp =>
              memory' = [p \in DOMAIN memory |->
                           IF p \in d + 1 .. d + xex.blocks[at].data
                           THEN Plain(c + (p - d)) ELSE memory[p]]
         /\ ivec' = c + xex.blocks[at].data + 1
<1> DEFINE b == xex.blocks
           n == b[at].data
<1>1. pc = "blocks" /\ pc \in Opened /\ at <= Len(b) /\ at \in Nat \ {0} /\ b \in Seq(BasicBlocks)
  BY DEF CopyBlock, Opened, Steps, IInv, Typed, XexData
<1>2. at \in 1 .. Len(b) /\ at - 1 \in 0 .. Len(b)
  BY <1>1
<1>3. d \in Nat /\ c \in Nat /\ n \in Nat
  BY <1>1, <1>2, OffNext
<1>4. ivec = c + 1
  BY <1>1 DEF IInv, Copying
<1>5. Consumed(SubSeq(b, 1, at - 1)) = c
  BY DEF Con
<1>6. Copies(Placed(SubSeq(b, 1, at - 1)), c + 1)
  BY <1>5 DEF CopyBlock, Copies, Go
<1>7. AddsUp => Placed(SubSeq(b, 1, at - 1)) = d
  <2> SUFFICES ASSUME AddsUp PROVE Placed(SubSeq(b, 1, at - 1)) = d
    OBVIOUS
  <2>1. Described(b) < Wrap
    BY <1>1, AddsUpIs
  <2> QED BY <1>1, <1>2, <2>1, PlacedIs
<1> HIDE DEF n
<1>8. ASSUME NEW p \in d + 1 .. d + n
      PROVE  Decrypted((c + 1) + p - d - 1, Chain(c + 1, (c + 1) + p - d - 1)) = Plain(c + (p - d))
  <2>1. (c + 1) + p - d - 1 = c + (p - d) /\ c + (p - d) \in Int
    BY <1>3
  <2>2. Chain(c + 1, c + (p - d)) = c + (p - d)
    BY <1>4 DEF Chain
  <2> QED BY <1>1, <2>1, <2>2, PlainIs
<1>9. ASSUME AddsUp
      PROVE  memory' = [p \in DOMAIN memory |->
                          IF p \in d + 1 .. d + n THEN Plain(c + (p - d)) ELSE memory[p]]
  <2>1. memory' = [p \in DOMAIN memory |->
                     IF p \in d + 1 .. d + n
                     THEN Decrypted((c + 1) + p - d - 1, Chain(c + 1, (c + 1) + p - d - 1))
                     ELSE memory[p]]
    BY <1>6, <1>7, <1>9 DEF Copies, n
  <2> QED BY <1>8, <2>1
<1>10. ivec' = c + n + 1
  <2>1. ivec' = IF n = 0 THEN ivec ELSE (c + 1) + n
    BY <1>6 DEF Copies, n
  <2> QED BY <1>3, <1>4, <2>1
<1> QED BY <1>6, <1>9, <1>10 DEF n

(* One block more has been copied, at its place and with the chain unbroken. *)
LEMMA BlockCopiedStep ==
  ASSUME IInv, CopyBlock, pc' # "dead", file' = file
  PROVE  IInv'
<1> DEFINE b == xex.blocks
           d == Off(b, at - 1)
           c == Con(b, at - 1)
           n == b[at].data
           z == b[at].zero
           e == Placed(SubSeq(b, 1, at - 1))
<1>1. /\ pc = "blocks" /\ pc' = pc /\ pc \in Opened /\ at <= Len(b) /\ at \in Nat \ {0}
      /\ at' = at + 1 /\ xex' = xex /\ sections' = sections /\ imports' = imports
      /\ b \in Seq(BasicBlocks) /\ memory \in Seq(Cells)
  BY CopiedBlock DEF Copies, CopyBlock, Opened, Steps, IInv, Typed, XexData
<1>2. at \in 1 .. Len(b) /\ at - 1 \in 0 .. Len(b) /\ at \in 0 .. Len(b) /\ at' - 1 = at
  BY <1>1
<1>3. /\ d \in Nat /\ c \in Nat /\ n \in Nat /\ z \in Nat
      /\ Off(b, at) = d + n + z /\ Con(b, at) = c + n
  BY <1>1, <1>2, OffNext
<1>4. AddsUp =>
        memory' = [p \in DOMAIN memory |-> IF p \in d + 1 .. d + n THEN Plain(c + (p - d)) ELSE memory[p]]
  BY CopiedBlock
<1>5. ivec' = c + n + 1
  BY CopiedBlock
<1>6. CopiedBlocks(at - 1) /\ DOMAIN memory = 1 .. Len(memory) /\ Len(memory) \in Nat
  BY <1>1 DEF IInv, Copying
<1>a. Len(memory) = SizeOf(b)
  BY <1>6 DEF CopiedBlocks
<1> HIDE DEF d, c, n, z, e
<1>7. memory' \in Seq(Cells) /\ DOMAIN memory' = DOMAIN memory /\ Len(memory') = Len(memory)
  <2>1. \A p \in 1 .. Len(memory) : memory[p] \in Cells
    BY <1>1
  <2>2. memory' = [p \in 1 .. Len(memory) |->
                     IF p \in e + 1 .. e + n
                     THEN Decrypted((c + 1) + p - e - 1, Chain(c + 1, (c + 1) + p - e - 1))
                     ELSE memory[p]]
    <3>1. Copies(e, c + 1)
      BY CopiedBlock DEF c, e
    <3> QED BY <1>6, <3>1 DEF Copies, n
  <2>3. \A p \in 1 .. Len(memory) :
          Decrypted((c + 1) + p - e - 1, Chain(c + 1, (c + 1) + p - e - 1)) \in Cells
    BY <1>1, PlainIs
  <2>4. memory' \in [1 .. Len(memory) -> Cells]
    BY <2>1, <2>2, <2>3
  <2> QED BY <1>6, <2>4
<1>8. Typed'
  BY <1>1, <1>3, <1>5, <1>7 DEF IInv, Typed
<1>9. Named'
  BY <1>1, NamedKept
<1>10. Copying'
  <2>1. ASSUME AddsUp
        PROVE  /\ \A m \in 1 .. at : \A k \in 1 .. b[m].data + b[m].zero :
                    memory'[Off(b, m - 1) + k] =
                      IF k <= b[m].data THEN Plain(Con(b, m - 1) + k) ELSE Zero
               /\ \A p \in DOMAIN memory' : p > Off(b, at) => memory'[p] = Zero
    <3>a. /\ \A m \in 1 .. at - 1 : \A k \in 1 .. b[m].data + b[m].zero :
               memory[Off(b, m - 1) + k] =
                 IF k <= b[m].data THEN Plain(Con(b, m - 1) + k) ELSE Zero
          /\ \A p \in DOMAIN memory : p > d => memory[p] = Zero
      BY <1>6, <2>1 DEF CopiedBlocks, CopiedTo, d
    <3>b. \A p \in DOMAIN memory :
            memory'[p] = IF p \in d + 1 .. d + n THEN Plain(c + (p - d)) ELSE memory[p]
      BY <1>4, <2>1
    <3>c. Len(memory) = Described(b)
      BY <1>1, <1>a, <2>1, AddsUpIs
    <3>1. ASSUME NEW m \in 1 .. at, NEW k \in 1 .. b[m].data + b[m].zero
          PROVE  memory'[Off(b, m - 1) + k] =
                   IF k <= b[m].data THEN Plain(Con(b, m - 1) + k) ELSE Zero
      <4>1. m \in 1 .. Len(b) /\ m - 1 \in 0 .. Len(b) /\ m \in 0 .. Len(b)
        BY <1>1
      <4>2. /\ Off(b, m - 1) \in Nat /\ Off(b, m) = Off(b, m - 1) + b[m].data + b[m].zero
            /\ b[m].data \in Nat /\ b[m].zero \in Nat
        BY <1>1, <4>1, OffNext
      <4>3. Off(b, m) <= Len(memory)
        <5>1. Len(b) \in m .. Len(b)
          BY <1>1, <4>1
        <5> QED BY <1>1, <3>c, <4>1, <5>1, OffGrows, OffNext
      <4>4. Off(b, m - 1) + k \in DOMAIN memory /\ Off(b, m - 1) + k <= Off(b, m)
        BY <1>6, <4>2, <4>3
      <4>5. CASE m < at
        <5>1. m \in 1 .. at - 1 /\ at - 1 \in m .. Len(b)
          BY <1>1, <4>1, <4>5
        <5>2. Off(b, m) <= d
          BY <1>1, <4>1, <5>1, OffGrows DEF d
        <5>3. Off(b, m - 1) + k \notin d + 1 .. d + n
          BY <1>3, <4>2, <4>4, <5>2
        <5>4. memory'[Off(b, m - 1) + k] = memory[Off(b, m - 1) + k]
          BY <3>b, <4>4, <5>3
        <5> QED BY <3>a, <5>1, <5>4
      <4>6. CASE m = at
        <5>1. Off(b, m - 1) = d /\ Con(b, m - 1) = c /\ b[m].data = n /\ b[m].zero = z
          BY <4>6 DEF d, c, n, z
        <5>2. CASE k <= n
          <6>1. d + k \in d + 1 .. d + n /\ (d + k) - d = k
            BY <1>3, <5>1, <5>2
          <6>2. memory'[d + k] = Plain(c + k)
            BY <3>b, <4>4, <5>1, <6>1
          <6> QED BY <5>1, <5>2, <6>2
        <5>3. CASE k > n
          <6>1. d + k \notin d + 1 .. d + n /\ d + k > d /\ ~ (k <= n)
            BY <1>3, <5>1, <5>3
          <6>2. memory'[d + k] = memory[d + k] /\ d + k \in DOMAIN memory
            BY <3>b, <4>4, <5>1, <6>1
          <6>3. memory[d + k] = Zero
            BY <3>a, <6>1, <6>2
          <6> QED BY <5>1, <6>1, <6>2, <6>3
        <5> QED BY <1>3, <5>1, <5>2, <5>3
      <4> QED BY <1>1, <4>1, <4>5, <4>6
    <3>2. ASSUME NEW p \in DOMAIN memory, p > Off(b, at)
          PROVE  memory'[p] = Zero
      <4>1. p > d /\ p \notin d + 1 .. d + n
        BY <1>3, <1>6, <3>2
      <4> QED BY <3>b, <3>a, <4>1
    <3> QED BY <1>7, <3>1, <3>2
  <2>3. (CopiedBlocks(at - 1))'
    <3>1. xex'.blocks = b /\ AddsUp' = AddsUp /\ \A k : Plain(k)' = Plain(k)
      BY <1>1 DEF Plain, RightKey, AddsUp
    <3> QED BY <1>2, <1>7, <1>a, <2>1, <3>1 DEF CopiedBlocks, CopiedTo
  <2>4. at' <= Len(b) + 1 /\ ivec' = Con(b, at' - 1) + 1
    BY <1>1, <1>2, <1>3, <1>5
  <2> QED BY <1>1, <2>4, <1>2, <1>3, <1>5, <2>3 DEF Copying, ImageAsDescribed, SectionsInside
<1>11. Imported'
  BY <1>1 DEF IInv, Imported, Read
<1>12. Exported'
  BY <1>1 DEF Exported, MetadataSurvives
<1> QED BY <1>8, <1>9, <1>10, <1>11, <1>12 DEF IInv

LEMMA CopyBlockStep ==
  ASSUME IInv, CopyBlock, file' = file
  PROVE  IInv'
<1>1. CASE pc' = "dead"
  BY <1>1, Stopped DEF CopyBlock, Go, loaded, IInv, Typed
<1>2. CASE pc' # "dead"
  BY <1>2, BlockCopiedStep
<1> QED BY <1>1, <1>2

(* All blocks have been copied, and not more than the file holds. *)
LEMMA FinishImageStep ==
  ASSUME IInv, FinishImage, file' = file
  PROVE  IInv'
<1> USE DEF Go, loaded
<1> DEFINE b == xex.blocks
           L == file.head + Len(file.source)
<1>1. CASE ~ ((file.head + Consumed(b)) % Wrap <= L)
  BY <1>1, Stopped DEF IInv, Typed, FinishImage
<1>2. CASE (file.head + Consumed(b)) % Wrap <= L
  <2>1. /\ pc = "blocks" /\ pc' = "pe" /\ at' = 1 /\ xex' = xex /\ ivec' = ivec
        /\ memory' = memory /\ sections' = sections /\ imports' = imports /\ at > Len(b)
    BY <1>2 DEF FinishImage
  <2>2. b \in Seq(BasicBlocks) /\ at \in Nat /\ Len(b) \in Nat
    BY DEF IInv, Typed, XexData
  <2>3. at <= Len(b) + 1 /\ CopiedBlocks(at - 1)
    BY <2>1 DEF IInv, Copying
  <2>4. at - 1 = Len(b)
    BY <2>1, <2>2, <2>3
  <2>5. (CopiedBlocks(Len(xex.blocks)))'
    <3>1. xex'.blocks = b /\ AddsUp' = AddsUp /\ \A k : Plain(k)' = Plain(k)
      BY <2>1 DEF Plain, RightKey, AddsUp
    <3> QED BY <2>1, <2>3, <2>4, <3>1 DEF CopiedBlocks, CopiedTo
  <2>6. Typed'
    BY <2>1 DEF IInv, Typed, Opened, Steps
  <2>7. Named'
    BY <2>1, NamedKept DEF Opened, Steps
  <2>8. Copying'
    <3>1. ASSUME AddsUp PROVE Consumed(b) <= Len(file.source)
      <4>1. pc \in Opened
        BY <2>1 DEF Opened, Steps
      <4>2. (file.head + Consumed(b)) % Wrap = file.head + Consumed(b)
        BY <3>1, <4>1, AddsUpIs
      <4>3. Len(b) \in 0 .. Len(b) /\ file.head \in Nat /\ Len(file.source) \in Nat
        BY <2>2, <4>1, OptsAre
      <4>4. Consumed(b) \in Nat
        BY <2>2, <4>3, OffNext
      <4> QED BY <1>2, <4>2, <4>3, <4>4
    <3>2. xex'.blocks = b /\ AddsUp' = AddsUp
      BY <2>1 DEF AddsUp
    <3> QED BY <2>1, <2>5, <3>1, <3>2 DEF Copying, ImageAsDescribed, SectionsInside
  <2>9. Imported'
    BY <2>1 DEF IInv, Imported, Read
  <2>10. Exported'
    BY <2>1 DEF Exported, MetadataSurvives
  <2> QED BY <2>6, <2>7, <2>8, <2>9, <2>10 DEF IInv
<1> QED BY <1>1, <1>2

(* The block that a cell of the expanded image is of. *)
LEMMA BlockOfIs ==
  ASSUME IInv, NEW p \in 1 .. Described(xex.blocks)
  PROVE  LET b == xex.blocks
             n == BlockOf(p)
         IN /\ n \in 1 .. Len(b)
            /\ Off(b, n - 1) \in Nat /\ Con(b, n - 1) \in Nat
            /\ b[n].data \in Nat /\ b[n].zero \in Nat
            /\ p - Off(b, n - 1) \in 1 .. b[n].data + b[n].zero
            /\ Con(b, n - 1) + b[n].data <= Consumed(b)
<1> DEFINE b == xex.blocks
           n == BlockOf(p)
<1>1. b \in Seq(BasicBlocks)
  BY DEF IInv, Typed, XexData
<1>2. n \in DOMAIN b /\ Off(b, n - 1) < p /\ p <= Off(b, n)
  <2>1. \E i \in DOMAIN b : Off(b, i - 1) < p /\ p <= Off(b, i)
    BY <1>1, InSomeBlock
  <2> QED BY <2>1 DEF BlockOf, Off
<1> HIDE DEF n
<1>3. n \in 1 .. Len(b) /\ n - 1 \in 0 .. Len(b) /\ n \in 0 .. Len(b) /\ Len(b) \in n .. Len(b)
      /\ Len(b) \in 0 .. Len(b)
  BY <1>1, <1>2
<1>4. /\ Off(b, n - 1) \in Nat /\ Con(b, n - 1) \in Nat
      /\ b[n].data \in Nat /\ b[n].zero \in Nat
      /\ Off(b, n) = Off(b, n - 1) + b[n].data + b[n].zero
      /\ Con(b, n) = Con(b, n - 1) + b[n].data
  BY <1>1, <1>3, OffNext
<1>5. Con(b, n) <= Consumed(b)
  BY <1>1, <1>3, OffNext, OffGrows
<1>6. p - Off(b, n - 1) \in 1 .. b[n].data + b[n].zero
  BY <1>2, <1>4
<1> QED BY <1>3, <1>4, <1>5, <1>6 DEF n

(* Expanded(p) spelled out. *)
LEMMA ExpandedIs ==
  ASSUME NEW p
  PROVE  Expanded(p) =
           LET b == xex.blocks
               n == BlockOf(p)
               k == p - Off(b, n - 1)
           IN IF k > b[n].data THEN Zero ELSE file.source[Con(b, n - 1) + k]
BY DEF Expanded, Off, Con

(* When all has been copied and the PE header can be read, every cell of   *)
(* the expanded image is the one described.                                *)
LEMMA CopiedIsExpanded ==
  ASSUME IInv, pc = "pe", memory # <<>>, memory[1] = Mz, AddsUp
  PROVE  \A p \in 1 .. Len(memory) : memory[p] = Expanded(p)
<1> DEFINE b == xex.blocks
<1>1. /\ CopiedBlocks(Len(b)) /\ Consumed(b) <= Len(file.source) /\ memory \in Seq(Cells)
      /\ CopiedTo(Len(b))
      /\ b \in Seq(BasicBlocks) /\ pc \in Opened
  BY DEF IInv, Copying, CopiedBlocks, Typed, XexData, Opened, Steps
<1>2. file.source \in Seq(Contents)
  BY <1>1, OptsAre
<1>3. Len(memory) = Described(b)
  BY <1>1, AddsUpIs DEF CopiedBlocks
<1>4. ASSUME NEW p \in 1 .. Len(memory), NEW n, n = BlockOf(p), NEW k, k = p - Off(b, n - 1)
      PROVE  /\ n \in 1 .. Len(b) /\ k \in 1 .. b[n].data + b[n].zero
             /\ k <= b[n].data => Con(b, n - 1) + k \in DOMAIN file.source
             /\ memory[p] = IF k <= b[n].data THEN Plain(Con(b, n - 1) + k) ELSE Zero
             /\ b[n].data \in Nat /\ k \in Nat
  <2>1. /\ n \in 1 .. Len(b)
        /\ Off(b, n - 1) \in Nat /\ Con(b, n - 1) \in Nat
        /\ b[n].data \in Nat /\ b[n].zero \in Nat
        /\ k \in 1 .. b[n].data + b[n].zero
        /\ Con(b, n - 1) + b[n].data <= Consumed(b)
    BY <1>3, <1>4, BlockOfIs
  <2>2. p = Off(b, n - 1) + k
    BY <1>4, <2>1
  <2>3. memory[Off(b, n - 1) + k] = IF k <= b[n].data THEN Plain(Con(b, n - 1) + k) ELSE Zero
    BY <1>1, <2>1 DEF CopiedTo
  <2>4. k <= b[n].data => Con(b, n - 1) + k \in 1 .. Len(file.source)
    <3>1. Len(file.source) \in Nat /\ Consumed(b) \in Nat
      <4>1. Len(b) \in 0 .. Len(b)
        BY <1>1
      <4> QED BY <1>1, <1>2, <4>1, OffNext
    <3> DEFINE D == b[n].data
               C == Con(b, n - 1)
               U == Consumed(b)
               L == Len(file.source)
    <3>2. C \in Nat /\ D \in Nat /\ k \in Nat /\ 1 <= k /\ C + D <= U /\ U <= L /\ L \in Nat
          /\ U \in Nat
      BY <1>1, <2>1, <3>1
    <3> SUFFICES ASSUME k <= D PROVE C + k \in 1 .. L
      OBVIOUS
    <3> HIDE DEF C, D, U, L
    <3> QED BY <3>2
  <2> QED BY <1>2, <2>1, <2>2, <2>3, <2>4
<1>5. RightKey
  <2>1. 1 \in 1 .. Len(memory)
    BY <1>1
  <2>2. memory[1] \in {Zero, Junk} \/ RightKey
    BY <1>4, <2>1 DEF Plain
  <2> QED BY <2>2, HeaderAssumption
<1>6. ASSUME NEW p \in 1 .. Len(memory) PROVE memory[p] = Expanded(p)
  <2> DEFINE n == BlockOf(p)
             k == p - Off(b, n - 1)
  <2>1. /\ k \in Nat /\ b[n].data \in Nat
        /\ k <= b[n].data => Con(b, n - 1) + k \in DOMAIN file.source
        /\ memory[p] = IF k <= b[n].data THEN Plain(Con(b, n - 1) + k) ELSE Zero
    BY <1>4
  <2>2. Expanded(p) = IF k > b[n].data THEN Zero ELSE file.source[Con(b, n - 1) + k]
    BY ExpandedIs
  <2> HIDE DEF n, k
  <2>3. k <= b[n].data <=> ~ (k > b[n].data)
    BY <2>1
  <2> QED BY <1>5, <2>1, <2>2, <2>3 DEF Plain
<1> QED BY <1>6


(* The numbers of a section header. *)
LEMMA HeaderNats == \A s \in SectionHeaders : s.voff \in Nat /\ s.vsize \in Nat
BY WrapIs DEF SectionHeaders

(* The image extended by the sections: what was there stays, what comes    *)
(* behind it is of a section or zero.                                      *)
Extended(c, m, secs) ==
  /\ c \in Seq(Cells) /\ Len(m) <= Len(c) /\ Extent(secs) <= Len(c)
  /\ \A p \in 1 .. Len(m) : c[p] = m[p]
  /\ \A p \in 1 .. Len(c) : p > Len(m) =>
       IF Giving(Len(m), secs, Len(secs), p) = {} THEN c[p] = Zero
       ELSE \E i \in Giving(Len(m), secs, Len(secs), p) :
              c[p] = Stored(secs[i].poff + p - secs[i].voff)

(* So does LoadPEImage extend it. *)
LEMMA ExtendedIs ==
  ASSUME file.source \in Seq(Contents), NEW m \in Seq(Cells), NEW secs \in Seq(SectionHeaders),
         NEW c, c = IF Extent(secs) <= Len(m) THEN m ELSE Copied(Extend(m, secs), Len(m), secs)
  PROVE  Extended(c, m, secs)
<1> DEFINE e == Extent(secs)
           old == Len(m)
<1>1. e \in Nat /\ old \in Nat
  BY ExtentIs
<1> USE DEF Extended
<1>2. CASE e <= old
  BY <1>1, <1>2
<1>3. CASE ~ (e <= old)
  <2> DEFINE x == Extend(m, secs)
  <2>1. x = m \o [k \in 1 .. e - old |-> Zero] /\ e - old \in Nat
    BY <1>1, <1>3 DEF Extend
  <2> HIDE DEF x, e
  <2>2. /\ x \in [1 .. e -> Cells]
        /\ \A p \in 1 .. old : x[p] = m[p]
        /\ \A p \in 1 .. e : p > old => x[p] = Zero
    <3> DEFINE z == [k \in 1 .. e - old |-> Zero]
    <3>1. z \in Seq(Cells) /\ Len(z) = e - old /\ \A k \in 1 .. e - old : z[k] = Zero
      BY <2>1 DEF Cells, Contents
    <3> HIDE DEF z
    <3>a. /\ m \o z \in Seq(Cells) /\ Len(m \o z) = Len(m) + Len(z)
          /\ \A i \in 1 .. Len(m) : (m \o z)[i] = m[i]
          /\ \A j \in 1 .. Len(z) : (m \o z)[Len(m) + j] = z[j]
      <4>1. m \in Seq(Cells) /\ z \in Seq(Cells)
        BY <3>1
      <4> QED BY ONLY <4>1, JoinIs
    <3>2. /\ m \o z \in Seq(Cells) /\ Len(m \o z) = old + (e - old)
          /\ \A i \in 1 .. old : (m \o z)[i] = m[i]
          /\ \A j \in 1 .. Len(z) : (m \o z)[old + j] = z[j]
      BY <3>1, <3>a
    <3>3. x = m \o z
      BY <2>1 DEF z
    <3>4. old + (e - old) = e
      BY <1>1
    <3>5. ASSUME NEW p \in 1 .. e, p > old PROVE x[p] = Zero
      <4>1. p - old \in 1 .. e - old /\ old + (p - old) = p
        BY <1>1, <3>5
      <4> QED BY <3>1, <3>2, <3>3, <4>1
    <3>6. x \in [1 .. e -> Cells]
      <4>1. x \in Seq(Cells) /\ Len(x) = e
        BY <3>2, <3>3, <3>4
      <4> QED BY <4>1
    <3> QED BY <3>2, <3>3, <3>5, <3>6
  <2>3. /\ Copied(x, old, secs) \in [1 .. e -> Cells]
        /\ \A p \in 1 .. e :
             IF Giving(old, secs, Len(secs), p) = {} THEN Copied(x, old, secs)[p] = x[p]
             ELSE \E i \in Giving(old, secs, Len(secs), p) :
                    Copied(x, old, secs)[p] = Stored(secs[i].poff + p - secs[i].voff)
    <3> HIDE DEF old
    <3> QED BY <1>1, <2>2, CopiedIs
  <2>4. c = Copied(x, old, secs)
    BY <1>3 DEF x, e
  <2>5. c \in [1 .. e -> Cells]
    BY <2>3, <2>4
  <2>6. c \in Seq(Cells) /\ Len(c) = e
    BY <1>1, <2>5
  <2>7. ASSUME NEW p \in 1 .. old PROVE c[p] = m[p]
    <3>1. p \in 1 .. e /\ x[p] = m[p]
      BY <1>1, <1>3, <2>2 DEF e
    <3>2. Giving(old, secs, Len(secs), p) = {}
      <4>1. \A i \in 1 .. Len(secs) : secs[i].voff \in Nat
        BY ElementOf, HeaderNats
      <4> QED BY <1>1, <4>1 DEF Giving
    <3> QED BY <2>3, <2>4, <3>1, <3>2
  <2>8. ASSUME NEW p \in 1 .. e, p > old
        PROVE  IF Giving(old, secs, Len(secs), p) = {} THEN c[p] = Zero
               ELSE \E i \in Giving(old, secs, Len(secs), p) :
                      c[p] = Stored(secs[i].poff + p - secs[i].voff)
    BY <2>2, <2>3, <2>4, <2>8
  <2>9. old <= e
    BY <1>1, <1>3 DEF e
  <2>10. e = Extent(secs) /\ e <= e
    BY <1>1 DEF e
  <2> QED BY <2>6, <2>7, <2>8, <2>9, <2>10
<1> QED BY <1>2, <1>3

(* LoadPEImage: the key was right, as the PE header is where it should be. *)
LEMMA LoadPEImageStep ==
  ASSUME IInv, LoadPEImage, file' = file
  PROVE  IInv'
<1> USE DEF Go, loaded
<1>1. CASE ~ (memory # <<>> /\ memory[1] = Mz /\ file.pe.valid)
  <2>1. memory' = <<>> /\ pc' = "failed" /\ at' = 1
        /\ sections' = sections /\ UNCHANGED <<xex, ivec, imports>>
    BY <1>1 DEF LoadPEImage
  <2>2. <<>> \in Seq(Cells)
    OBVIOUS
  <2> QED BY <2>1, <2>2, Stopped DEF IInv, Typed
<1>3. CASE memory # <<>> /\ memory[1] = Mz /\ file.pe.valid /\ pc' = "dead"
  BY <1>3, Stopped DEF LoadPEImage, IInv, Typed
<1>2. CASE memory # <<>> /\ memory[1] = Mz /\ file.pe.valid /\ pc' # "dead"
  <2> DEFINE secs == file.pe.sections
             old == Len(memory)
             b == xex.blocks
  <2>1. /\ pc = "pe" /\ pc' = "patch" /\ at' = 1 /\ xex' = xex /\ ivec' = ivec
        /\ sections' = secs /\ imports' = imports
        /\ memory' = IF Extent(secs) <= old THEN memory
                     ELSE Copied(Extend(memory, secs), old, secs)
    BY <1>2 DEF LoadPEImage, Copied
  <2>2. pc \in Opened /\ pc' \in Opened /\ memory \in Seq(Cells)
    BY <2>1 DEF Opened, Steps, IInv, Typed
  <2>3. file.source \in Seq(Contents) /\ secs \in Seq(SectionHeaders)
    BY <2>2, OptsAre
  <2>4. /\ memory' \in Seq(Cells) /\ old <= Len(memory') /\ Extent(secs) <= Len(memory')
        /\ \A p \in 1 .. old : memory'[p] = memory[p]
        /\ \A p \in 1 .. Len(memory') : p > old =>
             IF Giving(old, secs, Len(secs), p) = {} THEN memory'[p] = Zero
             ELSE \E i \in Giving(old, secs, Len(secs), p) :
                    memory'[p] = Stored(secs[i].poff + p - secs[i].voff)
    <3> DEFINE c == memory'
    <3> HIDE DEF secs, c
    <3>1. c = IF Extent(secs) <= Len(memory) THEN memory
              ELSE Copied(Extend(memory, secs), Len(memory), secs)
      BY <2>1 DEF c
    <3>2. Extended(c, memory, secs)
      BY <2>2, <2>3, <3>1, ExtendedIs
    <3> QED BY <3>2 DEF c, Extended
  <2>5. old = SizeOf(b) /\ old \in Nat
    BY <2>1, <2>2 DEF IInv, Copying, CopiedBlocks
  <2>6. Typed'
    BY <2>1, <2>2, <2>3, <2>4 DEF IInv, Typed, Opened, Steps
  <2>7. Named'
    BY <2>1, NamedKept DEF Opened, Steps
  <2>8. ImageAsDescribed'
    <3>1. AddsUp => \A p \in 1 .. old : memory[p] = Expanded(p)
      BY <1>2, <2>1, CopiedIsExpanded
    <3>2. /\ xex'.blocks = b /\ AddsUp' = AddsUp /\ \A p : Expanded(p)' = Expanded(p)
          /\ \A k : Stored(k)' = Stored(k)
      BY <2>1 DEF Expanded, BlockOf, AddsUp, Stored
    <3>3. ASSUME NEW p \in 1 .. Len(memory'), ~ (p <= SizeOf(b)) PROVE memory'[p] \in Behind(p)'
      <4> DEFINE raw == {s \in ToSet(secs) :
                           /\ s.voff >= SizeOf(b) /\ p > s.voff
                           /\ p <= s.voff + Smaller(s.vsize, s.psize)
                           /\ (s.psize + s.poff) % Wrap <= Len(file.source)}
      <4>1. Behind(p)' = IF raw = {} THEN {Zero} ELSE {Stored(s.poff + p - s.voff) : s \in raw}
        BY <2>1, <3>2 DEF Behind
      <4>2. DOMAIN secs = 1 .. Len(secs) /\ \A i \in 1 .. Len(secs) : secs[i] \in ToSet(secs)
        BY <2>3 DEF ToSet
      <4>3. \A i \in Giving(old, secs, Len(secs), p) : secs[i] \in raw
        BY <2>5, <4>2 DEF Giving
      <4>4. raw # {} => Giving(old, secs, Len(secs), p) # {}
        BY <2>5, <4>2 DEF Giving, ToSet
      <4>5. p > old
        BY <2>2, <2>4, <2>5, <3>3
      <4> HIDE DEF raw
      <4> QED BY <2>4, <4>1, <4>3, <4>4, <4>5
    <3>4. ASSUME AddsUp, NEW p \in 1 .. Len(memory'), p <= SizeOf(b)
          PROVE  memory'[p] = Expanded(p)
      BY <2>4, <2>5, <3>1, <3>4
    <3>5. DOMAIN memory' = 1 .. Len(memory')
      BY <2>4
    <3> QED BY <3>2, <3>3, <3>4, <3>5 DEF ImageAsDescribed
  <2>9. SectionsInside'
    <3>1. Extent(secs) \in Nat /\ Len(memory') \in Nat
          /\ \A k \in 1 .. Len(secs) : (secs[k].voff + secs[k].vsize) % Wrap <= Extent(secs)
      BY <2>3, <2>4, ExtentIs
    <3>2. ASSUME NEW k \in 1 .. Len(secs), secs[k].voff + secs[k].vsize < Wrap
          PROVE  secs[k].voff + secs[k].vsize <= Len(memory')
      <4>1. secs[k].voff \in Nat /\ secs[k].vsize \in Nat
        <5>1. secs[k] \in SectionHeaders
          BY <2>3
        <5> QED BY <5>1, HeaderNats
      <4>2. secs[k].voff + secs[k].vsize <= Extent(secs)
        <5>1. secs[k].voff + secs[k].vsize \in Nat
          BY ONLY <4>1
        <5>2. (secs[k].voff + secs[k].vsize) % Wrap = secs[k].voff + secs[k].vsize
          BY ONLY <3>2, <5>1, WrapIs
        <5>3. (secs[k].voff + secs[k].vsize) % Wrap <= Extent(secs)
          BY ONLY <3>1
        <5> QED BY ONLY <5>2, <5>3
      <4>3. Extent(secs) <= Len(memory')
        BY <2>4
      <4> HIDE DEF secs
      <4> QED BY ONLY <3>1, <4>1, <4>2, <4>3
    <3>3. DOMAIN secs = 1 .. Len(secs)
      BY <2>3
    <3> QED BY <2>1, <3>2, <3>3 DEF SectionsInside, ToSet
  <2>10. Copying'
    BY <2>1, <2>8, <2>9 DEF Copying
  <2>11. Imported'
    <3>1. imports' = <<>>
      BY <2>1 DEF IInv, Imported, Read
    <3>2. \A k \in 1 .. Len(xex'.records) : ~ (k < at')
      BY <2>1
    <3> QED BY <2>1, <3>1, <3>2 DEF Imported, ToSet
  <2>12. Exported'
    BY <2>1 DEF Exported, MetadataSurvives
  <2> QED BY <2>6, <2>7, <2>10, <2>11, <2>12 DEF IInv
<1> QED BY <1>1, <1>2, <1>3


(* What has been read stays as described while it stays. *)
LEMMA CopyingKept ==
  ASSUME IInv, file' = file, pc \in Read, pc' \in Read, xex' = xex, memory' = memory,
         sections' = sections
  PROVE  Copying'
<1>1. /\ \A p : Expanded(p)' = Expanded(p)
      /\ \A p : Behind(p)' = Behind(p)
      /\ AddsUp' = AddsUp
  BY DEF Expanded, BlockOf, Behind, Stored, AddsUp
<1>2. ImageAsDescribed'
  BY <1>1 DEF IInv, Copying, ImageAsDescribed, Read
<1>3. SectionsInside'
  BY DEF IInv, Copying, SectionsInside, Read
<1> QED BY <1>2, <1>3 DEF Copying, Read

(* So do the imports. *)
LEMMA ImportedKept ==
  ASSUME IInv, pc \in Read, pc' \in Read, xex' = xex, memory' = memory, imports' = imports,
         \A k \in 1 .. Len(xex.records) :
           (pc' = "patch" => k < at') => \/ pc = "patch" => k < at
                                        \/ Taken(xex.records[k])
  PROVE  Imported'
<1>1. \A i : Recorded(i)' = Recorded(i)
  BY DEF Recorded, WordAt, NameOf, Skipped, Found
<1>2. \A r : Taken(r)' = Taken(r)
  BY DEF Taken, WordAt, Skipped
<1> QED BY <1>1, <1>2 DEF IInv, Imported

(* PatchImports names one import, skips its record, fails or ends the      *)
(* program.                                                                *)
LEMMA PatchImportStep ==
  ASSUME IInv, PatchImport, file' = file
  PROVE  IInv'
<1> USE DEF Go, loaded
<1> DEFINE r == xex.records[at]
           offset == r - xex.base
           word == WordAt(offset)
<1>1. pc = "patch" /\ pc \in Read /\ pc \in Opened /\ at <= Len(xex.records) /\ at \in Nat \ {0}
      /\ xex \in XexData /\ xex.records \in Seq(Nat)
  BY DEF PatchImport, Read, Opened, Steps, IInv, Typed, XexData
<1>2. CASE pc' = "failed" /\ at' = 1 /\ memory' = <<>> /\ UNCHANGED <<xex, ivec, sections, imports>>
  <2>1. memory' \in Seq(Cells)
    BY <1>2
  <2> QED BY <1>2, <2>1, Stopped DEF IInv, Typed
<1>3. CASE pc' = "dead" /\ at' = 1 /\ UNCHANGED loaded
  BY <1>3, Stopped DEF IInv, Typed
<1>4. CASE at' = at + 1 /\ UNCHANGED <<pc, loaded>> /\ Skipped(word)
  <2>1. Typed'
    BY <1>1, <1>4 DEF IInv, Typed
  <2>0. \A k \in 1 .. Len(xex.records) : k < at' => k < at \/ Taken(xex.records[k])
    BY <1>1, <1>4 DEF Taken
  <2>2. Named' /\ Copying' /\ Imported'
    BY <1>1, <1>4, <2>0, NamedKept, CopyingKept, ImportedKept
  <2>3. Exported'
    BY <1>1, <1>4 DEF Exported, MetadataSurvives
  <2> QED BY <2>1, <2>2, <2>3 DEF IInv
<1>5. ASSUME NEW e \in Found(NameOf(word), word.ordinal), ~ Skipped(word),
             offset >= 0, offset < Len(memory),
             imports' = Append(imports, [type |-> IF word.type = 0 THEN "variable" ELSE "function",
                                         name |-> e.name, addr |-> r]),
             at' = at + 1, UNCHANGED <<pc, xex, memory, ivec, sections>>
      PROVE  IInv'
  <2> DEFINE i == [type |-> IF word.type = 0 THEN "variable" ELSE "function",
                   name |-> e.name, addr |-> r]
  <2>1. e \in Table /\ e.lib = NameOf(word) /\ e.ordinal = word.ordinal /\ e.name \in STRING
    BY TableAssumption DEF Found
  <2>2. r \in Nat /\ r \in ToSet(xex.records)
    BY <1>1 DEF ToSet
  <2>3. i \in ImportRecords /\ i.addr = r /\ i.name = e.name
    BY <2>1, <2>2 DEF ImportRecords
  <2>4. Recorded(i)
    <3>1. offset + 1 \in DOMAIN memory
      <4>1. memory \in Seq(Cells) /\ xex.base \in Nat
        BY DEF IInv, Typed, XexData
      <4> QED BY <1>5, <2>2, <4>1
    <3> QED BY <1>5, <2>2, <2>3, <3>1 DEF Recorded
  <2> HIDE DEF i, r, word
  <2>5. imports' = Append(imports, i)
    BY <1>5 DEF i
  <2>6. imports \in Seq(ImportRecords)
    BY DEF IInv, Typed
  <2>7. imports' \in Seq(ImportRecords) /\ ToSet(imports') = ToSet(imports) \cup {i}
    BY <2>3, <2>5, <2>6 DEF ToSet
  <2>8. Typed'
    BY <1>1, <1>5, <2>7 DEF IInv, Typed
  <2>9. Named' /\ Copying'
    BY <1>1, <1>5, NamedKept, CopyingKept
  <2>10. Imported'
    <3>1. \A j : Recorded(j)' = Recorded(j)
      BY <1>5 DEF Recorded, WordAt, NameOf, Skipped, Found
    <3>2. \A j \in ToSet(imports) : Recorded(j)
      BY <1>1 DEF IInv, Imported
    <3>3. \A q : Taken(q) => Taken(q)'
      BY <1>5, <2>7 DEF Taken, WordAt, Skipped
    <3>4. i \in ToSet(imports')
      BY <2>7
    <3>5. ASSUME NEW k \in 1 .. Len(xex.records), k < at' PROVE Taken(xex.records[k])'
      <4>1. k < at \/ k = at
        BY <1>1, <1>5, <3>5
      <4>2. k < at => Taken(xex.records[k])
        BY <1>1 DEF IInv, Imported
      <4>3. k = at => Taken(xex.records[k])'
        <5>1. k = at => i.addr = xex'.records[k]
          BY <1>5, <2>3 DEF r
        <5> QED BY <3>4, <5>1 DEF Taken
      <4>4. k < at => Taken(xex.records[k])'
        BY <1>5, <3>3, <4>2
      <4> QED BY <4>1, <4>3, <4>4
    <3> QED BY <1>1, <1>5, <2>4, <2>7, <3>1, <3>2, <3>5 DEF Imported
  <2>11. Exported'
    BY <1>1, <1>5 DEF Exported, MetadataSurvives
  <2> QED BY <2>8, <2>9, <2>10, <2>11 DEF IInv
<1>6. offset \in Int /\ Len(memory) \in Nat
  BY <1>1 DEF IInv, Typed, XexData
<1>7. offset >= 0 /\ offset < Len(memory) <=>
        ~ (offset < 0 \/ offset > Len(memory)) /\ offset # Len(memory)
  BY <1>6
<1> HIDE DEF offset
<1>8. CASE offset < 0 \/ offset > Len(memory)
  BY <1>2, <1>8 DEF PatchImport, offset
<1>9. CASE ~ (offset < 0 \/ offset > Len(memory)) /\ offset = Len(memory)
  BY <1>3, <1>9 DEF PatchImport, offset
<1>10. CASE offset >= 0 /\ offset < Len(memory)
  <2>1. \/ Skipped(word) /\ at' = at + 1 /\ UNCHANGED <<pc, loaded>>
        \/ pc' = "dead" /\ at' = 1 /\ UNCHANGED loaded
        \/ /\ ~ Skipped(word)
           /\ \E e \in Found(NameOf(word), word.ordinal) :
                imports' = Append(imports, [type |-> IF word.type = 0 THEN "variable" ELSE "function",
                                            name |-> e.name, addr |-> r])
           /\ at' = at + 1
           /\ UNCHANGED <<pc, xex, memory, ivec, sections>>
    BY <1>7, <1>10, Zenon DEF PatchImport, offset
  <2> QED BY <1>3, <1>4, <1>5, <1>10, <2>1
<1> QED BY <1>6, <1>7, <1>8, <1>9, <1>10

(* PatchImports is done. *)
LEMMA FinishImportsStep ==
  ASSUME IInv, FinishImports, file' = file
  PROVE  IInv'
<1> USE DEF Go, loaded
<1>1. /\ pc = "patch" /\ pc' = "loaded" /\ pc \in Read /\ pc' \in Read
      /\ at \in Nat /\ Len(xex.records) \in Nat /\ at > Len(xex.records)
      /\ pc \in Opened \ {"headers"} /\ pc' \in Opened \ {"headers"} /\ pc' \in Steps
      /\ at' = 1 /\ UNCHANGED loaded
  BY DEF FinishImports, Read, Opened, Steps, IInv, Typed, XexData
<1>0. \A k \in 1 .. Len(xex.records) : k < at
  BY <1>1
<1>2. Typed'
  BY <1>1 DEF IInv, Typed, Opened
<1>3. Named' /\ Copying' /\ Imported'
  BY <1>0, <1>1, NamedKept, CopyingKept, ImportedKept
<1>4. Exported'
  BY <1>1 DEF Exported, MetadataSurvives
<1> QED BY <1>2, <1>3, <1>4 DEF IInv

(* main goes on after LoadXex has failed. *)
LEMMA CarryOnStep ==
  ASSUME IInv, CarryOn, file' = file
  PROVE  IInv'
BY Stopped DEF CarryOn, Go, loaded, IInv, Typed

(* The variables without a function are a matter of the imports. *)
LEMMA LonelySame ==
  ASSUME imports' = imports
  PROVE  Lonely' = Lonely
<1>1. \A i : IsLonely(i)' = IsLonely(i)
  BY DEF IsLonely
<1> QED BY <1>1 DEF Lonely

(* exportMetadata writes the metadata of what has been loaded. *)
LEMMA ExportMetadataStep ==
  ASSUME IInv, ExportMetadata, file' = file
  PROVE  IInv'
<1> USE DEF Go, loaded
<1>0. CASE pc' = "dead"
  <2>1. at' = 1 /\ UNCHANGED loaded
    BY <1>0 DEF ExportMetadata
  <2> QED BY <1>0, <2>1, Stopped DEF IInv, Typed
<1>1. CASE pc' # "dead"
  <2>1. /\ pc = "loaded" /\ pc' = "runtime" /\ pc \in Read /\ pc' \in Read
        /\ pc \in Opened \ {"headers"} /\ pc' \in Opened \ {"headers"} /\ pc' \in Steps
        /\ at' = 1 /\ UNCHANGED loaded /\ md' = MetaData
    BY <1>1 DEF ExportMetadata, Read, Opened, Steps, MetaData
  <2>2. Typed'
    BY <2>1 DEF IInv, Typed, Opened
  <2>3. Named' /\ Copying' /\ Imported'
    BY <2>1, NamedKept, CopyingKept, ImportedKept
  <2>4. MetaData' = MetaData
    <3>1. Lonely' = Lonely
      BY <2>1, LonelySame
    <3>2. \A s : SectionFields(s)' = SectionFields(s)
      BY <2>1 DEF SectionFields, DataAt
    <3>3. \A v : Header(v)' = Header(v)
      BY <2>1 DEF Header
    <3> QED BY <2>1, <3>1, <3>2, <3>3 DEF MetaData
  <2>5. Exported'
    BY <2>1, <2>4 DEF Exported, MetadataSurvives
  <2> QED BY <2>2, <2>3, <2>5 DEF IInv
<1> QED BY <1>0, <1>1

-----------------------------------------------------------------------------
(* The metadata: where its fields stand, and that they are read there.     *)
Fields == STRING \cup {Magic} \cup Int \cup Cells

(* What is kept of imports is imports. *)
LEMMA LonelyAre ==
  ASSUME IInv
  PROVE  Lonely \in Seq(ImportRecords)
<1>1. imports \in Seq(ImportRecords)
  BY DEF IInv, Typed
<1> QED BY <1>1, KeptIs DEF Lonely

(* A variable's fields. *)
LEMMA VariableFieldsAre ==
  ASSUME NEW i \in ImportRecords
  PROVE  /\ VariableFields(i) \in Seq(Fields) /\ Len(VariableFields(i)) = 3
         /\ VariableFields(i)[1] = 1 /\ VariableFields(i)[2] = i.name
         /\ VariableFields(i)[3] = i.addr
<1>1. 1 \in Fields /\ i.name \in Fields /\ i.addr \in Fields
  BY DEF ImportRecords, Fields
<1> QED BY <1>1 DEF VariableFields

(* The cell that is exported from a place, of the image or behind its end. *)
CellAt(q) == IF q \in DOMAIN memory THEN memory[q] ELSE Junk

(* A section's fields, its cells last. *)
LEMMA SectionFieldsAre ==
  ASSUME memory \in Seq(Cells), NEW s \in SectionHeaders
  PROVE  /\ SectionFields(s) \in Seq(Fields) /\ Len(SectionFields(s)) = 5 + s.vsize
         /\ SectionFields(s)[1] = s.voff /\ SectionFields(s)[2] = s.vsize
         /\ SectionFields(s)[4] = 1 /\ SectionFields(s)[5] = s.name
         /\ \A j \in 1 .. s.vsize : SectionFields(s)[5 + j] = CellAt(s.voff + j)
<1> DEFINE h == <<s.voff, s.vsize, 0, 1, s.name>>
           c == DataAt(s.voff, s.vsize)
<1>1. s.voff \in Nat /\ s.vsize \in Nat /\ s.name \in STRING
  BY HeaderNats DEF SectionHeaders
<1>2. s.voff \in Fields /\ s.vsize \in Fields /\ 0 \in Fields /\ 1 \in Fields /\ s.name \in Fields
  BY <1>1 DEF Fields
<1>3. /\ h \in Seq(Fields) /\ Len(h) = 5 /\ h[1] = s.voff /\ h[2] = s.vsize /\ h[4] = 1
      /\ h[5] = s.name
  BY <1>2
<1> DEFINE u == s.voff
           z == s.vsize
<1>4. /\ c \in Seq(Cells) /\ Len(c) = z /\ \A j \in 1 .. z : c[j] = CellAt(u + j)
  <2>1. \A q : CellAt(q) \in Cells
    BY DEF CellAt, Cells, Contents
  <2>2. c = [k \in 1 .. z |-> CellAt(u + k)]
    BY DEF DataAt, CellAt
  <2> HIDE DEF c, u
  <2> QED BY <1>1, <2>1, <2>2
<1>5. \A e \in Cells : e \in Fields
  BY DEF Fields
<1> HIDE DEF h, c
<1>6. c \in Seq(Fields)
  BY <1>4, <1>5
<1>7. /\ h \o c \in Seq(Fields) /\ Len(h \o c) = Len(h) + Len(c)
      /\ \A i \in 1 .. Len(h) : (h \o c)[i] = h[i]
      /\ \A j \in 1 .. Len(c) : (h \o c)[Len(h) + j] = c[j]
  <2>1. h \in Seq(Fields) /\ c \in Seq(Fields)
    BY <1>3, <1>6
  <2> QED BY ONLY <2>1, JoinIs
<1>8. SectionFields(s) = h \o c
  BY DEF SectionFields, h, c
<1> QED BY <1>3, <1>4, <1>7, <1>8

(* Where variables and sections stand in the file. *)
VariablesStand(a, n) ==
  /\ a \in [1 .. n + 1 -> Nat] /\ a[1] = 7
  /\ \A k \in 1 .. n : /\ a[k + 1] = a[k] + 3
                       /\ md[a[k]] = 1 /\ md[a[k] + 1] = Lonely[k].name
                       /\ md[a[k] + 2] = Lonely[k].addr

SectionsStand(b, m, first) ==
  /\ b \in [1 .. m + 1 -> Nat] /\ b[1] = first
  /\ \A k \in 1 .. m : /\ b[k + 1] = b[k] + 5 + sections[k].vsize
                       /\ md[b[k]] = sections[k].voff /\ md[b[k] + 1] = sections[k].vsize
                       /\ md[b[k] + 3] = 1 /\ md[b[k] + 4] = sections[k].name
                       /\ b[k] + 4 + sections[k].vsize <= Len(md)
                       /\ \A j \in 1 .. sections[k].vsize :
                            md[b[k] + 4 + j] = CellAt(sections[k].voff + j)

HeaderStands ==
  /\ md \in Seq(Fields)
  /\ md[1] = Magic /\ md[2] = Version /\ md[4] = xex.base
  /\ md[5] = Len(sections) /\ md[6] = Len(Lonely)


(* In the file that exportMetadata writes everything has its place. *)
LEMMA MetaStands ==
  ASSUME IInv, pc = "runtime"
  PROVE  /\ HeaderStands
         /\ \E a, b : /\ VariablesStand(a, Len(Lonely))
                      /\ SectionsStand(b, Len(sections), a[Len(Lonely) + 1])
<1> DEFINE n == Len(Lonely)
           m == Len(sections)
           h == Header(Lonely)
           va == [k \in DOMAIN Lonely |-> VariableFields(Lonely[k])]
           sa == [k \in DOMAIN sections |-> SectionFields(sections[k])]
           x == FlattenSeq(va)
           y == FlattenSeq(sa)
<1>1. Lonely \in Seq(ImportRecords) /\ sections \in Seq(SectionHeaders) /\ memory \in Seq(Cells)
      /\ md = (h \o x) \o y /\ xex.base \in Nat
  BY LonelyAre DEF IInv, Typed, Exported, MetaData, XexData
<1>2. /\ n \in Nat /\ m \in Nat /\ DOMAIN Lonely = 1 .. n /\ DOMAIN sections = 1 .. m
      /\ \A k \in 1 .. n : Lonely[k] \in ImportRecords
      /\ \A k \in 1 .. m : sections[k] \in SectionHeaders
  BY <1>1
<1>4. /\ va \in Seq(Seq(Fields)) /\ Len(va) = n
      /\ \A k \in 1 .. n : /\ va[k] = VariableFields(Lonely[k]) /\ Len(va[k]) = 3
                           /\ va[k][1] = 1 /\ va[k][2] = Lonely[k].name
                           /\ va[k][3] = Lonely[k].addr
  <2>1. va = [k \in 1 .. n |-> VariableFields(Lonely[k])]
    BY <1>2
  <2> HIDE DEF va
  <2>2. \A k \in 1 .. n : va[k] = VariableFields(Lonely[k]) /\ va[k] \in Seq(Fields)
    BY <1>2, <2>1, VariableFieldsAre
  <2>3. va \in Seq(Seq(Fields)) /\ Len(va) = n
    BY <1>2, <2>1, <2>2
  <2> QED BY <1>2, <2>2, <2>3, VariableFieldsAre
<1>5. /\ sa \in Seq(Seq(Fields)) /\ Len(sa) = m
      /\ \A k \in 1 .. m :
           LET s == sections[k] IN
           /\ sa[k] = SectionFields(s) /\ Len(sa[k]) = 5 + s.vsize
           /\ sa[k][1] = s.voff /\ sa[k][2] = s.vsize /\ sa[k][4] = 1 /\ sa[k][5] = s.name
           /\ \A j \in 1 .. s.vsize : sa[k][5 + j] = CellAt(s.voff + j)
  <2>1. sa = [k \in 1 .. m |-> SectionFields(sections[k])]
    BY <1>2
  <2> HIDE DEF sa
  <2>2. \A k \in 1 .. m : sa[k] = SectionFields(sections[k]) /\ sa[k] \in Seq(Fields)
    BY <1>1, <1>2, <2>1, SectionFieldsAre
  <2>3. sa \in Seq(Seq(Fields)) /\ Len(sa) = m
    BY <1>2, <2>1, <2>2
  <2>4. ASSUME NEW k \in 1 .. m
        PROVE  LET s == sections[k] IN
               /\ sa[k] = SectionFields(s) /\ Len(sa[k]) = 5 + s.vsize
               /\ sa[k][1] = s.voff /\ sa[k][2] = s.vsize /\ sa[k][4] = 1 /\ sa[k][5] = s.name
               /\ \A j \in 1 .. s.vsize : sa[k][5 + j] = CellAt(s.voff + j)
    <3>1. sections[k] \in SectionHeaders
      BY <1>2
    <3> QED BY <1>1, <2>2, <3>1, SectionFieldsAre
  <2> QED BY <2>3, <2>4
<1>6. h \in Seq(Fields) /\ Len(h) = 6
      /\ h[1] = Magic /\ h[2] = Version /\ h[4] = xex.base /\ h[5] = m /\ h[6] = n
  <2>1. Magic \in Fields /\ Version \in Fields /\ 0 \in Fields /\ xex.base \in Fields
        /\ m \in Fields /\ n \in Fields
    BY <1>1, <1>2 DEF Fields, Version
  <2> QED BY <2>1 DEF Header
<1> HIDE DEF va, sa, h, n, m
<1>7. x \in Seq(Fields) /\ y \in Seq(Fields)
  BY <1>4, <1>5, FlattenAt
<1>8. PICK oa : Stands(oa, n, va)
  BY <1>4, FlattenAt
<1>9. PICK ob : Stands(ob, m, sa)
  BY <1>5, FlattenAt
<1> HIDE DEF x, y
<1>10. /\ h \o x \in Seq(Fields) /\ Len(h \o x) = Len(h) + Len(x)
       /\ \A i \in 1 .. Len(h) : (h \o x)[i] = h[i]
       /\ \A j \in 1 .. Len(x) : (h \o x)[Len(h) + j] = x[j]
  <2>1. h \in Seq(Fields) /\ x \in Seq(Fields)
    BY <1>6, <1>7
  <2> QED BY ONLY <2>1, JoinIs
<1> DEFINE hx == h \o x
<1>11. md = hx \o y /\ hx \in Seq(Fields) /\ y \in Seq(Fields)
  BY <1>1, <1>7, <1>10
<1>a. Len(hx) = 6 + Len(x) /\ \A i \in 1 .. 6 : hx[i] = h[i]
  BY <1>6, <1>10
<1>b. \A j \in 1 .. Len(x) : hx[6 + j] = x[j]
  BY <1>6, <1>10
<1> HIDE DEF hx
<1>12. /\ hx \o y \in Seq(Fields) /\ Len(hx \o y) = Len(hx) + Len(y)
       /\ \A i \in 1 .. Len(hx) : (hx \o y)[i] = hx[i]
       /\ \A j \in 1 .. Len(y) : (hx \o y)[Len(hx) + j] = y[j]
  <2>1. hx \in Seq(Fields) /\ y \in Seq(Fields)
    BY <1>11
  <2> QED BY ONLY <2>1, JoinIs
<1>13. Len(x) \in Nat /\ Len(y) \in Nat
  BY <1>7
<1>14. /\ \A i \in 1 .. 6 : md[i] = h[i]
       /\ \A j \in 1 .. Len(x) : md[6 + j] = x[j]
       /\ \A j \in 1 .. Len(y) : md[6 + Len(x) + j] = y[j]
       /\ Len(md) = 6 + Len(x) + Len(y)
  <2>1. \A i \in 1 .. 6 : i \in 1 .. Len(hx)
    BY <1>13, <1>a
  <2>2. \A j \in 1 .. Len(x) : 6 + j \in 1 .. Len(hx)
    BY <1>13, <1>a
  <2>3. \A i \in 1 .. 6 : md[i] = h[i]
    BY <1>11, <1>12, <1>a, <2>1
  <2>4. \A j \in 1 .. Len(x) : md[6 + j] = x[j]
    BY <1>11, <1>12, <1>b, <2>2
  <2> QED BY <1>11, <1>12, <1>a, <2>3, <2>4
<1>15. HeaderStands
  BY <1>6, <1>11, <1>12, <1>14, SMTT(20) DEF HeaderStands, n, m
<1> DEFINE a == [k \in 1 .. n + 1 |-> 7 + oa[k - 1]]
           b == [k \in 1 .. m + 1 |-> 7 + Len(x) + ob[k - 1]]
<1>16. n \in Nat /\ m \in Nat
  BY <1>2 DEF n, m
<1>17. /\ oa \in [0 .. n -> Nat] /\ oa[0] = 0 /\ oa[n] = Len(x)
       /\ \A k \in 1 .. n : /\ oa[k] = oa[k - 1] + 3
                            /\ \A j \in 1 .. 3 : oa[k - 1] + j \in 1 .. Len(x)
                                                 /\ x[oa[k - 1] + j] = va[k][j]
  BY <1>4, <1>8 DEF Stands, x
<1>18. /\ ob \in [0 .. m -> Nat] /\ ob[0] = 0 /\ ob[m] = Len(y)
       /\ \A k \in 1 .. m : /\ ob[k] = ob[k - 1] + Len(sa[k])
                            /\ \A j \in 1 .. Len(sa[k]) : ob[k - 1] + j \in 1 .. Len(y)
                                                          /\ y[ob[k - 1] + j] = sa[k][j]
  BY <1>9 DEF Stands, y
<1>19. VariablesStand(a, n)
  <2>1. /\ a \in [1 .. n + 1 -> Nat] /\ a[1] = 7
        /\ \A k \in 1 .. n + 1 : a[k] = 7 + oa[k - 1]
    <3>1. \A k \in 1 .. n + 1 : k - 1 \in 0 .. n
      BY <1>16
    <3>2. 1 \in 1 .. n + 1 /\ 1 - 1 = 0
      BY <1>16
    <3> QED BY <1>17, <3>1, <3>2
  <2> HIDE DEF a
  <2>2. ASSUME NEW k \in 1 .. n
        PROVE  /\ a[k + 1] = a[k] + 3
               /\ md[a[k]] = 1 /\ md[a[k] + 1] = Lonely[k].name /\ md[a[k] + 2] = Lonely[k].addr
    <3>1. k \in 1 .. n + 1 /\ k + 1 \in 1 .. n + 1 /\ (k + 1) - 1 = k /\ k - 1 \in 0 .. n
      BY <1>16
    <3>2. a[k] = 7 + oa[k - 1] /\ a[k + 1] = 7 + oa[k] /\ oa[k] = oa[k - 1] + 3 /\ oa[k - 1] \in Nat
      BY <1>17, <2>1, <3>1
    <3>3. ASSUME NEW j \in 1 .. 3 PROVE md[a[k] + (j - 1)] = va[k][j]
      <4>1. oa[k - 1] + j \in 1 .. Len(x) /\ x[oa[k - 1] + j] = va[k][j]
        BY <1>17
      <4>2. a[k] + (j - 1) = 6 + (oa[k - 1] + j)
        BY <3>2
      <4> QED BY <1>14, <4>1, <4>2
    <3>4. md[a[k] + (1 - 1)] = va[k][1] /\ md[a[k] + (2 - 1)] = va[k][2]
          /\ md[a[k] + (3 - 1)] = va[k][3]
      BY <3>3
    <3>5. a[k] + (1 - 1) = a[k] /\ a[k] + (2 - 1) = a[k] + 1 /\ a[k] + (3 - 1) = a[k] + 2
          /\ a[k + 1] = a[k] + 3
      BY <3>2
    <3> QED BY <1>4, <3>4, <3>5
  <2> QED BY <2>1, <2>2 DEF VariablesStand
<1>20. SectionsStand(b, m, a[n + 1])
  <2>1. /\ b \in [1 .. m + 1 -> Nat] /\ b[1] = a[n + 1]
        /\ \A k \in 1 .. m + 1 : b[k] = 7 + Len(x) + ob[k - 1]
    <3>1. \A k \in 1 .. m + 1 : k - 1 \in 0 .. m
      BY <1>16
    <3>2. 1 \in 1 .. m + 1 /\ 1 - 1 = 0 /\ n + 1 \in 1 .. n + 1 /\ (n + 1) - 1 = n
      BY <1>16
    <3>3. b \in [1 .. m + 1 -> Nat] /\ \A k \in 1 .. m + 1 : b[k] = 7 + Len(x) + ob[k - 1]
      BY <1>13, <1>18, <3>1
    <3>4. b[1] = 7 + Len(x) /\ a[n + 1] = 7 + Len(x)
      BY <1>13, <1>17, <1>18, <3>2
    <3> QED BY <3>3, <3>4
  <2> HIDE DEF a, b
  <2>2. ASSUME NEW k \in 1 .. m, NEW s, s = sections[k]
        PROVE  /\ b[k + 1] = b[k] + 5 + s.vsize
               /\ md[b[k]] = s.voff /\ md[b[k] + 1] = s.vsize
               /\ md[b[k] + 3] = 1 /\ md[b[k] + 4] = s.name
               /\ b[k] + 4 + s.vsize <= Len(md)
               /\ \A j \in 1 .. s.vsize : md[b[k] + 4 + j] = CellAt(s.voff + j)
    <3>1. k \in 1 .. m + 1 /\ k + 1 \in 1 .. m + 1 /\ (k + 1) - 1 = k /\ k - 1 \in 0 .. m
      BY <1>16
    <3>2. /\ Len(sa[k]) = 5 + s.vsize
          /\ sa[k][1] = s.voff /\ sa[k][2] = s.vsize /\ sa[k][4] = 1 /\ sa[k][5] = s.name
          /\ \A j \in 1 .. s.vsize : sa[k][5 + j] = CellAt(s.voff + j)
      BY <1>5, <2>2
    <3> DEFINE z == s.vsize
    <3>3. z \in Nat
      <4>1. s \in SectionHeaders
        BY <1>2, <2>2 DEF m
      <4> QED BY <4>1, HeaderNats
    <3>4. b[k] = 7 + Len(x) + ob[k - 1] /\ b[k + 1] = 7 + Len(x) + ob[k]
          /\ ob[k] = ob[k - 1] + (5 + z) /\ ob[k - 1] \in Nat
      BY <1>18, <2>1, <3>1, <3>2
    <3>5. ASSUME NEW j \in 1 .. 5 + z
          PROVE  md[b[k] + (j - 1)] = sa[k][j] /\ b[k] + (j - 1) <= Len(md)
      <4>1. ob[k - 1] + j \in 1 .. Len(y) /\ y[ob[k - 1] + j] = sa[k][j]
        BY <1>18, <3>2
      <4>2. b[k] + (j - 1) = 6 + Len(x) + (ob[k - 1] + j)
        <5>1. \A p, q, i \in Int : 7 + p + q + (i - 1) = 6 + p + (q + i)
          OBVIOUS
        <5>2. Len(x) \in Int /\ ob[k - 1] \in Int /\ j \in Int
          BY <1>13, <3>3, <3>4
        <5> QED BY <3>4, <5>1, <5>2
      <4>3. 6 + Len(x) + (ob[k - 1] + j) <= Len(md)
        BY <1>13, <1>14, <3>3, <3>4, <4>1
      <4> QED BY <1>14, <4>1, <4>2, <4>3
    <3> HIDE DEF z
    <3>6. 1 \in 1 .. 5 + z /\ 2 \in 1 .. 5 + z /\ 4 \in 1 .. 5 + z /\ 5 \in 1 .. 5 + z
          /\ 5 + z \in 1 .. 5 + z
      BY <3>3
    <3>7. b[k] + (1 - 1) = b[k] /\ b[k] + (2 - 1) = b[k] + 1 /\ b[k] + (4 - 1) = b[k] + 3
          /\ b[k] + (5 - 1) = b[k] + 4 /\ b[k] + ((5 + z) - 1) = b[k] + 4 + z
          /\ b[k + 1] = b[k] + 5 + z
      <4>1. \A p, q, i \in Int : 7 + p + (q + (5 + i)) = (7 + p + q) + 5 + i
        OBVIOUS
      <4>2. Len(x) \in Int /\ ob[k - 1] \in Int /\ z \in Int
        BY <1>13, <3>3, <3>4
      <4>3. b[k + 1] = b[k] + 5 + z
        BY <3>4, <4>1, <4>2
      <4>4. b[k] \in Int
        BY <3>4, <4>2
      <4> QED BY <4>2, <4>3, <4>4
    <3>8. md[b[k]] = sa[k][1] /\ md[b[k] + 1] = sa[k][2] /\ md[b[k] + 3] = sa[k][4]
          /\ md[b[k] + 4] = sa[k][5] /\ b[k] + 4 + z <= Len(md)
      BY <3>5, <3>6, <3>7
    <3>9. ASSUME NEW j \in 1 .. z PROVE md[b[k] + 4 + j] = CellAt(s.voff + j)
      <4>1. 5 + j \in 1 .. 5 + z /\ b[k] + ((5 + j) - 1) = b[k] + 4 + j
        BY <1>13, <3>3, <3>4
      <4>2. md[b[k] + 4 + j] = sa[k][5 + j]
        BY <3>5, <4>1
      <4> QED BY <3>2, <4>2 DEF z
    <3> QED BY <3>2, <3>7, <3>8, <3>9 DEF z
  <2> QED BY <2>1, <2>2 DEF SectionsStand
<1> HIDE DEF a, b
<1> QED BY <1>15, <1>19, <1>20 DEF n, m


(* importMetadata follows the lengths it reads to exactly these places. *)
LEMMA ReadInOrder ==
  ASSUME IInv, ImportMetadata
  PROVE  LET n == Len(Lonely)
             m == Len(sections)
         IN \E a, b : /\ VariablesStand(a, n) /\ SectionsStand(b, m, a[n + 1])
                      /\ meta' = [base |-> xex.base, vars |-> [k \in 1 .. n |-> VariableAt(a[k])],
                                  sections |-> [k \in 1 .. m |-> SectionAt(b[k])]]
<1> DEFINE nv == md[6]
           ns == md[5]
           EV(g) == g = [k \in 1 .. nv + 1 |-> IF k = 1 THEN 7 ELSE g[k - 1] + md[g[k - 1]] + 2]
           v == CHOOSE g : EV(g)
           ES(g) == g = [k \in 1 .. ns + 1 |->
                           IF k = 1 THEN v[nv + 1]
                           ELSE g[k - 1] + 4 + md[g[k - 1] + 3] + md[g[k - 1] + 1]]
           s == CHOOSE g : ES(g)
           n == Len(Lonely)
           m == Len(sections)
<1>1. meta' = IF md[1] = Magic /\ md[2] = Version
              THEN [base |-> md[4], vars |-> [k \in 1 .. nv |-> VariableAt(v[k])],
                    sections |-> [k \in 1 .. ns |-> SectionAt(s[k])]]
              ELSE meta
  BY Zenon DEF ImportMetadata
<1>2. HeaderStands /\ \E a, b : VariablesStand(a, n) /\ SectionsStand(b, m, a[n + 1])
  BY MetaStands DEF ImportMetadata
<1>3. PICK a, b : VariablesStand(a, n) /\ SectionsStand(b, m, a[n + 1])
  BY <1>2
<1>4. /\ n \in Nat /\ m \in Nat /\ nv = n /\ ns = m
      /\ \A k \in 1 .. m : sections[k].vsize \in Nat
  <2>1. Lonely \in Seq(ImportRecords) /\ sections \in Seq(SectionHeaders)
    BY LonelyAre DEF IInv, Typed
  <2>2. \A k \in 1 .. m : sections[k].vsize \in Nat
    BY <2>1, HeaderNats
  <2> QED BY <1>2, <2>1, <2>2 DEF HeaderStands
<1> HIDE DEF nv, ns, n, m
<1>5. EV(v)
  <2>1. ASSUME NEW k \in 1 .. n + 1
        PROVE  a[k] = IF k = 1 THEN 7 ELSE a[k - 1] + md[a[k - 1]] + 2
    <3>1. CASE k = 1
      BY <1>3, <3>1 DEF VariablesStand
    <3>2. CASE k # 1
      <4>1. k - 1 \in 1 .. n /\ (k - 1) + 1 = k /\ k - 1 \in 1 .. n + 1
        BY <1>4, <3>2
      <4>2. a[(k - 1) + 1] = a[k - 1] + 3 /\ md[a[k - 1]] = 1 /\ a[k - 1] \in Nat
        BY <1>3, <4>1 DEF VariablesStand
      <4>3. a[k - 1] + 3 = a[k - 1] + 1 + 2
        BY <4>2
      <4> QED BY <3>2, <4>1, <4>2, <4>3
    <3> QED BY <3>1, <3>2
  <2>2. a = [k \in 1 .. n + 1 |-> a[k]]
    BY <1>3 DEF VariablesStand
  <2>3. EV(a)
    BY <1>4, <2>1, <2>2
  <2> QED BY <2>3
<1>6. v = a
  <2> HIDE DEF v
  <2>1. v = [k \in 1 .. n + 1 |-> IF k = 1 THEN 7 ELSE v[k - 1] + md[v[k - 1]] + 2]
    BY <1>4, <1>5
  <2> DEFINE T == {j \in Nat : j <= n => v[j + 1] = a[j + 1]}
  <2>2. 0 \in T
    <3>1. 1 \in 1 .. n + 1 /\ 0 + 1 = 1
      BY <1>4
    <3>2. v[1] = 7 /\ a[1] = 7
      BY <1>3, <2>1, <3>1 DEF VariablesStand
    <3> QED BY <3>1, <3>2
  <2>3. ASSUME NEW j \in Nat, j \in T PROVE j + 1 \in T
    <3> SUFFICES ASSUME j + 1 <= n PROVE v[(j + 1) + 1] = a[(j + 1) + 1]
      OBVIOUS
    <3>1. /\ j + 1 \in 1 .. n /\ (j + 1) + 1 \in 1 .. n + 1 /\ ((j + 1) + 1) - 1 = j + 1
          /\ (j + 1) + 1 # 1 /\ v[j + 1] = a[j + 1]
      BY <1>4, <2>3
    <3>2. v[(j + 1) + 1] = v[j + 1] + md[v[j + 1]] + 2
      BY <2>1, <3>1
    <3>3. a[(j + 1) + 1] = a[j + 1] + 3 /\ md[a[j + 1]] = 1 /\ a[j + 1] \in Nat
      <4>1. /\ a \in [1 .. n + 1 -> Nat]
            /\ \A k \in 1 .. n : a[k + 1] = a[k] + 3 /\ md[a[k]] = 1
        BY <1>3 DEF VariablesStand
      <4>2. j + 1 \in 1 .. n + 1
        BY <1>4, <3>1
      <4> QED BY <3>1, <4>1, <4>2
    <3>4. a[j + 1] + 1 + 2 = a[j + 1] + 3
      BY <3>3
    <3> QED BY <3>1, <3>2, <3>3, <3>4
  <2>4. Nat \subseteq T
    <3> HIDE DEF T
    <3> QED BY <2>2, <2>3, Induction
  <2>5. ASSUME NEW k \in 1 .. n + 1 PROVE v[k] = a[k]
    <3>1. k - 1 \in Nat /\ k - 1 <= n /\ (k - 1) + 1 = k
      BY <1>4
    <3> QED BY <2>4, <3>1
  <2>6. a \in [1 .. n + 1 -> Nat]
    BY <1>3 DEF VariablesStand
  <2>7. v = [k \in 1 .. n + 1 |-> v[k]]
    BY <2>1
  <2> QED BY <2>5, <2>6, <2>7
<1>7. b \in [1 .. m + 1 -> Nat] /\ b[1] = a[n + 1]
      /\ \A k \in 1 .. m : b[k + 1] = b[k] + 4 + md[b[k] + 3] + md[b[k] + 1]
  <2>1. b \in [1 .. m + 1 -> Nat] /\ b[1] = a[n + 1]
    BY <1>3 DEF SectionsStand
  <2>2. ASSUME NEW k \in 1 .. m PROVE b[k + 1] = b[k] + 4 + md[b[k] + 3] + md[b[k] + 1]
    <3> DEFINE z == sections[k].vsize
    <3>1. b[k + 1] = b[k] + 5 + z /\ md[b[k] + 3] = 1 /\ md[b[k] + 1] = z
      BY <1>3 DEF SectionsStand
    <3>2. z \in Nat /\ b[k] \in Nat
      BY <1>4, <2>1
    <3> HIDE DEF z
    <3>3. b[k] + 4 + 1 + z = b[k] + 5 + z
      BY <3>2
    <3> QED BY <3>1, <3>3
  <2> QED BY <2>1, <2>2
<1>8. ES(s)
  <2> HIDE DEF v
  <2>1. ASSUME NEW k \in 1 .. m + 1
        PROVE  b[k] = IF k = 1 THEN v[n + 1]
                      ELSE b[k - 1] + 4 + md[b[k - 1] + 3] + md[b[k - 1] + 1]
    <3>1. CASE k = 1
      BY <1>6, <1>7, <3>1
    <3>2. CASE k # 1
      <4>1. k - 1 \in 1 .. m /\ (k - 1) + 1 = k
        BY <1>4, <3>2
      <4> QED BY <1>7, <3>2, <4>1
    <3> QED BY <3>1, <3>2
  <2>2. b = [k \in 1 .. m + 1 |-> b[k]]
    BY <1>7
  <2>3. ES(b)
    BY <1>4, <2>1, <2>2
  <2> QED BY <2>3
<1>9. s = b
  <2> HIDE DEF s, v
  <2>1. s = [k \in 1 .. m + 1 |-> IF k = 1 THEN v[n + 1]
                                  ELSE s[k - 1] + 4 + md[s[k - 1] + 3] + md[s[k - 1] + 1]]
    BY <1>4, <1>8
  <2> DEFINE T == {j \in Nat : j <= m => s[j + 1] = b[j + 1]}
  <2>2. 0 \in T
    <3>1. 1 \in 1 .. m + 1 /\ 0 + 1 = 1
      BY <1>4
    <3>2. s[1] = v[n + 1]
      BY <2>1, <3>1
    <3> QED BY <1>6, <1>7, <3>1, <3>2
  <2>3. ASSUME NEW j \in Nat, j \in T PROVE j + 1 \in T
    <3> SUFFICES ASSUME j + 1 <= m PROVE s[(j + 1) + 1] = b[(j + 1) + 1]
      OBVIOUS
    <3>1. /\ j + 1 \in 1 .. m /\ (j + 1) + 1 \in 1 .. m + 1 /\ ((j + 1) + 1) - 1 = j + 1
          /\ (j + 1) + 1 # 1 /\ s[j + 1] = b[j + 1]
      BY <1>4, <2>3
    <3>2. s[(j + 1) + 1] = s[j + 1] + 4 + md[s[j + 1] + 3] + md[s[j + 1] + 1]
      BY <2>1, <3>1
    <3> QED BY <1>7, <3>1, <3>2
  <2>4. Nat \subseteq T
    <3> HIDE DEF T
    <3> QED BY <2>2, <2>3, Induction
  <2>5. ASSUME NEW k \in 1 .. m + 1 PROVE s[k] = b[k]
    <3>1. k - 1 \in Nat /\ k - 1 <= m /\ (k - 1) + 1 = k
      BY <1>4
    <3> QED BY <2>4, <3>1
  <2>6. s = [k \in 1 .. m + 1 |-> s[k]]
    BY <2>1
  <2> QED BY <1>7, <2>5, <2>6
<1> HIDE DEF s, v
<1>10. md[1] = Magic /\ md[2] = Version /\ md[4] = xex.base
  BY <1>2 DEF HeaderStands
<1>11. meta' = [base |-> xex.base, vars |-> [k \in 1 .. n |-> VariableAt(a[k])],
                sections |-> [k \in 1 .. m |-> SectionAt(b[k])]]
  BY <1>1, <1>4, <1>6, <1>9, <1>10
<1> QED BY <1>3, <1>11 DEF n, m


(* The same cells in two sequences. *)
SameFrom(s, p, t, q, z) ==
  /\ s \in Seq(Fields) /\ t \in Seq(Cells)
  /\ p \in Nat /\ q \in Nat /\ z \in Nat /\ p + z <= Len(s) /\ q + z <= Len(t)
  /\ \A j \in 1 .. z : s[p + j] = t[q + j]

SamePart(s, p, t, q, z) == SubSeq(s, p + 1, p + z) = SubSeq(t, q + 1, q + z)

(* Two parts with the same cells are the same. *)
LEMMA SameCells ==
  ASSUME NEW s, NEW t, NEW p, NEW q, NEW z, SameFrom(s, p, t, q, z)
  PROVE  SamePart(s, p, t, q, z)
<1> USE DEF SameFrom
<1>1. (p + z) - (p + 1) + 1 = z /\ (q + z) - (q + 1) + 1 = z
      /\ Len(s) \in Nat /\ Len(t) \in Nat
  OBVIOUS
<1>2. \A j \in 1 .. z : (p + 1) + j - 1 = p + j /\ (q + 1) + j - 1 = q + j
  OBVIOUS
<1>3. DOMAIN SubSeq(s, p + 1, p + z) = 1 .. z /\ DOMAIN SubSeq(t, q + 1, q + z) = 1 .. z
  BY <1>1
<1>4. \A j \in 1 .. z : SubSeq(s, p + 1, p + z)[j] = s[p + j] /\ SubSeq(t, q + 1, q + z)[j] = t[q + j]
  BY <1>1, <1>2, SMTT(20)
<1>5. SubSeq(s, p + 1, p + z) \in Seq(Fields) /\ SubSeq(t, q + 1, q + z) \in Seq(Cells)
  BY <1>1
<1> DEFINE u == SubSeq(s, p + 1, p + z)
           v == SubSeq(t, q + 1, q + z)
<1>6. u = [j \in 1 .. z |-> u[j]] /\ v = [j \in 1 .. z |-> v[j]]
  BY <1>1, <1>3, <1>5
<1>7. \A j \in 1 .. z : u[j] = v[j]
  BY <1>4
<1> HIDE DEF u, v
<1>8. u = v
  BY <1>6, <1>7
<1> QED BY <1>8 DEF u, v, SamePart

(* importMetadata reads what exportMetadata wrote. *)
LEMMA ImportMetadataStep ==
  ASSUME IInv, ImportMetadata, file' = file
  PROVE  IInv'
<1> USE DEF Go, loaded
<1>1. /\ pc = "runtime" /\ pc' = "booted" /\ pc \in Read /\ pc' \in Read
      /\ pc \in Opened \ {"headers"} /\ pc' \in Opened \ {"headers"} /\ pc' \in Steps
      /\ at' = 1 /\ UNCHANGED loaded /\ md' = md
  BY DEF ImportMetadata, Read, Opened, Steps
<1>2. Typed'
  BY <1>1 DEF IInv, Typed, Opened
<1>3. Named' /\ Copying' /\ Imported'
  BY <1>1, NamedKept, CopyingKept, ImportedKept
<1> DEFINE n == Len(Lonely)
           m == Len(sections)
<1>4. PICK a, b : /\ VariablesStand(a, n) /\ SectionsStand(b, m, a[n + 1])
                  /\ meta' = [base |-> xex.base, vars |-> [k \in 1 .. n |-> VariableAt(a[k])],
                              sections |-> [k \in 1 .. m |-> SectionAt(b[k])]]
  BY ReadInOrder
<1>5. /\ Lonely \in Seq(ImportRecords) /\ sections \in Seq(SectionHeaders)
      /\ memory \in Seq(Cells) /\ md \in Seq(Fields)
  BY <1>1, LonelyAre, MetaStands DEF IInv, Typed, HeaderStands
<1>6. /\ n \in Nat /\ m \in Nat /\ DOMAIN Lonely = 1 .. n /\ DOMAIN sections = 1 .. m
      /\ \A k \in 1 .. m : sections[k].voff \in Nat /\ sections[k].vsize \in Nat
  <2>1. \A k \in 1 .. m : sections[k] \in SectionHeaders
    BY <1>5
  <2> QED BY <1>5, <2>1, HeaderNats
<1> HIDE DEF n, m
<1>7. ASSUME NEW k \in 1 .. n
      PROVE  VariableAt(a[k]) = [name |-> Lonely[k].name, addr |-> Lonely[k].addr]
  <2>1. md[a[k]] = 1 /\ md[a[k] + 1] = Lonely[k].name /\ md[a[k] + 2] = Lonely[k].addr
    BY <1>4 DEF VariablesStand
  <2>2. a[k] \in Nat
    <3>1. k \in 1 .. n + 1 /\ a \in [1 .. n + 1 -> Nat]
      BY <1>4, <1>6 DEF VariablesStand
    <3> QED BY <3>1
  <2>3. a[k] + 1 + 1 = a[k] + 2
    BY <2>2
  <2> QED BY <2>1, <2>3 DEF VariableAt
<1>8. ASSUME NEW k \in 1 .. m
      PROVE  /\ SectionAt(b[k]).offset = sections[k].voff
             /\ SectionAt(b[k]).name = sections[k].name
             /\ sections[k].voff + sections[k].vsize <= Len(memory) =>
                  SectionAt(b[k]).data = SubSeq(memory, sections[k].voff + 1,
                                                sections[k].voff + sections[k].vsize)
  <2> DEFINE z == sections[k].vsize
             q == sections[k].voff
             p == b[k] + 4
  <2>1. /\ md[b[k]] = q /\ md[b[k] + 1] = z /\ md[b[k] + 3] = 1
        /\ md[b[k] + 4] = sections[k].name /\ p + z <= Len(md)
        /\ \A j \in 1 .. z : md[p + j] = CellAt(q + j)
    BY <1>4 DEF SectionsStand
  <2>2. b[k] \in Nat
    <3>1. k \in 1 .. m + 1 /\ b \in [1 .. m + 1 -> Nat]
      BY <1>4, <1>6 DEF SectionsStand
    <3> QED BY <3>1
  <2>3. q \in Nat /\ z \in Nat /\ p \in Nat
    BY <1>6, <2>2
  <2>4. SectionAt(b[k]) = [offset |-> q, size |-> z, name |-> sections[k].name,
                           data |-> SubSeq(md, p + 1, p + z)]
    <3>1. b[k] + 4 + 1 = p + 1 /\ b[k] + 3 + 1 = p /\ b[k] + 3 + 1 + z = p + z
      BY <2>2, <2>3
    <3> HIDE DEF q, z
    <3> QED BY <2>1, <3>1 DEF SectionAt
  <2>5. ASSUME q + z <= Len(memory)
        PROVE  SubSeq(md, p + 1, p + z) = SubSeq(memory, q + 1, q + z)
    <3> HIDE DEF p, q, z
    <3>1. \A j \in 1 .. z : md[p + j] = memory[q + j]
      <4>1. \A j \in 1 .. z : q + j \in DOMAIN memory
        BY <1>5, <2>3, <2>5
      <4> QED BY <2>1, <4>1 DEF CellAt
    <3>2. SameFrom(md, p, memory, q, z)
      BY <1>5, <2>1, <2>3, <2>5, <3>1 DEF SameFrom
    <3>3. SamePart(md, p, memory, q, z)
      BY <3>2, SameCells
    <3> QED BY <3>3 DEF SamePart
  <2> DEFINE c == SubSeq(md, p + 1, p + z)
             d == SubSeq(memory, q + 1, q + z)
  <2>6. SectionAt(b[k]) = [offset |-> q, size |-> z, name |-> sections[k].name, data |-> c]
    BY <2>4
  <2>7. q + z <= Len(memory) => c = d
    BY <2>5
  <2> SUFFICES /\ SectionAt(b[k]).offset = q /\ SectionAt(b[k]).name = sections[k].name
               /\ q + z <= Len(memory) => SectionAt(b[k]).data = d
    OBVIOUS
  <2> HIDE DEF c, d, q, z
  <2> QED BY <2>6, <2>7
<1>9. MetadataSurvives'
  <2>1. Lonely' = Lonely /\ xex' = xex /\ sections' = sections /\ memory' = memory
    BY <1>1, LonelySame
  <2>2. meta'.base = xex.base /\ meta'.vars = [k \in 1 .. n |-> VariableAt(a[k])]
        /\ meta'.sections = [k \in 1 .. m |-> SectionAt(b[k])]
    BY <1>4
  <2> DEFINE vs == meta'.vars
             ss == meta'.sections
  <2>3. DOMAIN vs = 1 .. n /\ \A k \in 1 .. n : vs[k].name = Lonely[k].name /\ vs[k].addr = Lonely[k].addr
    <3>1. DOMAIN vs = 1 .. n /\ \A k \in 1 .. n : vs[k] = VariableAt(a[k])
      BY <2>2
    <3> HIDE DEF vs
    <3>2. \A k \in 1 .. n : vs[k] = [name |-> Lonely[k].name, addr |-> Lonely[k].addr]
      BY <1>7, <3>1
    <3> QED BY <3>1, <3>2
  <2>4. DOMAIN ss = 1 .. m /\ Len(ss) = m /\ \A k \in 1 .. m : ss[k] = SectionAt(b[k])
    BY <1>6, <2>2
  <2> HIDE DEF vs, ss
  <2>5. {<<v.name, v.addr>> : v \in ToSet(vs)} = {<<i.name, i.addr>> : i \in ToSet(Lonely)}
    BY <1>6, <2>3, SMTT(20) DEF ToSet
  <2>6. meta'.vars = vs /\ meta'.sections = ss
    BY DEF vs, ss
  <2>7. \A k \in 1 .. m : /\ ss[k].offset = sections[k].voff
                          /\ ss[k].name = sections[k].name
                          /\ sections[k].voff + sections[k].vsize <= Len(memory) =>
                               ss[k].data = SubSeq(memory, sections[k].voff + 1,
                                                   sections[k].voff + sections[k].vsize)
    BY <1>8, <2>4
  <2>8. Len(ss) = Len(sections)
    BY <2>4 DEF m
  <2> QED BY <1>6, <2>1, <2>2, <2>5, <2>6, <2>7, <2>8 DEF MetadataSurvives
<1>10. Exported'
  BY <1>1, <1>9 DEF Exported
<1> QED BY <1>2, <1>3, <1>10 DEF IInv


-----------------------------------------------------------------------------
(* The specification.                                                      *)
(* Every step keeps the invariant. *)
LEMMA StepHolds == IInv /\ [Next]_vars => IInv'
<1> SUFFICES ASSUME IInv, [Next]_vars PROVE IInv'
  OBVIOUS
<1>1. CASE OpenFile /\ file' = file
  BY <1>1, OpenFileStep
<1>2. CASE ProcessHeader /\ file' = file
  BY <1>2, ProcessHeaderStep
<1>3. CASE FinishHeaders /\ file' = file
  BY <1>3, FinishHeadersStep
<1>4. CASE StartImage /\ file' = file
  BY <1>4, StartImageStep
<1>5. CASE CopyBlock /\ file' = file
  BY <1>5, CopyBlockStep
<1>6. CASE FinishImage /\ file' = file
  BY <1>6, FinishImageStep
<1>7. CASE LoadPEImage /\ file' = file
  BY <1>7, LoadPEImageStep
<1>8. CASE PatchImport /\ file' = file
  BY <1>8, PatchImportStep
<1>9. CASE FinishImports /\ file' = file
  BY <1>9, FinishImportsStep
<1>10. CASE CarryOn /\ file' = file
  BY <1>10, CarryOnStep
<1>11. CASE ExportMetadata /\ file' = file
  BY <1>11, ExportMetadataStep
<1>12. CASE ImportMetadata /\ file' = file
  BY <1>12, ImportMetadataStep
<1>13. CASE UNCHANGED vars
  <2> USE <1>13 DEF vars
  <2>1. Opts' = Opts /\ NamesOfHeaders' = NamesOfHeaders /\ Libraries' = Libraries
    BY FileSame
  <2>2. Lonely' = Lonely
    BY LonelySame
  <2>3. /\ \A p : Expanded(p)' = Expanded(p) /\ Behind(p)' = Behind(p) /\ Plain(p)' = Plain(p)
        /\ \A i : Recorded(i)' = Recorded(i) /\ Taken(i)' = Taken(i)
        /\ \A s : SectionFields(s)' = SectionFields(s)
        /\ \A v : Header(v)' = Header(v)
        /\ AddsUp' = AddsUp
    BY DEF Expanded, BlockOf, Behind, Stored, AddsUp, DataAt, Plain, RightKey, Recorded, Taken, WordAt, NameOf,
           Skipped, Found, SectionFields, Header
  <2>4. Typed'
    BY DEF IInv, Typed
  <2>5. Named'
    BY <2>1 DEF IInv, Named
  <2>6. Copying'
    <3>1. \A n : CopiedBlocks(n)' = CopiedBlocks(n)
      BY <2>3 DEF CopiedBlocks, CopiedTo
    <3> QED BY <2>3, <3>1 DEF IInv, Copying, ImageAsDescribed, SectionsInside
  <2>7. Imported'
    BY <2>3 DEF IInv, Imported
  <2>8. Exported'
    <3>1. MetaData' = MetaData
      BY <2>2, <2>3 DEF MetaData
    <3> QED BY <2>2, <3>1 DEF IInv, Exported, MetadataSurvives
  <2> QED BY <2>4, <2>5, <2>6, <2>7, <2>8 DEF IInv
<1> QED
  BY <1>1, <1>2, <1>3, <1>4, <1>5, <1>6, <1>7, <1>8, <1>9, <1>10, <1>11, <1>12, <1>13
  DEF Next, LoadXex

(* The invariant holds in every state the loader reaches. *)
THEOREM LoaderInvariance == Spec => []IInv
BY InitHolds, StepHolds, PTL DEF Spec

(* When the sizes of its blocks add up to a number of 32 bits the loaded   *)
(* image is the one that they describe: LoadImageDataBasic puts every cell *)
(* in its place, and the chain of the cipher is not broken between blocks. *)
(* Whatever the sizes, LoadPEImage puts behind it what the sections there  *)
(* have in the file, as it stands in the file and so encrypted if that is, *)
(* and zeros elsewhere.                                                    *)
THEOREM ImageIsDescribed == Spec => []ImageAsDescribed
<1>1. IInv => ImageAsDescribed
  BY DEF IInv, Copying
<1> QED BY <1>1, LoaderInvariance, PTL

(* Every section that LoadPEImage keeps and whose end is a number of 32    *)
(* bits lies in the image.                                                 *)
THEOREM SectionsLieInside == Spec => []SectionsInside
<1>1. IInv => SectionsInside
  BY DEF IInv, Copying
<1> QED BY <1>1, LoaderInvariance, PTL

(* When every library has a name, PatchImports names every import after    *)
(* the entry of the table that its record counts.                          *)
THEOREM ImportsAreRecorded == Spec => []ImportsAsRecorded
<1>1. IInv => ImportsAsRecorded
  <2> SUFFICES ASSUME IInv, pc \in {"loaded", "runtime", "booted"}, "" \notin ToSet(Libraries),
                      NEW i \in ToSet(imports)
               PROVE  LET word == WordAt(i.addr - xex.base) IN
                      /\ i.addr \in ToSet(xex.records)
                      /\ \E e \in Table : e.lib = Libraries[word.lib + 1]
                                            /\ e.ordinal = word.ordinal /\ e.name = i.name
    BY DEF ImportsAsRecorded
  <2>1. Recorded(i)
    BY DEF IInv, Imported, Read
  <2>2. xex.libNames = Libraries
    BY DEF IInv, Named, Opened, Steps
  <2> QED BY <2>1, <2>2 DEF Recorded, NameOf, Found
<1> QED BY <1>1, LoaderInvariance, PTL

(* An import by its record: the word there, and the name the table has.    *)
LEMMA AskedFor ==
  ASSUME IInv, pc = "booted", NEW i \in ToSet(imports)
  PROVE  LET word == WordAt(i.addr - xex.base) IN
         /\ i.addr \in ToSet(xex.records) /\ word \in Asked /\ word \in Words
         /\ i.type = IF word.type = 0 THEN "variable" ELSE "function"
         /\ \E e \in Found(NameOf(word), word.ordinal) : e.name = i.name
<1> DEFINE o == i.addr - xex.base
           word == WordAt(o)
<1>1. Recorded(i)
  BY DEF IInv, Imported, Read
<1>2. o + 1 \in DOMAIN memory /\ memory \in Seq(Cells)
  BY <1>1 DEF Recorded, IInv, Typed
<1>3. word \in Words
  <2>1. memory[o + 1] \in Cells
    BY <1>2
  <2> HIDE DEF o
  <2> QED BY <2>1 DEF WordAt, Words
<1>4. word \in Asked
  BY <1>1 DEF Recorded, Asked
<1> QED BY <1>1, <1>3, <1>4 DEF Recorded

(* Where names tell the imports apart, exportMetadata keeps the variables  *)
(* that no function goes with, and no other.                               *)
LEMMA LonelyByRecord ==
  ASSUME IInv, pc = "booted", NamesTellApart, NEW r
  PROVE  (\E i \in ToSet(imports) : IsLonely(i) /\ i.addr = r)
           <=> /\ r \in ToSet(xex.records)
               /\ LET word == WordAt(r - xex.base) IN
                  word.type = 0 /\ ~ Skipped(word) /\ ~ IsCalled(word)
<1> DEFINE At(q) == WordAt(q - xex.base)
           word == At(r)
<1>1. ASSUME NEW i \in ToSet(imports)
      PROVE  /\ i.addr \in ToSet(xex.records) /\ At(i.addr) \in Asked /\ At(i.addr) \in Words
             /\ i.type = IF At(i.addr).type = 0 THEN "variable" ELSE "function"
             /\ \E e \in Found(NameOf(At(i.addr)), At(i.addr).ordinal) : e.name = i.name
  BY AskedFor
<1>2. ASSUME NEW q \in ToSet(xex.records), ~ Skipped(At(q))
      PROVE  \E i \in ToSet(imports) : i.addr = q
  <2>1. xex.records \in Seq(Nat)
    BY DEF IInv, Typed, XexData
  <2>2. PICK k \in 1 .. Len(xex.records) : q = xex.records[k]
    BY <2>1, ElementOf
  <2>3. Taken(xex.records[k])
    BY <2>2 DEF IInv, Imported, Read
  <2> QED BY <1>2, <2>2, <2>3 DEF Taken
<1>3. \A w \in Asked : ~ Skipped(w)
  BY DEF Asked
<1>4. ASSUME NEW i \in ToSet(imports), NEW j \in ToSet(imports)
      PROVE  i.name = j.name <=> /\ At(i.addr).lib = At(j.addr).lib
                                 /\ At(i.addr).ordinal = At(j.addr).ordinal
  <2> HIDE DEF At
  <2>1. PICK e \in Found(NameOf(At(i.addr)), At(i.addr).ordinal) : e.name = i.name
    BY <1>1
  <2>2. PICK f \in Found(NameOf(At(j.addr)), At(j.addr).ordinal) : f.name = j.name
    BY <1>1
  <2> QED BY <1>1, <2>1, <2>2 DEF NamesTellApart
<1> HIDE DEF At
<1>5. IsCalled(word) <=> \E q \in ToSet(xex.records) : At(q) = [word EXCEPT !.type = 1]
  BY DEF IsCalled, At
<1>6. ASSUME NEW i \in ToSet(imports), IsLonely(i), i.addr = r
      PROVE  r \in ToSet(xex.records) /\ word.type = 0 /\ ~ Skipped(word) /\ ~ IsCalled(word)
  <2>1. r \in ToSet(xex.records) /\ word \in Asked /\ word \in Words /\ word.type = 0
    BY <1>1, <1>6 DEF IsLonely
  <2>2. ASSUME NEW q \in ToSet(xex.records), At(q) = [word EXCEPT !.type = 1] PROVE FALSE
    <3>1. At(q).type = 1 /\ At(q).lib = word.lib /\ At(q).ordinal = word.ordinal
      BY <2>1, <2>2 DEF Words
    <3>2. ~ Skipped(At(q))
      BY <1>3, <2>1, <3>1 DEF Skipped
    <3>3. PICK j \in ToSet(imports) : j.addr = q
      BY <1>2, <3>2
    <3>4. j.type = "function" /\ i.name = j.name
      BY <1>1, <1>4, <1>6, <3>1, <3>3
    <3>5. \E k \in DOMAIN imports : imports[k] = j
      BY DEF ToSet
    <3> QED BY <1>6, <3>4, <3>5 DEF IsLonely
  <2> QED BY <1>3, <1>5, <2>1, <2>2
<1>7. ASSUME r \in ToSet(xex.records), word.type = 0, ~ Skipped(word), ~ IsCalled(word)
      PROVE  \E i \in ToSet(imports) : IsLonely(i) /\ i.addr = r
  <2>1. PICK i \in ToSet(imports) : i.addr = r
    BY <1>2, <1>7
  <2>2. i.type = "variable" /\ word \in Words
    BY <1>1, <1>7, <2>1
  <2>3. ASSUME NEW k \in DOMAIN imports, imports[k].type = "function", imports[k].name = i.name
        PROVE  FALSE
    <3> DEFINE j == imports[k]
    <3>1. j \in ToSet(imports)
      BY DEF ToSet
    <3> HIDE DEF j
    <3>2. /\ At(j.addr) \in Words /\ j.addr \in ToSet(xex.records)
          /\ At(j.addr).lib = word.lib /\ At(j.addr).ordinal = word.ordinal
      BY <1>1, <1>4, <2>1, <2>3, <3>1 DEF j
    <3>3. At(j.addr).type = 1
      <4>1. j.type = "function"
        BY <2>3 DEF j
      <4>2. At(j.addr) \in Asked /\ At(j.addr).type # 0
        BY <1>1, <3>1, <4>1
      <4> QED BY <1>3, <4>2 DEF Skipped
    <3> DEFINE w == At(j.addr)
    <3>4. w = [word EXCEPT !.type = 1]
      <4> HIDE DEF w, word
      <4> SUFFICES ASSUME w \in Words, word \in Words, w.lib = word.lib,
                          w.ordinal = word.ordinal, w.type = 1
                   PROVE  w = [word EXCEPT !.type = 1]
        BY <2>2, <3>2, <3>3 DEF w
      <4> QED BY DEF Words
    <3> QED BY <1>5, <1>7, <3>2, <3>4
  <2> QED BY <2>1, <2>2, <2>3 DEF IsLonely
<1> QED BY <1>6, <1>7 DEF At

(* The runtime is given exactly the variables that no function goes with,  *)
(* whatever the records of the file and in whatever order: PatchImports    *)
(* leaves none out, and when names tell the imports apart exportMetadata   *)
(* finds the function of each by its name.                                 *)
THEOREM VariablesAreOfNoFunction == Spec => []VariablesOfNoFunction
<1>1. IInv => VariablesOfNoFunction
  <2> SUFFICES ASSUME IInv, pc = "booted", NamesTellApart
               PROVE  {v.addr : v \in ToSet(meta.vars)} =
                        {r \in ToSet(xex.records) :
                           LET word == WordAt(r - xex.base) IN
                           word.type = 0 /\ ~ Skipped(word) /\ ~ IsCalled(word)}
    BY DEF VariablesOfNoFunction
  <2>1. {<<v.name, v.addr>> : v \in ToSet(meta.vars)} = {<<i.name, i.addr>> : i \in ToSet(Lonely)}
    BY DEF IInv, Exported, MetadataSurvives
  <2>2. {v.addr : v \in ToSet(meta.vars)} = {i.addr : i \in ToSet(Lonely)}
    <3>1. \A v \in ToSet(meta.vars) : \E i \in ToSet(Lonely) : v.addr = i.addr
      <4> TAKE v \in ToSet(meta.vars)
      <4>1. <<v.name, v.addr>> \in {<<i.name, i.addr>> : i \in ToSet(Lonely)}
        BY <2>1
      <4> QED BY <4>1
    <3>2. \A i \in ToSet(Lonely) : \E v \in ToSet(meta.vars) : v.addr = i.addr
      <4> TAKE i \in ToSet(Lonely)
      <4>1. <<i.name, i.addr>> \in {<<v.name, v.addr>> : v \in ToSet(meta.vars)}
        BY <2>1
      <4> QED BY <4>1
    <3> QED BY <3>1, <3>2
  <2>3. \A i : i \in ToSet(Lonely) <=> i \in ToSet(imports) /\ IsLonely(i)
    <3> DEFINE T == {i \in ToSet(imports) : IsLonely(i)}
    <3>1. Lonely = Kept(imports, T) /\ imports \in Seq(ImportRecords)
      BY DEF Lonely, IInv, Typed
    <3> HIDE DEF T
    <3>2. /\ \A e \in ToSet(Kept(imports, T)) : e \in ToSet(imports) /\ e \in T
          /\ \A e \in ToSet(imports) : e \in T => e \in ToSet(Kept(imports, T))
      BY <3>1, KeptAre
    <3> QED BY <3>1, <3>2 DEF T
  <2> QED BY <2>2, <2>3, LonelyByRecord
<1> QED BY <1>1, LoaderInvariance, PTL

(* What importMetadata reads from the file is what exportMetadata wrote to *)
(* it: the variables that no function goes with, and every section, with   *)
(* its cells where it lies in the image, wherever the lengths of names and *)
(* sections put them.                                                      *)
THEOREM MetadataIsRead == Spec => []MetadataSurvives
<1>1. IInv => MetadataSurvives
  BY DEF IInv, Exported
<1> QED BY <1>1, LoaderInvariance, PTL
=============================================================================
