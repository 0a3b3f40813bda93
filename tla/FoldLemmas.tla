----------------------------- MODULE FoldLemmas -----------------------------
(***************************************************************************)
(* What the proofs about folds and least elements rest on: induction over  *)
(* the naturals stated of sets, so that no theorem is instantiated with a  *)
(* predicate; least and greatest elements; and the recursive function that *)
(* FoldLeft is defined by, which exists whenever the operator folded stays *)
(* within a set.                                                           *)
(***************************************************************************)
EXTENDS Integers, FiniteSets, FiniteSetsExt, FiniteSetTheorems, TLAPS

(* A set of subsets of a finite set has one that includes no other. *)
LEMMA Smallest ==
  ASSUME NEW S, IsFiniteSet(S), NEW T \in SUBSET SUBSET S, T # {}
  PROVE  \E x \in T : \A y \in T : y \subseteq x => y = x
<1> DEFINE R == StrictSubsetOrdering(S)
<1>1. IsWellFoundedOn(R, SUBSET S)
  BY FS_StrictSubsetOrderingWellFounded, FS_FiniteSubsetsOfFinite
<1> HIDE DEF R
<1>2. \E x \in T : \A y \in T : ~ (<<y, x>> \in R)
  BY <1>1, WFMin
<1> QED BY <1>2 DEF R, StrictSubsetOrdering

(* Induction over the natural numbers. *)
LEMMA Induction ==
  ASSUME NEW T, 0 \in T, \A n \in Nat : n \in T => n + 1 \in T
  PROVE  Nat \subseteq T
<1> SUFFICES ASSUME NEW m \in Nat, m \notin T PROVE FALSE
  OBVIOUS
<1> DEFINE U == {s \in SUBSET (0 .. m) : \E k \in Nat : k \notin T /\ s = 0 .. k}
<1>1. IsFiniteSet(0 .. m)
  BY FS_Interval
<1>2. U \in SUBSET SUBSET (0 .. m) /\ U # {}
  <2>1. 0 .. m \in U
    OBVIOUS
  <2> QED BY <2>1
<1>3. PICK s \in U : \A t \in U : t \subseteq s => t = s
  <2> DEFINE S == 0 .. m
  <2>1. IsFiniteSet(S) /\ U \in SUBSET SUBSET S /\ U # {}
    BY <1>1, <1>2
  <2> HIDE DEF U, S
  <2> QED BY <2>1, Smallest
<1>4. PICK k \in Nat : k \notin T /\ s = 0 .. k
  BY <1>3
<1>5. k # 0 /\ k - 1 \in Nat
  BY <1>4
<1>6. k - 1 \notin T
  BY <1>4, <1>5
<1>7. 0 .. (k - 1) \in U
  <2>1. 0 .. (k - 1) \subseteq 0 .. k
    BY <1>5
  <2> QED BY <1>3, <1>4, <1>5, <1>6, <2>1
<1>8. 0 .. (k - 1) \subseteq s /\ k \in s /\ k \notin 0 .. (k - 1)
  BY <1>4, <1>5
<1> QED BY <1>3, <1>7, <1>8

(* A set of integers with a lower bound has a least element. *)
LEMMA MinIs ==
  ASSUME NEW S \in SUBSET Int, S # {}, NEW a \in Int, \A x \in S : a <= x
  PROVE  Min(S) \in S /\ \A x \in S : Min(S) <= x
<1> DEFINE T == {n \in Nat : \A x \in S : a + n <= x}
<1>1. \E x \in S : \A y \in S : x <= y
  <2> SUFFICES ASSUME ~ \E x \in S : \A y \in S : x <= y PROVE FALSE
    OBVIOUS
  <2>1. 0 \in T
    OBVIOUS
  <2>2. ASSUME NEW n \in Nat, n \in T PROVE n + 1 \in T
    <3>1. ASSUME NEW x \in S PROVE a + (n + 1) <= x
      <4>1. a + n <= x /\ \A y \in S : a + n <= y
        BY <2>2
      <4>2. a + n # x
        BY <4>1
      <4> QED BY <4>1, <4>2
    <3> QED BY <3>1
  <2>3. Nat \subseteq T
    <3> HIDE DEF T
    <3> QED BY <2>1, <2>2, Induction
  <2>4. PICK x \in S : TRUE
    OBVIOUS
  <2>5. x - a + 1 \in Nat
    BY <2>4
  <2>6. x - a + 1 \in T
    <3> HIDE DEF T
    <3> QED BY <2>3, <2>5
  <2>7. a + (x - a + 1) <= x
    BY <2>6
  <2> QED BY <2>7, <2>4
<1> QED BY <1>1 DEF Min

(* A set of integers with an upper bound has a greatest element. *)
LEMMA MaxIs ==
  ASSUME NEW S \in SUBSET Int, S # {}, NEW a \in Int, \A x \in S : x <= a
  PROVE  Max(S) \in S /\ \A x \in S : x <= Max(S)
<1> DEFINE M == {-x : x \in S}
<1>1. M \in SUBSET Int /\ M # {} /\ -a \in Int
  <2>1. PICK x \in S : TRUE
    OBVIOUS
  <2>2. -x \in M
    BY <2>1
  <2> QED BY <2>2
<1>2. \A y \in M : -a <= y
  OBVIOUS
<1>3. Min(M) \in M /\ \A y \in M : Min(M) <= y
  <2> HIDE DEF M
  <2> QED BY <1>1, <1>2, MinIs
<1>4. PICK x \in S : Min(M) = -x
  BY <1>3
<1>5. ASSUME NEW y \in S PROVE y <= x
  <2>1. -y \in M
    BY <1>5
  <2>2. -x <= -y
    BY <2>1, <1>3, <1>4
  <2> QED BY <2>2
<1> QED BY <1>5 DEF Max

LEMMA MaxOfInterval == \A k \in Nat \ {0} : Max(1 .. k) = k
<1> SUFFICES ASSUME NEW k \in Nat \ {0} PROVE Max(1 .. k) = k
  OBVIOUS
<1>1. 1 .. k \in SUBSET Int /\ 1 .. k # {} /\ k \in 1 .. k /\ \A x \in 1 .. k : x <= k
  OBVIOUS
<1>2. Max(1 .. k) \in 1 .. k /\ \A x \in 1 .. k : x <= Max(1 .. k)
  BY <1>1, MaxIs
<1> QED BY <1>1, <1>2

(* The greatest of some of the indices is one of them. *)
LEMMA MaxOfSome ==
  ASSUME NEW n \in Nat, NEW s \in SUBSET (1 .. n), s # {}
  PROVE  Max(s) \in 1 .. n
<1>1. s \in SUBSET Int /\ \A x \in s : x <= n
  OBVIOUS
<1>2. Max(s) \in s
  BY <1>1, MaxIs
<1> QED BY <1>2

-----------------------------------------------------------------------------
(* FoldLeft over a sequence of length n folds over the subsets of 1 .. n,  *)
(* greatest element last.  h is the operator folded, on the values V.      *)
FoldEquation(g, n, b, h) ==
  g = [s \in SUBSET (1 .. n) |->
         IF s = {} THEN b ELSE h[<<g[s \ {Max(s)}], Max(s)>>]]

FoldDefined(n, V, b, h) == \E g \in [SUBSET (1 .. n) -> V] : FoldEquation(g, n, b, h)

(* The empty fold is the base. *)
LEMMA FoldNone ==
  ASSUME NEW V, NEW b \in V, NEW h
  PROVE  FoldDefined(0, V, b, h)
<1> DEFINE I == 1 .. 0
           g == [s \in SUBSET I |-> b]
<1>1. I = {}
  OBVIOUS
<1>2. g \in [SUBSET I -> V]
  OBVIOUS
<1>3. g = [s \in SUBSET I |-> IF s = {} THEN b ELSE h[<<g[s \ {Max(s)}], Max(s)>>]]
  BY <1>1
<1> QED BY <1>2, <1>3 DEF FoldDefined, FoldEquation

(* A fold over 1 .. k is extended to the subsets that hold k + 1. *)
LEMMA FoldMore ==
  ASSUME NEW k \in Nat, NEW V, NEW b \in V, NEW h,
         \A v \in V : h[<<v, k + 1>>] \in V,
         FoldDefined(k, V, b, h)
  PROVE  FoldDefined(k + 1, V, b, h)
<1> DEFINE I == 1 .. (k + 1)
           J == 1 .. k
           m == k + 1
<1>1. PICK f \in [SUBSET J -> V] :
             f = [s \in SUBSET J |-> IF s = {} THEN b ELSE h[<<f[s \ {Max(s)}], Max(s)>>]]
  BY DEF FoldDefined, FoldEquation
<1> DEFINE g == [s \in SUBSET I |-> IF m \in s THEN h[<<f[s \ {m}], m>>] ELSE f[s]]
<1>2. I = J \cup {m} /\ m \notin J
  OBVIOUS
<1>3. ASSUME NEW s \in SUBSET I, s # {}
      PROVE  Max(s) \in s /\ (m \in s => Max(s) = m)
  <2>1. s \in SUBSET Int /\ m \in Int /\ \A x \in s : x <= m
    OBVIOUS
  <2>2. Max(s) \in s /\ \A x \in s : x <= Max(s)
    <3> HIDE DEF m
    <3> QED BY <1>3, <2>1, MaxIs
  <2>3. m \in s => Max(s) <= m /\ m <= Max(s) /\ Max(s) \in Int /\ m \in Int
    BY <2>1, <2>2
  <2>4. m \in s => Max(s) = m
    <3> HIDE DEF m
    <3> QED BY <2>3
  <2> QED BY <2>2, <2>4
<1> HIDE DEF I, J, m
<1>4. g \in [SUBSET I -> V]
  <2>1. ASSUME NEW s \in SUBSET I, m \in s
        PROVE  h[<<f[s \ {m}], m>>] \in V
    <3>1. f[s \ {m}] \in V
      BY <1>1, <1>2
    <3> QED BY <3>1 DEF m
  <2>2. ASSUME NEW s \in SUBSET I, m \notin s
        PROVE  f[s] \in V
    BY <1>1, <1>2, <2>2
  <2> QED BY <2>1, <2>2
<1>5. ASSUME NEW s \in SUBSET I
      PROVE  g[s] = IF s = {} THEN b ELSE h[<<g[s \ {Max(s)}], Max(s)>>]
  <2>1. CASE s = {}
    BY <2>1, <1>1
  <2>2. CASE m \in s
    <3>1. Max(s) = m /\ s # {} /\ s \ {m} \in SUBSET I /\ m \notin s \ {m}
      BY <2>2, <1>3
    <3>2. g[s \ {m}] = f[s \ {m}] /\ g[s] = h[<<f[s \ {m}], m>>]
      BY <3>1, <2>2
    <3> QED BY <3>1, <3>2
  <2>3. CASE s # {} /\ m \notin s
    <3>1. s \in SUBSET J /\ s \ {Max(s)} \in SUBSET I /\ m \notin s \ {Max(s)}
      BY <2>3, <1>2
    <3>2. g[s] = f[s] /\ g[s \ {Max(s)}] = f[s \ {Max(s)}]
      BY <2>3, <3>1
    <3>3. f[s] = h[<<f[s \ {Max(s)}], Max(s)>>]
      BY <3>1, <2>3, <1>1
    <3> QED BY <3>2, <3>3, <2>3
  <2> QED BY <2>1, <2>2, <2>3
<1>6. g = [s \in SUBSET I |-> IF s = {} THEN b ELSE h[<<g[s \ {Max(s)}], Max(s)>>]]
  BY <1>5
<1> QED BY <1>4, <1>6 DEF FoldDefined, FoldEquation, I, m

(* An operator that stays within V can be folded over any sequence. *)
LEMMA FoldExists ==
  ASSUME NEW n \in Nat, NEW V, NEW b \in V, NEW h,
         \A v \in V, i \in 1 .. n : h[<<v, i>>] \in V
  PROVE  FoldDefined(n, V, b, h)
<1> DEFINE T == {k \in Nat : k <= n => FoldDefined(k, V, b, h)}
<1>1. 0 \in T
  BY FoldNone
<1>2. ASSUME NEW k \in Nat, k \in T PROVE k + 1 \in T
  <2>1. CASE k + 1 <= n
    <3>1. FoldDefined(k, V, b, h) /\ k + 1 \in 1 .. n
      BY <1>2, <2>1
    <3>2. FoldDefined(k + 1, V, b, h)
      BY <3>1, FoldMore
    <3> QED BY <3>2
  <2> QED BY <2>1
<1>3. Nat \subseteq T
  <2> HIDE DEF T
  <2> QED BY <1>1, <1>2, Induction
<1> QED BY <1>3

(* What every step of a fold keeps holds of the whole. *)
LEMMA FoldStays ==
  ASSUME NEW n \in Nat, NEW V, NEW g, g[{}] \in V,
         \A k \in Nat : k < n /\ g[1 .. k] \in V => g[1 .. (k + 1)] \in V
  PROVE  g[1 .. n] \in V
<1> DEFINE P == {k \in Nat : k <= n => g[1 .. k] \in V}
<1>1. 0 \in P
  <2>1. 1 .. 0 = {}
    OBVIOUS
  <2> QED BY <2>1
<1>2. ASSUME NEW k \in Nat, k \in P PROVE k + 1 \in P
  <2>1. k + 1 <= n => k < n /\ g[1 .. k] \in V
    BY <1>2
  <2>2. k + 1 <= n => g[1 .. (k + 1)] \in V
    BY <2>1
  <2> QED BY <2>2
<1>3. Nat \subseteq P
  <2> HIDE DEF P
  <2> QED BY <1>1, <1>2, Induction
<1>4. n \in P
  BY <1>3
<1> QED BY <1>4

(* The values of a fold after each element: g[k] is made of g[k - 1] and   *)
(* the element at k, whenever f folds with h where its values are in V.    *)
InTurnBy(g, n, V, b, h) ==
  /\ g \in [0 .. n -> V]
  /\ g[0] = b
  /\ \A k \in 1 .. n : g[k - 1] \in V /\ g[k] = h[<<g[k - 1], k>>]

FoldsWith(f, n, V, b, h) ==
  /\ n \in Nat /\ b \in V
  /\ \A v \in V, i \in 1 .. n : h[<<v, i>>] \in V
  /\ f[{}] = b
  /\ \A t \in SUBSET (1 .. n) :
       t # {} /\ f[t \ {Max(t)}] \in V => f[t] = h[<<f[t \ {Max(t)}], Max(t)>>]

LEMMA FoldInTurn ==
  \A f, n, V, b, h :
    FoldsWith(f, n, V, b, h) => \E g : InTurnBy(g, n, V, b, h) /\ g[n] = f[1 .. n]
<1> SUFFICES ASSUME NEW f, NEW n, NEW V, NEW b, NEW h, FoldsWith(f, n, V, b, h)
             PROVE  \E g : InTurnBy(g, n, V, b, h) /\ g[n] = f[1 .. n]
  OBVIOUS
<1>0. n \in Nat /\ b \in V /\ \A v \in V, i \in 1 .. n : h[<<v, i>>] \in V
  BY DEF FoldsWith
<1> DEFINE T == {k \in Nat : k <= n => f[1 .. k] \in V}
           g == [k \in 0 .. n |-> f[1 .. k]]
<1>1. f[1 .. 0] = b
  <2>1. 1 .. 0 = {}
    OBVIOUS
  <2> QED BY <2>1 DEF FoldsWith
<1>2. ASSUME NEW k \in Nat, k < n, f[1 .. k] \in V
      PROVE  f[1 .. (k + 1)] = h[<<f[1 .. k], k + 1>>] /\ f[1 .. (k + 1)] \in V
  <2> DEFINE t == 1 .. (k + 1)
  <2>1. t \in SUBSET (1 .. n) /\ t # {} /\ k + 1 \in 1 .. n
    <3>1. k + 1 \in t /\ \A x \in t : x \in Int /\ 1 <= x /\ x <= k + 1
      OBVIOUS
    <3>2. k + 1 <= n
      BY <1>0, <1>2
    <3> HIDE DEF t
    <3> QED BY <1>0, <3>1, <3>2
  <2>2. Max(t) = k + 1 /\ t \ {k + 1} = 1 .. k
    BY MaxOfInterval
  <2> HIDE DEF t
  <2>3. f[t] = h[<<f[1 .. k], k + 1>>]
    BY <1>2, <2>1, <2>2 DEF FoldsWith
  <2> QED BY <1>0, <1>2, <2>1, <2>3 DEF t
<1>3. ASSUME NEW k \in Nat, k \in T PROVE k + 1 \in T
  <2>1. k + 1 <= n => k < n /\ f[1 .. k] \in V
    BY <1>0, <1>3
  <2>2. k + 1 <= n => f[1 .. (k + 1)] \in V
    BY <1>2, <2>1
  <2> QED BY <2>2
<1>4. 0 \in T
  BY <1>0, <1>1
<1>5. \A k \in 0 .. n : f[1 .. k] \in V
  <2> HIDE DEF T
  <2>1. Nat \subseteq T
    BY <1>3, <1>4, Induction
  <2> QED BY <1>0, <2>1 DEF T
<1>6. ASSUME NEW k \in 1 .. n
      PROVE  g[k - 1] \in V /\ g[k] = h[<<g[k - 1], k>>]
  <2>1. k - 1 \in Nat /\ k - 1 < n /\ (k - 1) + 1 = k /\ k - 1 \in 0 .. n
    BY <1>0
  <2> QED BY <1>2, <1>5, <2>1
<1>7. g \in [0 .. n -> V] /\ g[0] = b /\ g[n] = f[1 .. n]
  BY <1>0, <1>1, <1>5
<1>8. InTurnBy(g, n, V, b, h)
  <2> HIDE DEF g
  <2> QED BY <1>6, <1>7 DEF InTurnBy
<1> QED BY <1>7, <1>8
=============================================================================
