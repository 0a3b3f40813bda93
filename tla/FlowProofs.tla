----------------------------- MODULE FlowProofs -----------------------------
(***************************************************************************)
(* Proofs about pass_Flow: for every program and section, which starts of  *)
(* functions the passes keep, which promotions are left, and where ends    *)
(* are found.                                                              *)
(***************************************************************************)
EXTENDS Flow, FoldLemmas

(* Maps of functions whose jump tables are among T. *)
Records(T) == [end : Int, lr : BOOLEAN, promo : BOOLEAN, done : BOOLEAN, tables : T]

FuncMaps(T) == UNION {[D -> Records(T)] : D \in SUBSET Addresses}

(* The jump tables that a program has. *)
TableSets(prg) ==
  SUBSET {[owner |-> f, first |-> i, last |-> i + Len(Pattern), targets |-> ComputeTargets(prg, i)] :
            f \in Addresses, i \in {j \in Int : Begins(prg.code, j, Len(Pattern))}}

(* A map of functions is one from addresses to records. *)
LEMMA FuncMapIs ==
  \A T, fs : fs \in FuncMaps(T) <=> /\ DOMAIN fs \subseteq Addresses
                                    /\ fs = [a \in DOMAIN fs |-> fs[a]]
                                    /\ \A a \in DOMAIN fs : fs[a] \in Records(T)
BY DEF FuncMaps

(* A new function is a record that is no promotion and has no end. *)
LEMMA NewIs ==
  /\ \A T : {} \in T => New \in Records(T)
  /\ New.promo = FALSE /\ New.end = None
BY DEF New, Records, None

(* getCreateFuncInMap leaves what is there alone. *)
LEMMA GetCreateIs ==
  ASSUME NEW T, {} \in T, NEW fs \in FuncMaps(T), NEW S, S \subseteq Addresses
  PROVE  /\ GetCreate(fs, S) \in FuncMaps(T)
         /\ DOMAIN GetCreate(fs, S) = DOMAIN fs \cup S
         /\ \A a \in DOMAIN fs : GetCreate(fs, S)[a] = fs[a]
         /\ \A a \in S : a \notin DOMAIN fs => GetCreate(fs, S)[a] = New
<1>1. DOMAIN fs \subseteq Addresses /\ \A a \in DOMAIN fs : fs[a] \in Records(T)
  BY FuncMapIs
<1>2. GetCreate(fs, S) \in [DOMAIN fs \cup S -> Records(T)]
  BY <1>1, NewIs DEF GetCreate
<1>3. DOMAIN fs \cup S \in SUBSET Addresses
  BY <1>1
<1>4. GetCreate(fs, S) \in FuncMaps(T)
  BY <1>2, <1>3 DEF FuncMaps
<1> QED BY <1>4 DEF GetCreate

(* Nothing is lost, and nothing becomes a promotion. *)
Adds(fs, gs) ==
  /\ DOMAIN fs \subseteq DOMAIN gs
  /\ \A a \in DOMAIN gs : gs[a].promo => a \in DOMAIN fs /\ fs[a].promo

(* WithEnds sets ends and nothing else. *)
LEMMA WithEndsIs ==
  ASSUME NEW T, {} \in T, NEW fs \in FuncMaps(T), NEW ends, DOMAIN ends \subseteq Addresses,
         \A a \in DOMAIN ends : ends[a] \in Int
  PROVE  /\ WithEnds(fs, ends) \in FuncMaps(T)
         /\ DOMAIN WithEnds(fs, ends) = DOMAIN fs \cup DOMAIN ends
         /\ Adds(fs, WithEnds(fs, ends))
<1> DEFINE gs == WithEnds(fs, ends)
           D == DOMAIN fs \cup DOMAIN ends
           r(a) == GetCreate(fs, {a})[a]
<1>1. DOMAIN fs \subseteq Addresses /\ D \in SUBSET Addresses
  BY FuncMapIs
<1>2. ASSUME NEW a \in D
      PROVE  /\ r(a) \in Records(T)
             /\ r(a).promo => a \in DOMAIN fs /\ fs[a].promo
  <2>1. CASE a \in DOMAIN fs
    <3>1. r(a) = fs[a] /\ fs[a] \in Records(T)
      BY <2>1, FuncMapIs DEF GetCreate
    <3> QED BY <3>1, <2>1 DEF Records
  <2>2. CASE a \notin DOMAIN fs
    <3>1. r(a) = New
      BY <2>2 DEF GetCreate
    <3> QED BY <3>1, <2>2, NewIs
  <2> QED BY <2>1, <2>2
<1>3. gs = [a \in D |-> [r(a) EXCEPT !.end = IF a \in DOMAIN ends THEN ends[a] ELSE @]]
  BY DEF WithEnds
<1> HIDE DEF gs, r
<1>4. ASSUME NEW a \in D
      PROVE  gs[a] \in Records(T) /\ gs[a].promo = r(a).promo
  <2>1. gs[a] = [r(a) EXCEPT !.end = IF a \in DOMAIN ends THEN ends[a] ELSE @]
    BY <1>3
  <2>2. r(a) \in Records(T)
    BY <1>2
  <2> QED BY <2>1, <2>2 DEF Records
<1>5. DOMAIN gs = D /\ gs \in [D -> Records(T)]
  BY <1>3, <1>4
<1>6. gs \in FuncMaps(T)
  BY <1>5, <1>1 DEF FuncMaps
<1>7. Adds(fs, gs)
  BY <1>2, <1>4, <1>5 DEF Adds
<1> QED BY <1>2, <1>4, <1>5, <1>6, <1>7 DEF gs

(* A promotion is a new function; what is there is left alone. *)
LEMMA PromoteIs ==
  ASSUME NEW T, {} \in T, NEW fs \in FuncMaps(T), NEW S, S \subseteq Addresses
  PROVE  /\ Promote(fs, S) \in FuncMaps(T)
         /\ DOMAIN Promote(fs, S) = DOMAIN fs \cup S
         /\ \A a \in DOMAIN fs : Promote(fs, S)[a] = fs[a]
<1> DEFINE new == [New EXCEPT !.promo = TRUE]
<1>1. DOMAIN fs \subseteq Addresses /\ \A a \in DOMAIN fs : fs[a] \in Records(T)
  BY FuncMapIs
<1>2. new \in Records(T)
  BY NewIs DEF Records
<1>3. Promote(fs, S) = [a \in DOMAIN fs \cup S |-> IF a \in DOMAIN fs THEN fs[a] ELSE new]
  BY DEF Promote
<1> HIDE DEF new
<1>4. Promote(fs, S) \in [DOMAIN fs \cup S -> Records(T)] /\ DOMAIN fs \cup S \in SUBSET Addresses
  BY <1>1, <1>2, <1>3
<1>5. Promote(fs, S) \in FuncMaps(T)
  BY <1>4 DEF FuncMaps
<1> QED BY <1>2, <1>3, <1>5

Phases ==
  {"imports", "pdata", "section", "saveRest", "blJumps", "mfspr", "promoteTail",
   "stackInit", "data", "mtspr", "bclrAndTail", "fixIf", "demote", "jumpTables",
   "detect", "done", "broken", "dead"}

Typed ==
  /\ program \in Programs /\ sec \in DOMAIN program.sections
  /\ funcs \in FuncMaps(TableSets(program))
  /\ pc \in Phases
  /\ pc = "done" => sec = Len(program.sections)
  /\ todo \subseteq DOMAIN funcs

(* What the assumption says of the program that is recompiled. *)
LEMMA ProgramIs ==
  ASSUME Typed
  PROVE  /\ first \in Addresses /\ last \in Addresses
         /\ DOMAIN code \subseteq Addresses
         /\ \A i : Op(i, {"b", "bl"}) => i \in Addresses /\ Target(i) \in Addresses
         /\ Len(program.sections) \in Nat /\ DOMAIN program.sections = 1 .. Len(program.sections)
<1>1. program \in Programs /\ sec \in DOMAIN program.sections
  BY DEF Typed
<1>2. /\ program.sections \in Seq(Addresses \X Addresses)
      /\ DOMAIN program.code \subseteq Addresses
      /\ \A i \in DOMAIN program.code :
           program.code[i].op \in {"b", "bl"} => Displaced(i, program.code[i].to) \in Addresses
  BY <1>1, FlowAssumption
<1>3. program.sections[sec] \in Addresses \X Addresses
  BY <1>1, <1>2
<1>4. first \in Addresses /\ last \in Addresses
  BY <1>3 DEF first, last
<1>5. \A i : Op(i, {"b", "bl"}) => i \in Addresses /\ Target(i) \in Addresses
  BY <1>2 DEF Op, At, Target, code
<1> QED BY <1>2, <1>4, <1>5 DEF code

(* An entry of a save or a rest routine is no promotion. *)
LEMMA SaveRestIs ==
  ASSUME Typed, NEW T, {} \in T, NEW fs \in FuncMaps(T), NEW i
  PROVE  SaveRest(fs, i) \in FuncMaps(T) /\ Adds(fs, SaveRest(fs, i))
<1>1. CASE i \notin DOMAIN code
  BY <1>1 DEF SaveRest, Op, At, Adds
<1>2. CASE i \in DOMAIN code
  <2>1. i \in Nat /\ i > 0 /\ SaveRegs \in Nat
    BY <1>2, ProgramIs, FlowAssumption DEF Addresses
  <2>2. ASSUME NEW more \in {1, 2}
        PROVE  /\ WithEnds(fs, Routine(i, more)) \in FuncMaps(T)
               /\ Adds(fs, WithEnds(fs, Routine(i, more)))
    <3> DEFINE ends == Routine(i, more)
    <3>1. /\ DOMAIN ends \subseteq Addresses
          /\ \A a \in DOMAIN ends : ends[a] \in Int
      BY <2>1 DEF Routine, Addresses
    <3>2. ends = Routine(i, more)
      OBVIOUS
    <3> HIDE DEF ends
    <3> QED BY <3>1, <3>2, WithEndsIs
  <2>3. \/ SaveRest(fs, i) = WithEnds(fs, Routine(i, 1))
        \/ SaveRest(fs, i) = WithEnds(fs, Routine(i, 2))
        \/ SaveRest(fs, i) = fs
    BY DEF SaveRest
  <2>4. Adds(fs, fs)
    BY DEF Adds
  <2> QED BY <2>2, <2>3, <2>4
<1> QED BY <1>1, <1>2

(* So is none that flow_promoteSaveRest finds. *)
LEMMA SaveRestLoop ==
  ASSUME Typed, NEW T, {} \in T, funcs \in FuncMaps(T)
  PROVE  /\ FoldLeft(SaveRest, funcs, Walk) \in FuncMaps(T)
         /\ Adds(funcs, FoldLeft(SaveRest, funcs, Walk))
<1> DEFINE n == IF first <= last THEN last - first ELSE 0
           V == {fs \in FuncMaps(T) : Adds(funcs, fs)}
           h == [p \in V \X (1 .. n) |-> SaveRest(p[1], Walk[p[2]])]
           E(g) == g = [s \in SUBSET (1 .. n) |->
                          IF s = {} THEN funcs ELSE SaveRest(g[s \ {Max(s)}], Walk[Max(s)])]
           f == CHOOSE g : E(g)
<1>1. n \in Nat /\ DOMAIN Walk = 1 .. n
  BY ProgramIs DEF Walk, Addresses
<1>2. funcs \in V
  BY DEF Adds
<1>3. ASSUME NEW v \in V, NEW i PROVE SaveRest(v, i) \in V
  <2>1. SaveRest(v, i) \in FuncMaps(T) /\ Adds(v, SaveRest(v, i)) /\ Adds(funcs, v)
    BY SaveRestIs
  <2>2. Adds(funcs, SaveRest(v, i))
    BY <2>1 DEF Adds
  <2> QED BY <2>1, <2>2
<1>4. \A v \in V, k \in 1 .. n : h[<<v, k>>] = SaveRest(v, Walk[k]) /\ h[<<v, k>>] \in V
  BY <1>3
<1> HIDE DEF n, V, h
<1>5. FoldDefined(n, V, funcs, h)
  BY <1>1, <1>2, <1>4, FoldExists
<1>6. \E g : E(g)
  <2>1. PICK g \in [SUBSET (1 .. n) -> V] :
               g = [s \in SUBSET (1 .. n) |->
                      IF s = {} THEN funcs ELSE h[<<g[s \ {Max(s)}], Max(s)>>]]
    BY <1>5 DEF FoldDefined, FoldEquation
  <2>2. ASSUME NEW s \in SUBSET (1 .. n), s # {}
        PROVE  h[<<g[s \ {Max(s)}], Max(s)>>] = SaveRest(g[s \ {Max(s)}], Walk[Max(s)])
    <3>1. Max(s) \in 1 .. n
      BY <2>2, <1>1, MaxOfSome
    <3>2. g[s \ {Max(s)}] \in V
      OBVIOUS
    <3> QED BY <3>1, <3>2, <1>4
  <2>3. E(g)
    BY <2>1, <2>2
  <2> QED BY <2>3
<1>7. E(f)
  BY <1>6
<1>8. FoldLeft(SaveRest, funcs, Walk) = f[1 .. n]
  BY <1>1 DEF FoldLeft, MapThenFoldSet
<1> HIDE DEF f
<1>9. f[{}] \in V
  <2>1. f[{}] = funcs
    BY <1>7
  <2> QED BY <2>1, <1>2
<1>10. ASSUME NEW k \in Nat, k < n, f[1 .. k] \in V PROVE f[1 .. (k + 1)] \in V
  <2> DEFINE s == 1 .. (k + 1)
  <2>1. s \in SUBSET (1 .. n) /\ s # {}
    <3>1. k + 1 \in s /\ \A x \in s : x \in Int /\ 1 <= x /\ x <= k + 1
      OBVIOUS
    <3>2. n \in Nat /\ k + 1 <= n
      BY <1>1, <1>10
    <3> HIDE DEF s
    <3> QED BY <3>1, <3>2
  <2>2. Max(s) = k + 1 /\ s \ {k + 1} = 1 .. k
    BY MaxOfInterval
  <2> HIDE DEF s
  <2>3. f[s] = SaveRest(f[s \ {Max(s)}], Walk[Max(s)])
    BY <1>7, <2>1
  <2>4. f[s] \in V
    BY <2>2, <2>3, <1>3, <1>10
  <2> QED BY <2>4 DEF s
<1>11. f[1 .. n] \in V
  BY <1>1, <1>9, <1>10, FoldStays
<1> QED BY <1>8, <1>11 DEF V

(* What is new is a target of a b of the section, and has no end. *)
Tails(fs, gs) ==
  /\ DOMAIN fs \subseteq DOMAIN gs
  /\ \A a \in DOMAIN fs : gs[a] = fs[a]
  /\ \A a \in DOMAIN gs \ DOMAIN fs : gs[a].end = None /\ Jumps(sec, a) # {}

(* One instruction's promotions are targets of a b of the section. *)
LEMMA PromoteTailIs ==
  ASSUME Typed, NEW T, {} \in T, NEW fs \in FuncMaps(T), NEW i \in first .. last - 1
  PROVE  PromoteTail(fs, i) \in FuncMaps(T) /\ Tails(fs, PromoteTail(fs, i))
<1> DEFINE S == TailTargets(fs, i)
<1>1. i \in Section(sec) /\ i + 1 \in Section(sec)
  <2>1. first \in Int /\ last \in Int
    BY ProgramIs DEF Addresses
  <2>2. Section(sec) = first .. last
    BY DEF Section, first, last
  <2> QED BY <2>1, <2>2
<1>2. ASSUME NEW a \in S PROVE a \in Addresses /\ Jumps(sec, a) # {}
  <2>1. PICK j \in Section(sec) : Op(j, {"b"}) /\ a = Target(j)
    BY <1>1, <1>2 DEF TailTargets
  <2>2. j \in Jumps(sec, a)
    BY <2>1 DEF Jumps
  <2>3. Op(j, {"b", "bl"})
    BY <2>1 DEF Op, At
  <2> QED BY <2>1, <2>2, <2>3, ProgramIs
<1> HIDE DEF S
<1>3. S \subseteq Addresses
  BY <1>2
<1>4. Promote(fs, S) \in FuncMaps(T) /\ Tails(fs, Promote(fs, S))
  <2>1. Promote(fs, S) \in FuncMaps(T)
    BY <1>3, PromoteIs
  <2>2. DOMAIN Promote(fs, S) = DOMAIN fs \cup S /\ \A a \in DOMAIN fs : Promote(fs, S)[a] = fs[a]
    BY <1>3, PromoteIs
  <2>3. ASSUME NEW a \in S, a \notin DOMAIN fs PROVE Promote(fs, S)[a].end = None
    BY <2>3 DEF Promote, New
  <2> QED BY <1>2, <2>1, <2>2, <2>3 DEF Tails
<1> QED BY <1>4 DEF PromoteTail, S

(* So is every promotion of flow_promoteTailProl. *)
LEMMA PromoteTailLoop ==
  ASSUME Typed, NEW T, {} \in T, funcs \in FuncMaps(T)
  PROVE  /\ FoldLeft(PromoteTail, funcs, Walk) \in FuncMaps(T)
         /\ Tails(funcs, FoldLeft(PromoteTail, funcs, Walk))
<1> DEFINE n == IF first <= last THEN last - first ELSE 0
           V == {fs \in FuncMaps(T) : Tails(funcs, fs)}
           h == [p \in V \X (1 .. n) |-> PromoteTail(p[1], Walk[p[2]])]
           E(g) == g = [s \in SUBSET (1 .. n) |->
                          IF s = {} THEN funcs ELSE PromoteTail(g[s \ {Max(s)}], Walk[Max(s)])]
           f == CHOOSE g : E(g)
<1>1. n \in Nat /\ DOMAIN Walk = 1 .. n
  BY ProgramIs DEF Walk, Addresses
<1>2. funcs \in V
  BY DEF Tails
<1>3. ASSUME NEW v \in V, NEW k \in 1 .. n PROVE PromoteTail(v, Walk[k]) \in V
  <2>1. Walk[k] \in first .. last - 1
    BY <1>1, ProgramIs DEF Walk, Addresses
  <2>2. PromoteTail(v, Walk[k]) \in FuncMaps(T) /\ Tails(v, PromoteTail(v, Walk[k]))
    BY <2>1, PromoteTailIs
  <2>3. Tails(funcs, PromoteTail(v, Walk[k]))
    BY <2>2 DEF Tails
  <2> QED BY <2>2, <2>3
<1>4. \A v \in V, k \in 1 .. n : h[<<v, k>>] = PromoteTail(v, Walk[k]) /\ h[<<v, k>>] \in V
  BY <1>3
<1> HIDE DEF n, V, h
<1>5. FoldDefined(n, V, funcs, h)
  BY <1>1, <1>2, <1>4, FoldExists
<1>6. \E g : E(g)
  <2>1. PICK g \in [SUBSET (1 .. n) -> V] :
               g = [s \in SUBSET (1 .. n) |->
                      IF s = {} THEN funcs ELSE h[<<g[s \ {Max(s)}], Max(s)>>]]
    BY <1>5 DEF FoldDefined, FoldEquation
  <2>2. ASSUME NEW s \in SUBSET (1 .. n), s # {}
        PROVE  h[<<g[s \ {Max(s)}], Max(s)>>] = PromoteTail(g[s \ {Max(s)}], Walk[Max(s)])
    <3>1. Max(s) \in 1 .. n
      BY <2>2, <1>1, MaxOfSome
    <3>2. g[s \ {Max(s)}] \in V
      OBVIOUS
    <3> QED BY <3>1, <3>2, <1>4
  <2>3. E(g)
    BY <2>1, <2>2
  <2> QED BY <2>3
<1>7. E(f)
  BY <1>6
<1>8. FoldLeft(PromoteTail, funcs, Walk) = f[1 .. n]
  BY <1>1 DEF FoldLeft, MapThenFoldSet
<1> HIDE DEF f
<1>9. f[{}] \in V
  <2>1. f[{}] = funcs
    BY <1>7
  <2> QED BY <2>1, <1>2
<1>10. ASSUME NEW k \in Nat, k < n, f[1 .. k] \in V PROVE f[1 .. (k + 1)] \in V
  <2> DEFINE s == 1 .. (k + 1)
  <2>1. s \in SUBSET (1 .. n) /\ s # {}
    <3>1. k + 1 \in s /\ \A x \in s : x \in Int /\ 1 <= x /\ x <= k + 1
      OBVIOUS
    <3>2. n \in Nat /\ k + 1 <= n
      BY <1>1, <1>10
    <3> HIDE DEF s
    <3> QED BY <3>1, <3>2
  <2>2. Max(s) = k + 1 /\ s \ {k + 1} = 1 .. k
    BY MaxOfInterval
  <2> HIDE DEF s
  <2>3. f[s] = PromoteTail(f[s \ {Max(s)}], Walk[Max(s)])
    BY <1>7, <2>1
  <2>4. k + 1 \in 1 .. n
    BY <1>1, <1>10
  <2>5. f[s] \in V
    BY <2>2, <2>3, <2>4, <1>3, <1>10
  <2> QED BY <2>5 DEF s
<1>11. f[1 .. n] \in V
  BY <1>1, <1>9, <1>10, FoldStays
<1> QED BY <1>8, <1>11 DEF V

-----------------------------------------------------------------------------
(* Starts are addresses, and ends numbers. *)
LEMMA FuncsAre ==
  ASSUME Typed
  PROVE  /\ DOMAIN funcs \subseteq Addresses
         /\ \A f \in DOMAIN funcs : funcs[f].end \in Int /\ funcs[f].promo \in BOOLEAN
<1>1. PICK T : T = TableSets(program) /\ {} \in T /\ funcs \in FuncMaps(T)
  BY DEF Typed, TableSets
<1>2. DOMAIN funcs \subseteq Addresses /\ \A f \in DOMAIN funcs : funcs[f] \in Records(T)
  BY <1>1, FuncMapIs
<1> QED BY <1>2 DEF Records

(* FirstOf is the smallest, if there is one. *)
LEMMA FirstOfIs ==
  ASSUME NEW S, S \subseteq Addresses
  PROVE  /\ S = {} => FirstOf(S) = None
         /\ S # {} => FirstOf(S) \in S /\ \A x \in S : FirstOf(S) <= x
<1>1. S \in SUBSET Int /\ 0 \in Int /\ \A x \in S : 0 <= x
  BY DEF Addresses
<1>2. S # {} => Min(S) \in S /\ \A x \in S : Min(S) <= x
  BY <1>1, MinIs
<1> QED BY <1>2 DEF FirstOf

(* Where LR is restored is in the section. *)
LEMMA RestoreIs ==
  ASSUME Typed, NEW f \in DOMAIN funcs, Restore(f) # None
  PROVE  Restore(f) \in f .. last /\ f <= last
<1> DEFINE S == {i \in f .. last : Op(i, {"mtlr"})}
<1>1. f \in Addresses /\ last \in Addresses
  BY FuncsAre, ProgramIs
<1>2. S \subseteq Addresses
  BY <1>1 DEF Addresses
<1>3. Restore(f) = FirstOf(S)
  BY DEF Restore
<1>4. S # {} /\ FirstOf(S) \in S
  <2> HIDE DEF S
  <2> QED BY <1>2, <1>3, FirstOfIs
<1>5. FirstOf(S) \in f .. last
  BY <1>4
<1> QED BY <1>1, <1>3, <1>5 DEF Addresses

(* A return is at a number. *)
LEMMA ReturnIs == ASSUME Typed, NEW i PROVE ReturnAfter(i) \in Int
<1> DEFINE S == {j \in DOMAIN code : j > i /\ Op(j, {"bclr"}) /\ Decoded(i, j)}
<1>1. S \subseteq Addresses
  BY ProgramIs
<1>2. ReturnAfter(i) = FirstOf(S)
  BY DEF ReturnAfter
<1> HIDE DEF S
<1>3. FirstOf(S) = None \/ FirstOf(S) \in Addresses
  BY <1>1, FirstOfIs
<1> QED BY <1>2, <1>3 DEF Addresses, None

(* A function in the section has a first stop. *)
LEMMA FirstStopIs ==
  ASSUME Typed, NEW f \in DOMAIN funcs, f <= last
  PROVE  /\ FirstStop(f) \in f .. last
         /\ \A i \in f .. last : Stop(i) => FirstStop(f) <= i
<1> DEFINE S == {i \in f .. last : Stop(i)}
<1>1. f \in Addresses /\ last \in Addresses
  BY FuncsAre, ProgramIs
<1>2. S \subseteq Addresses /\ last \in S
  BY <1>1 DEF Addresses, Stop
<1>3. FirstStop(f) = FirstOf(S)
  BY DEF FirstStop
<1>4. FirstOf(S) \in S /\ \A x \in S : FirstOf(S) <= x
  <2> HIDE DEF S
  <2> QED BY <1>2, FirstOfIs
<1> QED BY <1>3, <1>4

(* The next function is the nearest that starts there or later. *)
LEMMA NextStartIs ==
  ASSUME Typed, NEW i \in Int, DOMAIN funcs # {}
  PROVE  /\ NextStart(i) \in Addresses
         /\ \A n \in DOMAIN funcs : n >= i => i <= NextStart(i) /\ NextStart(i) <= n
<1> DEFINE later == {a \in DOMAIN funcs : a >= i}
           D == DOMAIN funcs
<1>1. D \in SUBSET Int /\ later \in SUBSET Int /\ 0 \in Int
      /\ (\A x \in D : 0 <= x) /\ \A x \in later : 0 <= x
  BY FuncsAre DEF Addresses
<1>2. NextStart(i) = IF later = {} THEN Min(D) ELSE Min(later)
  BY DEF NextStart
<1>3. D # {} /\ D \subseteq Addresses /\ later \subseteq D
  BY FuncsAre
<1>4. \A n \in later : n >= i
  OBVIOUS
<1>5. \A n \in D : n >= i => n \in later
  OBVIOUS
<1> HIDE DEF later, D
<1>6. Min(D) \in D
  BY <1>1, <1>3, MinIs
<1>7. later # {} => Min(later) \in later /\ \A x \in later : Min(later) <= x
  BY <1>1, MinIs
<1>8. NextStart(i) \in Addresses
  BY <1>2, <1>3, <1>6, <1>7
<1>9. ASSUME NEW n \in D, n >= i PROVE i <= NextStart(i) /\ NextStart(i) <= n
  <2>1. n \in later
    BY <1>5, <1>9
  <2>2. NextStart(i) = Min(later) /\ Min(later) \in later /\ Min(later) <= n
    BY <1>2, <1>7, <2>1
  <2>3. Min(later) \in Int /\ Min(later) >= i
    BY <1>1, <1>4, <2>2
  <2> QED BY <2>2, <2>3
<1> QED BY <1>8, <1>9 DEF D

(* The scan gives an end to every function in the section. *)
LEMMA ScannedEndIs ==
  ASSUME Typed, NEW f \in DOMAIN funcs, f <= last
  PROVE  ScannedEnd(f) \in Nat
<1>1. f \in Addresses /\ last \in Addresses
  BY FuncsAre, ProgramIs
<1>2. FirstStop(f) \in Nat
  BY <1>1, FirstStopIs DEF Addresses
<1>3. NextStart(FirstStop(f) + 1) \in Addresses
  <2>1. FirstStop(f) + 1 \in Int /\ DOMAIN funcs # {}
    BY <1>2
  <2> QED BY <2>1, NextStartIs
<1> QED BY <1>2, <1>3 DEF ScannedEnd, Addresses

(* An end that is moved is a number again. *)
LEMMA FixedEndIs == ASSUME Typed, NEW e \in Int PROVE FixedEnd(e) \in Int
<1> DEFINE before == {i \in DOMAIN code : i < e /\ Op(i, Branches) /\ Decoded(i, e)}
<1>1. before \in SUBSET Int /\ \A x \in before : x <= e
  BY ProgramIs DEF Addresses
<1>2. BranchBefore(e) = IF before = {} THEN None ELSE Max(before)
  BY DEF BranchBefore
<1> HIDE DEF before
<1>3. before # {} => Max(before) \in Int
  BY <1>1, MaxIs
<1> QED BY <1>2, <1>3 DEF FixedEnd, None

-----------------------------------------------------------------------------
(* What keeps the types: the maps are typed, and nothing but them moves. *)
LEMMA TypedNext ==
  ASSUME Typed, NEW T, T = TableSets(program), funcs' \in FuncMaps(T),
         DOMAIN funcs \subseteq DOMAIN funcs',
         UNCHANGED <<program, sec, todo>>, pc' \in Phases \ {"done"}
  PROVE  Typed'
BY DEF Typed

(* A pass that goes on to the next one, or dies. *)
LEMMA PatchImportsIs ==
  ASSUME Typed, PatchImportsFunctions
  PROVE  /\ Typed' /\ Adds(funcs, funcs')
         /\ \A a \in program.imports : a \in DOMAIN funcs' /\ ~ funcs'[a].promo
<1> DEFINE stub(a) == [New EXCEPT !.end = a + StubLength, !.done = TRUE]
           D == DOMAIN funcs \cup program.imports
<1>1. PICK T : T = TableSets(program) /\ {} \in T /\ funcs \in FuncMaps(T)
  BY DEF Typed, TableSets
<1>2. DOMAIN funcs \subseteq Addresses /\ \A f \in DOMAIN funcs : funcs[f] \in Records(T)
  BY <1>1, FuncMapIs
<1>3. program.imports \subseteq Addresses
  BY FlowAssumption DEF Typed
<1>4. ASSUME NEW a \in program.imports
      PROVE  stub(a) \in Records(T) /\ stub(a).promo = FALSE
  <2>1. a + StubLength \in Int
    BY <1>3, FlowAssumption DEF Addresses
  <2> QED BY <1>1, <2>1 DEF New, Records, None
<1>5. funcs' = [a \in D |-> IF a \in program.imports THEN stub(a) ELSE funcs[a]]
  BY DEF PatchImportsFunctions
<1> HIDE DEF stub
<1>6. funcs' \in [D -> Records(T)] /\ D \subseteq Addresses
  BY <1>2, <1>3, <1>4, <1>5
<1>7. funcs' \in FuncMaps(T)
  BY <1>6 DEF FuncMaps
<1>8. Adds(funcs, funcs')
  BY <1>4, <1>5 DEF Adds
<1>9. Typed'
  <2>1. UNCHANGED <<program, sec, todo>> /\ pc' \in Phases \ {"done"}
    BY DEF PatchImportsFunctions, Goto, Phases
  <2>2. DOMAIN funcs \subseteq DOMAIN funcs'
    BY <1>5
  <2> QED BY <1>1, <1>7, <2>1, <2>2, TypedNext
<1> QED BY <1>4, <1>5, <1>8, <1>9

(* flow_pData adds what is listed, and no promotion. *)
LEMMA PDataIs ==
  ASSUME Typed, FlowPData
  PROVE  Typed' /\ Adds(funcs, funcs') /\ DOMAIN program.pdata \subseteq DOMAIN funcs'
<1> DEFINE ends == [a \in DOMAIN program.pdata |-> a + program.pdata[a] - 1]
<1>1. PICK T : T = TableSets(program) /\ {} \in T /\ funcs \in FuncMaps(T)
  BY DEF Typed, TableSets
<1>2. DOMAIN ends \subseteq Addresses /\ \A a \in DOMAIN ends : ends[a] \in Int
  BY FlowAssumption DEF Typed, Addresses
<1>3. funcs' = WithEnds(funcs, ends) /\ DOMAIN ends = DOMAIN program.pdata
  BY DEF FlowPData
<1> HIDE DEF ends
<1>4. /\ funcs' \in FuncMaps(T) /\ Adds(funcs, funcs')
      /\ DOMAIN funcs' = DOMAIN funcs \cup DOMAIN ends
  <2>1. /\ WithEnds(funcs, ends) \in FuncMaps(T) /\ Adds(funcs, WithEnds(funcs, ends))
        /\ DOMAIN WithEnds(funcs, ends) = DOMAIN funcs \cup DOMAIN ends
    BY <1>1, <1>2, WithEndsIs
  <2> QED BY <1>3, <2>1
<1>5. UNCHANGED <<program, sec, todo>> /\ pc' \in Phases \ {"done"}
  BY DEF FlowPData, Goto, Phases
<1>6. Typed'
  BY <1>1, <1>4, <1>5, TypedNext
<1> QED BY <1>3, <1>4, <1>6

(* getCreateFuncInMap of addresses. *)
LEMMA CreateIs ==
  ASSUME Typed, NEW S, S \subseteq Addresses, funcs' = GetCreate(funcs, S),
         UNCHANGED <<program, sec, todo>>, pc' \in Phases \ {"done"}
  PROVE  /\ Typed' /\ Adds(funcs, funcs') /\ S \subseteq DOMAIN funcs'
         /\ \A a \in DOMAIN funcs : funcs'[a] = funcs[a]
<1>1. PICK T : T = TableSets(program) /\ {} \in T /\ funcs \in FuncMaps(T)
  BY DEF Typed, TableSets
<1>2. /\ GetCreate(funcs, S) \in FuncMaps(T)
      /\ DOMAIN GetCreate(funcs, S) = DOMAIN funcs \cup S
      /\ \A a \in DOMAIN funcs : GetCreate(funcs, S)[a] = funcs[a]
  BY <1>1, GetCreateIs
<1>3. Adds(funcs, funcs')
  BY NewIs DEF Adds, GetCreate
<1>4. Typed'
  BY <1>1, <1>2, TypedNext
<1> QED BY <1>2, <1>3, <1>4

(* The first instruction of a section starts a function, no promotion. *)
LEMMA FirstFunctionIs ==
  ASSUME Typed, FirstFunction
  PROVE  Typed' /\ Adds(funcs, funcs')
<1>1. {first} \subseteq Addresses
  BY ProgramIs
<1>2. funcs' = GetCreate(funcs, {first})
  BY DEF FirstFunction
<1>3. UNCHANGED <<program, sec, todo>> /\ pc' \in Phases \ {"done"}
  BY DEF FirstFunction, Goto, Phases
<1> HIDE DEF first
<1> QED BY <1>1, <1>2, <1>3, CreateIs

(* flow_promoteSaveRest adds functions, and no promotion. *)
LEMMA PromoteSaveRestIs ==
  ASSUME Typed, FlowPromoteSaveRest
  PROVE  Typed' /\ Adds(funcs, funcs')
<1>1. PICK T : T = TableSets(program) /\ {} \in T /\ funcs \in FuncMaps(T)
  BY DEF Typed, TableSets
<1>2. UNCHANGED <<program, sec, todo>> /\ pc' \in Phases \ {"done"}
  BY DEF FlowPromoteSaveRest, Goto, Dead, Phases
<1>3. funcs' = funcs \/ funcs' = FoldLeft(SaveRest, funcs, Walk)
  BY DEF FlowPromoteSaveRest, Dead
<1>4. Adds(funcs, funcs) /\ DOMAIN funcs \subseteq DOMAIN funcs
  BY DEF Adds
<1>5. funcs' \in FuncMaps(T) /\ Adds(funcs, funcs')
  BY <1>1, <1>3, <1>4, SaveRestLoop
<1>6. Typed'
  BY <1>1, <1>2, <1>5, TypedNext DEF Adds
<1> QED BY <1>5, <1>6

(* flow_blJumps leaves the target of every call in the map. *)
LEMMA BlJumpsIs ==
  ASSUME Typed, FlowBlJumps
  PROVE  /\ Typed' /\ Adds(funcs, funcs')
         /\ \A i \in Calls(sec) : Target(i) \in DOMAIN funcs'
<1> DEFINE S == {Target(i) : i \in {j \in first .. last : Op(j, {"bl"})}}
<1>1. S \subseteq Addresses
  <2>1. \A j : Op(j, {"bl"}) => Op(j, {"b", "bl"})
    BY DEF Op, At
  <2> QED BY <2>1, ProgramIs
<1>2. funcs' = GetCreate(funcs, S)
  BY DEF FlowBlJumps
<1>3. UNCHANGED <<program, sec, todo>> /\ pc' \in Phases \ {"done"}
  BY DEF FlowBlJumps, Goto, Phases
<1>4. \A i \in Calls(sec) : Target(i) \in S
  BY DEF Calls, Section, first, last
<1> HIDE DEF S
<1>5. Typed' /\ Adds(funcs, funcs') /\ S \subseteq DOMAIN funcs'
  BY <1>1, <1>2, <1>3, CreateIs
<1> QED BY <1>4, <1>5

(* flow_mfsprProl adds functions that save LR, and no promotion. *)
LEMMA MfsprIs ==
  ASSUME Typed, FlowMfsprProl
  PROVE  Typed' /\ Adds(funcs, funcs')
<1> DEFINE saves == {i \in first .. last : Op(i, {"mflr"})}
           r(a) == GetCreate(funcs, {a})[a]
           D == DOMAIN funcs \cup saves
<1>1. PICK T : T = TableSets(program) /\ {} \in T /\ funcs \in FuncMaps(T)
  BY DEF Typed, TableSets
<1>2. D \subseteq Addresses /\ \A f \in DOMAIN funcs : funcs[f] \in Records(T)
  BY <1>1, FuncMapIs, ProgramIs DEF Addresses
<1>3. ASSUME NEW a \in D
      PROVE  r(a) \in Records(T) /\ (r(a).promo => a \in DOMAIN funcs /\ funcs[a].promo)
  <2>1. r(a) = IF a \in DOMAIN funcs THEN funcs[a] ELSE New
    BY DEF GetCreate
  <2> HIDE DEF r, D
  <2>2. CASE a \in DOMAIN funcs
    BY <1>2, <2>1, <2>2
  <2>3. CASE a \notin DOMAIN funcs
    BY <1>1, <2>1, <2>3, NewIs
  <2> QED BY <2>2, <2>3
<1>4. funcs' = [a \in D |-> [r(a) EXCEPT !.lr = @ \/ a \in saves]]
  BY DEF FlowMfsprProl
<1> HIDE DEF r, D, saves
<1>5. ASSUME NEW a \in D
      PROVE  funcs'[a] \in Records(T) /\ funcs'[a].promo = r(a).promo
  BY <1>3, <1>4 DEF Records
<1>6. DOMAIN funcs' = D /\ funcs' \in [D -> Records(T)]
  BY <1>4, <1>5
<1>7. funcs' \in FuncMaps(T)
  BY <1>2, <1>6 DEF FuncMaps
<1>8. Adds(funcs, funcs')
  BY <1>3, <1>5, <1>6 DEF Adds, D
<1>9. UNCHANGED <<program, sec, todo>> /\ pc' \in Phases \ {"done"}
  BY DEF FlowMfsprProl, Goto, Phases
<1>10. Typed'
  BY <1>1, <1>7, <1>8, <1>9, TypedNext DEF Adds
<1> QED BY <1>8, <1>10

(* flow_promoteTailProl adds targets of jumps, without an end. *)
LEMMA PromoteTailProlIs ==
  ASSUME Typed, FlowPromoteTailProl
  PROVE  Typed' /\ Tails(funcs, funcs')
<1>1. PICK T : T = TableSets(program) /\ {} \in T /\ funcs \in FuncMaps(T)
  BY DEF Typed, TableSets
<1>2. UNCHANGED <<program, sec, todo>> /\ pc' \in Phases \ {"done"}
  BY DEF FlowPromoteTailProl, Goto, Phases
<1>3. funcs' = FoldLeft(PromoteTail, funcs, Walk)
  BY DEF FlowPromoteTailProl
<1>4. funcs' \in FuncMaps(T) /\ Tails(funcs, funcs')
  BY <1>1, <1>3, PromoteTailLoop
<1>5. Typed'
  BY <1>1, <1>2, <1>4, TypedNext DEF Tails
<1> QED BY <1>4, <1>5

(* Where there is no end and none is looked for, none comes up. *)
OpenKept ==
  \A a \in DOMAIN funcs : funcs[a].end = None /\ a > last => funcs'[a].end = None

(* flow_stackInitProl adds functions and touches none that is there. *)
LEMMA StackInitIs ==
  ASSUME Typed, FlowStackInitProl
  PROVE  Typed' /\ Adds(funcs, funcs') /\ OpenKept
<1> DEFINE S == {i \in first .. last - 1 :
                   Op(i, {"stw"}) /\ (i = first \/ Op(i - 1, {"bclr", "nop"}))}
<1>1. S \subseteq Addresses
  BY ProgramIs DEF Addresses
<1>2. funcs' = GetCreate(funcs, S)
  BY DEF FlowStackInitProl
<1>3. UNCHANGED <<program, sec, todo>> /\ pc' \in Phases \ {"done"}
  BY DEF FlowStackInitProl, Goto, Phases
<1> HIDE DEF S
<1>4. Typed' /\ Adds(funcs, funcs') /\ \A a \in DOMAIN funcs : funcs'[a] = funcs[a]
  BY <1>1, <1>2, <1>3, CreateIs
<1> QED BY <1>4 DEF OpenKept

(* So does flow_dataSecAdr. *)
LEMMA DataSecAdrIs ==
  ASSUME Typed, FlowDataSecAdr
  PROVE  Typed' /\ Adds(funcs, funcs') /\ OpenKept
<1> DEFINE S == {w \in program.data : InSection(w)}
<1>1. S \subseteq Addresses
  BY FlowAssumption DEF Typed
<1>2. funcs' = GetCreate(funcs, S)
  BY DEF FlowDataSecAdr
<1>3. UNCHANGED <<program, sec, todo>> /\ pc' \in Phases \ {"done"}
  BY DEF FlowDataSecAdr, Goto, Phases
<1> HIDE DEF S
<1>4. Typed' /\ Adds(funcs, funcs') /\ \A a \in DOMAIN funcs : funcs'[a] = funcs[a]
  BY <1>1, <1>2, <1>3, CreateIs
<1> QED BY <1>4 DEF OpenKept

(* A pass that gives ends to functions of the map. *)
LEMMA EndsIs ==
  ASSUME Typed, NEW ends, DOMAIN ends \subseteq DOMAIN funcs,
         \A a \in DOMAIN ends : ends[a] \in Int,
         funcs' = WithEnds(funcs, ends) \/ funcs' = funcs
  PROVE  /\ \A T : {} \in T /\ funcs \in FuncMaps(T) => funcs' \in FuncMaps(T)
         /\ Adds(funcs, funcs') /\ DOMAIN funcs' = DOMAIN funcs
         /\ funcs' = WithEnds(funcs, ends) =>
              \A a \in DOMAIN funcs :
                funcs'[a].end = IF a \in DOMAIN ends THEN ends[a] ELSE funcs[a].end
<1>1. DOMAIN ends \subseteq Addresses /\ DOMAIN funcs \cup DOMAIN ends = DOMAIN funcs
  BY FuncsAre
<1>2. ASSUME NEW T, {} \in T, funcs \in FuncMaps(T)
      PROVE  /\ WithEnds(funcs, ends) \in FuncMaps(T)
             /\ Adds(funcs, WithEnds(funcs, ends))
             /\ DOMAIN WithEnds(funcs, ends) = DOMAIN funcs
             /\ \A a \in DOMAIN funcs :
                  /\ a \in DOMAIN ends => WithEnds(funcs, ends)[a].end = ends[a]
                  /\ a \notin DOMAIN ends => WithEnds(funcs, ends)[a].end = funcs[a].end
  <2>1. WithEnds(funcs, ends) \in FuncMaps(T)
    BY <1>1, <1>2, WithEndsIs
  <2>2. Adds(funcs, WithEnds(funcs, ends))
    BY <1>1, <1>2, WithEndsIs
  <2>3. DOMAIN WithEnds(funcs, ends) = DOMAIN funcs
    BY <1>1 DEF WithEnds
  <2>4. ASSUME NEW a \in DOMAIN funcs
        PROVE  /\ a \in DOMAIN ends => WithEnds(funcs, ends)[a].end = ends[a]
               /\ a \notin DOMAIN ends => WithEnds(funcs, ends)[a].end = funcs[a].end
    <3>1. GetCreate(funcs, {a})[a] = funcs[a] /\ funcs[a] \in Records(T)
      BY <1>2, FuncMapIs DEF GetCreate
    <3>2. WithEnds(funcs, ends)[a]
            = [funcs[a] EXCEPT !.end = IF a \in DOMAIN ends THEN ends[a] ELSE @]
      BY <3>1 DEF WithEnds
    <3> QED BY <3>1, <3>2 DEF Records
  <2> QED BY <2>1, <2>2, <2>3, <2>4
<1>3. Adds(funcs, funcs)
  BY DEF Adds
<1>4. \E T : {} \in T /\ funcs \in FuncMaps(T)
  BY DEF Typed, TableSets
<1> QED BY <1>2, <1>3, <1>4

(* flow_mtsprEpil gives ends to functions of the section only. *)
LEMMA MtsprIs ==
  ASSUME Typed, FlowMtsprEpil
  PROVE  Typed' /\ Adds(funcs, funcs') /\ OpenKept
<1> DEFINE ends == [f \in ByRestore |-> ReturnAfter(Restore(f))]
<1>1. DOMAIN ends \subseteq DOMAIN funcs /\ \A a \in DOMAIN ends : ends[a] \in Int
  BY ReturnIs DEF ByRestore, NoEnd
<1>2. \A a \in DOMAIN ends : a \in Int /\ a <= last
  BY RestoreIs, FuncsAre DEF ByRestore, NoEnd, Addresses
<1>3. funcs' = WithEnds(funcs, ends) \/ funcs' = funcs
  BY DEF FlowMtsprEpil, Dead
<1>4. UNCHANGED <<program, sec, todo>> /\ pc' \in Phases \ {"done"}
  BY DEF FlowMtsprEpil, Goto, Dead, Phases
<1> HIDE DEF ends
<1>5. /\ \A T : {} \in T /\ funcs \in FuncMaps(T) => funcs' \in FuncMaps(T)
      /\ Adds(funcs, funcs') /\ DOMAIN funcs' = DOMAIN funcs
      /\ funcs' = WithEnds(funcs, ends) =>
           \A a \in DOMAIN funcs :
             funcs'[a].end = IF a \in DOMAIN ends THEN ends[a] ELSE funcs[a].end
  BY <1>1, <1>3, EndsIs
<1>6. Typed'
  <2>1. PICK T : T = TableSets(program) /\ {} \in T /\ funcs \in FuncMaps(T)
    BY DEF Typed, TableSets
  <2>2. funcs' \in FuncMaps(T)
    BY <1>5, <2>1
  <2> QED BY <1>4, <1>5, <2>1, <2>2, TypedNext
<1>7. OpenKept
  <2>1. ASSUME NEW a \in DOMAIN funcs, a > last PROVE a \notin DOMAIN ends
    BY <1>2, <2>1, ProgramIs DEF Addresses
  <2> QED BY <1>3, <1>5, <2>1 DEF OpenKept
<1> QED BY <1>5, <1>6, <1>7

(* flow_bclrAndTailEpil gives an end to every function up to the last      *)
(* instruction of the section that had none, and that is a number.         *)
LEMMA BclrAndTailIs ==
  ASSUME Typed, FlowBclrAndTailEpil
  PROVE  /\ Typed' /\ Adds(funcs, funcs') /\ OpenKept
         /\ pc' = "fixIf" =>
              /\ DOMAIN funcs' = DOMAIN funcs
              /\ \A f \in NoEnd : f <= last => funcs'[f].end = ScannedEnd(f)
              /\ \A f \in DOMAIN funcs : f <= last => funcs'[f].end # None
<1> DEFINE ends == [f \in {g \in NoEnd : g <= last} |-> ScannedEnd(f)]
<1>1. DOMAIN ends \subseteq DOMAIN funcs /\ \A a \in DOMAIN ends : ends[a] \in Nat
  BY ScannedEndIs DEF NoEnd
<1>2. /\ \A a \in DOMAIN ends : a \in Int /\ a <= last
      /\ \A f \in NoEnd : f <= last => f \in DOMAIN ends /\ ends[f] = ScannedEnd(f)
  BY FuncsAre DEF NoEnd, Addresses
<1>3. /\ funcs' = WithEnds(funcs, ends) \/ funcs' = funcs
      /\ pc' = "fixIf" => funcs' = WithEnds(funcs, ends)
  BY DEF FlowBclrAndTailEpil, Dead, Goto
<1>4. UNCHANGED <<program, sec, todo>> /\ pc' \in Phases \ {"done"}
  BY DEF FlowBclrAndTailEpil, Goto, Dead, Phases
<1> HIDE DEF ends
<1>5. /\ \A T : {} \in T /\ funcs \in FuncMaps(T) => funcs' \in FuncMaps(T)
      /\ Adds(funcs, funcs') /\ DOMAIN funcs' = DOMAIN funcs
      /\ funcs' = WithEnds(funcs, ends) =>
           \A a \in DOMAIN funcs :
             funcs'[a].end = IF a \in DOMAIN ends THEN ends[a] ELSE funcs[a].end
  BY <1>1, <1>3, EndsIs
<1>6. Typed'
  <2>1. PICK T : T = TableSets(program) /\ {} \in T /\ funcs \in FuncMaps(T)
    BY DEF Typed, TableSets
  <2>2. funcs' \in FuncMaps(T)
    BY <1>5, <2>1
  <2> QED BY <1>4, <1>5, <2>1, <2>2, TypedNext
<1>7. OpenKept
  <2>1. ASSUME NEW a \in DOMAIN funcs, a > last PROVE a \notin DOMAIN ends
    BY <1>2, <2>1, ProgramIs DEF Addresses
  <2> QED BY <1>3, <1>5, <2>1 DEF OpenKept
<1>8. ASSUME pc' = "fixIf", NEW f \in DOMAIN funcs, f <= last
      PROVE  (f \in NoEnd => funcs'[f].end = ScannedEnd(f)) /\ funcs'[f].end # None
  <2>1. funcs'[f].end = IF f \in DOMAIN ends THEN ends[f] ELSE funcs[f].end
    BY <1>3, <1>5, <1>8
  <2>2. CASE f \in NoEnd
    BY <1>1, <1>2, <1>8, <2>1, <2>2 DEF None
  <2>3. CASE f \notin NoEnd
    <3>1. f \notin DOMAIN ends \/ ends[f] # None
      BY <1>1 DEF None
    <3> QED BY <2>1, <2>3, <3>1 DEF NoEnd
  <2> QED BY <2>2, <2>3
<1>9. \A f \in NoEnd : f \in DOMAIN funcs
  BY DEF NoEnd
<1> QED BY <1>5, <1>6, <1>7, <1>8, <1>9

(* flow_fixIfAddresses moves ends, and neither makes nor loses one. *)
LEMMA FixIfIs ==
  ASSUME Typed, FlowFixIfAddresses
  PROVE  /\ Typed' /\ Adds(funcs, funcs') /\ DOMAIN funcs' = DOMAIN funcs
         /\ \A f \in DOMAIN funcs : funcs[f].end = None <=> funcs'[f].end = None
         /\ pc' = "demote" => todo' = DOMAIN funcs'
         /\ pc' \in {"demote", "dead"}
<1> DEFINE known == {f \in DOMAIN funcs \ NoEnd : funcs[f].end # last + 1}
           ends == [f \in known |-> FixedEnd(funcs[f].end)]
<1>1. DOMAIN ends \subseteq DOMAIN funcs /\ \A a \in DOMAIN ends : ends[a] \in Int
  BY FixedEndIs, FuncsAre
<1>2. \/ funcs' = funcs
      \/ /\ funcs' = WithEnds(funcs, ends)
         /\ \A a \in DOMAIN ends : ends[a] # None /\ funcs[a].end # None
  BY DEF FlowFixIfAddresses, Dead, NoEnd
<1>3. /\ UNCHANGED <<program, sec>> /\ pc' \in {"demote", "dead"}
      /\ pc' = "demote" => todo' = DOMAIN funcs
      /\ todo' \in {todo, DOMAIN funcs}
  BY DEF FlowFixIfAddresses, Goto, Dead
<1> HIDE DEF ends, known
<1>4. /\ \A T : {} \in T /\ funcs \in FuncMaps(T) => funcs' \in FuncMaps(T)
      /\ Adds(funcs, funcs') /\ DOMAIN funcs' = DOMAIN funcs
      /\ funcs' = WithEnds(funcs, ends) =>
           \A a \in DOMAIN funcs :
             funcs'[a].end = IF a \in DOMAIN ends THEN ends[a] ELSE funcs[a].end
  BY <1>1, <1>2, EndsIs
<1>5. Typed'
  <2>1. PICK T : T = TableSets(program) /\ {} \in T /\ funcs \in FuncMaps(T)
    BY DEF Typed, TableSets
  <2>2. funcs' \in FuncMaps(T)
    BY <1>4, <2>1
  <2> QED BY <1>3, <1>4, <2>1, <2>2 DEF Typed, Phases
<1>6. \A f \in DOMAIN funcs : funcs[f].end = None <=> funcs'[f].end = None
  BY <1>2, <1>4
<1> QED BY <1>3, <1>4, <1>5, <1>6

(* A demotion takes a promotion only, and one that lies inside a function. *)
LEMMA DemoteIs ==
  ASSUME Typed, NEW f \in todo, FlowDemoteInBounds(f)
  PROVE  /\ Typed' /\ DOMAIN funcs' \subseteq DOMAIN funcs
         /\ \A a \in DOMAIN funcs' : funcs'[a] = funcs[a]
         /\ \A a \in DOMAIN funcs : ~ funcs[a].promo => a \in DOMAIN funcs'
         /\ UNCHANGED <<program, sec>> /\ pc = "demote" /\ pc' \in {"demote", "dead"}
         /\ pc' = "demote" =>
              /\ todo' = todo \ {f}
              /\ f \in DOMAIN funcs' /\ funcs'[f].promo => ~ isInFuncBound(f)
<1>1. PICK T : T = TableSets(program) /\ {} \in T /\ funcs \in FuncMaps(T)
  BY DEF Typed, TableSets
<1>2. f \in DOMAIN funcs /\ pc = "demote"
  BY DEF Typed, FlowDemoteInBounds
<1>3. CASE funcs' = [a \in DOMAIN funcs \ {f} |-> funcs[a]] /\ funcs[f].promo
           /\ todo' = todo \ {f} /\ UNCHANGED <<program, sec, pc>>
  <2>1. DOMAIN funcs' = DOMAIN funcs \ {f} /\ \A a \in DOMAIN funcs' : funcs'[a] = funcs[a]
    BY <1>3
  <2>2. DOMAIN funcs' \subseteq Addresses /\ funcs' \in [DOMAIN funcs' -> Records(T)]
    BY <1>1, <1>3, <2>1, FuncMapIs
  <2>3. funcs' \in FuncMaps(T)
    BY <2>2 DEF FuncMaps
  <2>4. Typed'
    BY <1>1, <1>2, <1>3, <2>1, <2>3 DEF Typed
  <2> QED BY <1>2, <1>3, <2>1, <2>4
<1>4. CASE UNCHANGED <<program, funcs, sec, todo>> /\ pc' = "dead"
  BY <1>2, <1>4 DEF Typed, Phases
<1>5. CASE ~ (funcs[f].promo /\ isInFuncBound(f)) /\ todo' = todo \ {f}
           /\ UNCHANGED <<program, funcs, sec, pc>>
  BY <1>2, <1>5 DEF Typed
<1> QED BY <1>3, <1>4, <1>5 DEF FlowDemoteInBounds, Dead, Goto

(* The loop over the map is at its end when nothing is left to look at. *)
LEMMA DemotedAllIs ==
  ASSUME Typed, DemotedAll
  PROVE  Typed' /\ UNCHANGED <<program, funcs, sec>> /\ pc' = "jumpTables" /\ todo = {}
BY DEF Typed, DemotedAll, Goto, Phases

(* The jump tables found are tables of the program; starts, ends and       *)
(* promotions stay.                                                        *)
LEMMA JumpTablesIs ==
  ASSUME Typed, FlowJumpTables
  PROVE  /\ Typed' /\ DOMAIN funcs' = DOMAIN funcs
         /\ \A a \in DOMAIN funcs :
              funcs'[a].end = funcs[a].end /\ funcs'[a].promo = funcs[a].promo
         /\ UNCHANGED <<program, sec>> /\ pc' \in {"detect", "dead"}
<1> DEFINE walked == {f \in DOMAIN funcs : ~ funcs[f].done}
<1>1. PICK T : T = TableSets(program) /\ {} \in T /\ funcs \in FuncMaps(T)
  BY DEF Typed, TableSets
<1> DEFINE t(f) == IF f \in walked THEN TablesOf(f) ELSE funcs[f].tables
<1>2. UNCHANGED <<program, sec, todo>> /\ pc' \in {"detect", "dead"}
  BY DEF FlowJumpTables, Goto, Dead
<1>3. DOMAIN funcs \subseteq Addresses /\ \A f \in DOMAIN funcs : funcs[f] \in Records(T)
  BY <1>1, FuncMapIs
<1>4. ASSUME NEW f \in DOMAIN funcs PROVE t(f) \in T
  <2>1. f \in Addresses /\ funcs[f].end \in Int /\ funcs[f].tables \in T
    BY <1>3 DEF Records
  <2>2. Tables(f) \subseteq {j \in Int : Begins(program.code, j, Len(Pattern))}
    BY <2>1 DEF Tables, code, Addresses
  <2>3. TablesOf(f) \in TableSets(program)
    BY <2>1, <2>2 DEF TablesOf, TableSets
  <2> QED BY <1>1, <2>1, <2>3
<1>6. \/ funcs' = funcs
      \/ funcs' = [f \in DOMAIN funcs |-> [funcs[f] EXCEPT !.tables = t(f)]]
  BY DEF FlowJumpTables, Dead
<1> HIDE DEF t
<1>7. ASSUME NEW f \in DOMAIN funcs
      PROVE  /\ [funcs[f] EXCEPT !.tables = t(f)] \in Records(T)
             /\ [funcs[f] EXCEPT !.tables = t(f)].end = funcs[f].end
             /\ [funcs[f] EXCEPT !.tables = t(f)].promo = funcs[f].promo
  BY <1>3, <1>4 DEF Records
<1>8. /\ DOMAIN funcs' = DOMAIN funcs /\ funcs' \in [DOMAIN funcs -> Records(T)]
      /\ \A a \in DOMAIN funcs :
           funcs'[a].end = funcs[a].end /\ funcs'[a].promo = funcs[a].promo
  <2>1. CASE funcs' = funcs
    <3>1. funcs \in [DOMAIN funcs -> Records(T)]
      BY <1>1, <1>3, FuncMapIs
    <3> QED BY <2>1, <3>1
  <2>2. CASE funcs' = [f \in DOMAIN funcs |-> [funcs[f] EXCEPT !.tables = t(f)]]
    BY <1>7, <2>2
  <2> QED BY <1>6, <2>1, <2>2
<1>9. funcs' \in FuncMaps(T)
  BY <1>3, <1>8 DEF FuncMaps
<1>10. Typed'
  BY <1>1, <1>2, <1>8, <1>9 DEF Typed, Phases
<1> QED BY <1>2, <1>8, <1>10

(* flow_detectIncomplete goes on to the next section when all have an end. *)
LEMMA DetectIs ==
  ASSUME Typed, FlowDetectIncomplete
  PROVE  /\ Typed' /\ UNCHANGED <<program, funcs>> /\ pc = "detect"
         /\ \/ sec' = sec /\ pc' = "broken" /\ NoEnd # {}
            \/ sec' = sec + 1 /\ pc' = "section" /\ NoEnd = {}
            \/ sec' = sec /\ pc' = "done" /\ NoEnd = {}
<1>1. /\ sec \in 1 .. Len(program.sections) /\ Len(program.sections) \in Nat
      /\ DOMAIN program.sections = 1 .. Len(program.sections)
  BY ProgramIs DEF Typed
<1>2. /\ UNCHANGED <<program, funcs, todo>> /\ pc = "detect"
      /\ \/ sec' = sec /\ pc' = "broken" /\ NoEnd # {}
         \/ sec' = sec + 1 /\ pc' = "section" /\ NoEnd = {} /\ sec < Len(program.sections)
         \/ sec' = sec /\ pc' = "done" /\ NoEnd = {} /\ ~ (sec < Len(program.sections))
  BY DEF FlowDetectIncomplete, Goto
<1>3. sec' \in DOMAIN program.sections /\ (pc' = "done" => sec' = Len(program.sections))
  BY <1>1, <1>2
<1>4. Typed'
  BY <1>2, <1>3 DEF Typed, Phases
<1> QED BY <1>2, <1>4

-----------------------------------------------------------------------------
(***************************************************************************)
(* The inductive invariant.  A promotion that is set was made in this      *)
(* round, by a b of the section, or is left from an earlier one; one with  *)
(* an end lies at or before the last instruction of its section.           *)
(***************************************************************************)
Kept(a) == a \in DOMAIN funcs /\ ~ funcs[a].promo

Known ==
  /\ Kept(Entry)
  /\ pc \in {"imports", "pdata"} => \A a \in DOMAIN funcs : ~ funcs[a].promo
  /\ pc # "imports" => \A a \in program.imports : Kept(a)
  /\ pc \notin {"imports", "pdata"} => \A a \in DOMAIN program.pdata : Kept(a)

BeforeCalls == {"imports", "pdata", "section", "saveRest", "blJumps"}

BeforeTails == BeforeCalls \cup {"mfspr", "promoteTail"}

Called(k) == \A i \in Calls(k) : Kept(Target(i)) \/ PromotedBefore(k, Target(i))

CalledKept ==
  \A k \in 1 .. sec : k < sec \/ pc \notin BeforeCalls \cup {"dead"} => Called(k)

Promoted ==
  pc # "dead" =>
    \A a \in DOMAIN funcs :
      funcs[a].promo =>
        \/ PromotedBefore(sec, a)
        \/ /\ pc \notin BeforeTails
           /\ Jumps(sec, a) # {}
           /\ funcs[a].end = None \/ a <= last

AfterEnds == {"fixIf", "demote", "jumpTables", "detect", "broken"}

Ended ==
  /\ pc \in AfterEnds => \A f \in NoEnd : f > last
  /\ pc = "broken" => NoEnd # {}

Demoted ==
  /\ pc = "demote" => \A f \in DOMAIN funcs \ todo : funcs[f].promo => ~ isInFuncBound(f)
  /\ pc \in {"jumpTables", "detect", "done"} =>
       \A f \in DOMAIN funcs : funcs[f].promo => ~ isInFuncBound(f)

IInv == Typed /\ Known /\ CalledKept /\ Promoted /\ Ended /\ Demoted

(* Which pass follows which. *)
Passes ==
  { <<"imports", "pdata">>, <<"pdata", "section">>, <<"section", "saveRest">>,
    <<"saveRest", "blJumps">>, <<"blJumps", "mfspr">>, <<"mfspr", "promoteTail">>,
    <<"promoteTail", "stackInit">>, <<"stackInit", "data">>, <<"data", "mtspr">>,
    <<"mtspr", "bclrAndTail">>, <<"bclrAndTail", "fixIf">>, <<"fixIf", "demote">>,
    <<"demote", "demote">>, <<"demote", "jumpTables">>, <<"jumpTables", "detect">>,
    <<"saveRest", "dead">>, <<"mtspr", "dead">>, <<"bclrAndTail", "dead">>,
    <<"fixIf", "dead">>, <<"demote", "dead">>, <<"jumpTables", "dead">> }

(***************************************************************************)
(* What a step does to the starts: it keeps those that are no promotions,  *)
(* and only flow_promoteTailProl makes promotions.                         *)
(***************************************************************************)
Step ==
  /\ Typed' /\ program' = program
  /\ \A a : Kept(a) => Kept(a)'
  /\ pc # "promoteTail" =>
       \A a \in DOMAIN funcs' : funcs'[a].promo => a \in DOMAIN funcs /\ funcs[a].promo
  /\ pc = "promoteTail" => Tails(funcs, funcs')
  /\ pc = "imports" => program.imports \subseteq DOMAIN funcs'
  /\ pc = "pdata" => DOMAIN program.pdata \subseteq DOMAIN funcs'
  /\ pc = "blJumps" => \A i \in Calls(sec) : Target(i) \in DOMAIN funcs'
  /\ pc \notin BeforeTails =>
       \A a \in DOMAIN funcs : a \in DOMAIN funcs' /\ funcs[a].end = None /\ a > last
                               => funcs'[a].end = None
  /\ pc = "bclrAndTail" /\ pc' = "fixIf" =>
       DOMAIN funcs' = DOMAIN funcs /\ \A f \in DOMAIN funcs : f <= last => funcs'[f].end # None
  /\ pc \in {"fixIf", "demote", "jumpTables"} =>
       \A f \in DOMAIN funcs' : f \in DOMAIN funcs /\ (funcs'[f].end = None => funcs[f].end = None)
  /\ pc = "fixIf" /\ pc' = "demote" => todo' = DOMAIN funcs'
  /\ pc \in {"demote", "jumpTables"} =>
       \A f \in DOMAIN funcs' : f \in DOMAIN funcs /\ funcs'[f].end = funcs[f].end
  /\ pc = "demote" /\ pc' = "demote" =>
       \A f \in DOMAIN funcs' : f \in todo' \/ f \notin todo \/ ~ funcs'[f].promo \/ ~ isInFuncBound(f)
  /\ pc = "demote" /\ pc' = "jumpTables" => todo = {}
  /\ \/ sec' = sec /\ <<pc, pc'>> \in Passes
     \/ /\ pc = "detect" /\ funcs' = funcs
        /\ \/ sec' = sec /\ pc' = "broken" /\ NoEnd # {}
           \/ sec' = sec + 1 /\ pc' = "section" /\ NoEnd = {}
           \/ sec' = sec /\ pc' = "done" /\ NoEnd = {}

(* Adds is what most passes do. *)
LEMMA AddsKeep ==
  ASSUME Typed, Adds(funcs, funcs')
  PROVE  \A a : Kept(a) => Kept(a)'
BY DEF Adds, Kept

(* Every pass does what Step says. *)
LEMMA Steps == Typed /\ Next => Step
<1> SUFFICES ASSUME Typed, Next PROVE Step
  OBVIOUS
<1>1. CASE PatchImportsFunctions
  <2>1. /\ Typed' /\ Adds(funcs, funcs')
        /\ \A a \in program.imports : a \in DOMAIN funcs' /\ ~ funcs'[a].promo
    BY <1>1, PatchImportsIs
  <2>2. UNCHANGED <<program, sec>> /\ pc = "imports" /\ pc' = "pdata"
    BY <1>1 DEF PatchImportsFunctions, Goto
  <2> QED BY <2>1, <2>2, AddsKeep DEF Step, Adds, Passes, BeforeTails, BeforeCalls
<1>2. CASE FlowPData
  <2>1. Typed' /\ Adds(funcs, funcs') /\ DOMAIN program.pdata \subseteq DOMAIN funcs'
    BY <1>2, PDataIs
  <2>2. UNCHANGED <<program, sec>> /\ pc = "pdata" /\ pc' = "section"
    BY <1>2 DEF FlowPData, Goto
  <2> QED BY <2>1, <2>2, AddsKeep DEF Step, Adds, Passes, BeforeTails, BeforeCalls
<1>3. CASE FirstFunction
  <2>1. Typed' /\ Adds(funcs, funcs')
    BY <1>3, FirstFunctionIs
  <2>2. UNCHANGED <<program, sec>> /\ pc = "section" /\ pc' = "saveRest"
    BY <1>3 DEF FirstFunction, Goto
  <2> QED BY <2>1, <2>2, AddsKeep DEF Step, Adds, Passes, BeforeTails, BeforeCalls
<1>4. CASE FlowPromoteSaveRest
  <2>1. Typed' /\ Adds(funcs, funcs')
    BY <1>4, PromoteSaveRestIs
  <2>2. UNCHANGED <<program, sec>> /\ pc = "saveRest" /\ pc' \in {"blJumps", "dead"}
    BY <1>4 DEF FlowPromoteSaveRest, Goto, Dead
  <2> QED BY <2>1, <2>2, AddsKeep DEF Step, Adds, Passes, BeforeTails, BeforeCalls
<1>5. CASE FlowBlJumps
  <2>1. /\ Typed' /\ Adds(funcs, funcs')
        /\ \A i \in Calls(sec) : Target(i) \in DOMAIN funcs'
    BY <1>5, BlJumpsIs
  <2>2. UNCHANGED <<program, sec>> /\ pc = "blJumps" /\ pc' = "mfspr"
    BY <1>5 DEF FlowBlJumps, Goto
  <2> QED BY <2>1, <2>2, AddsKeep DEF Step, Adds, Passes, BeforeTails, BeforeCalls
<1>6. CASE FlowMfsprProl
  <2>1. Typed' /\ Adds(funcs, funcs')
    BY <1>6, MfsprIs
  <2>2. UNCHANGED <<program, sec>> /\ pc = "mfspr" /\ pc' = "promoteTail"
    BY <1>6 DEF FlowMfsprProl, Goto
  <2> QED BY <2>1, <2>2, AddsKeep DEF Step, Adds, Passes, BeforeTails, BeforeCalls
<1>7. CASE FlowPromoteTailProl
  <2>1. Typed' /\ Tails(funcs, funcs')
    BY <1>7, PromoteTailProlIs
  <2>2. UNCHANGED <<program, sec>> /\ pc = "promoteTail" /\ pc' = "stackInit"
    BY <1>7 DEF FlowPromoteTailProl, Goto
  <2>3. \A a : Kept(a) => Kept(a)'
    BY <2>1 DEF Tails, Kept
  <2> QED BY <2>1, <2>2, <2>3 DEF Step, Passes, BeforeTails, BeforeCalls
<1>8. CASE FlowStackInitProl
  <2>1. Typed' /\ Adds(funcs, funcs') /\ OpenKept
    BY <1>8, StackInitIs
  <2>2. UNCHANGED <<program, sec>> /\ pc = "stackInit" /\ pc' = "data"
    BY <1>8 DEF FlowStackInitProl, Goto
  <2> QED BY <2>1, <2>2, AddsKeep DEF Step, Adds, OpenKept, Passes
<1>9. CASE FlowDataSecAdr
  <2>1. Typed' /\ Adds(funcs, funcs') /\ OpenKept
    BY <1>9, DataSecAdrIs
  <2>2. UNCHANGED <<program, sec>> /\ pc = "data" /\ pc' = "mtspr"
    BY <1>9 DEF FlowDataSecAdr, Goto
  <2> QED BY <2>1, <2>2, AddsKeep DEF Step, Adds, OpenKept, Passes
<1>10. CASE FlowMtsprEpil
  <2>1. Typed' /\ Adds(funcs, funcs') /\ OpenKept
    BY <1>10, MtsprIs
  <2>2. UNCHANGED <<program, sec>> /\ pc = "mtspr" /\ pc' \in {"bclrAndTail", "dead"}
    BY <1>10 DEF FlowMtsprEpil, Goto, Dead
  <2> QED BY <2>1, <2>2, AddsKeep DEF Step, Adds, OpenKept, Passes
<1>11. CASE FlowBclrAndTailEpil
  <2>1. /\ Typed' /\ Adds(funcs, funcs') /\ OpenKept
        /\ pc' = "fixIf" =>
             DOMAIN funcs' = DOMAIN funcs /\ \A f \in DOMAIN funcs : f <= last => funcs'[f].end # None
    BY <1>11, BclrAndTailIs
  <2>2. UNCHANGED <<program, sec>> /\ pc = "bclrAndTail" /\ pc' \in {"fixIf", "dead"}
    BY <1>11 DEF FlowBclrAndTailEpil, Goto, Dead
  <2> QED BY <2>1, <2>2, AddsKeep DEF Step, Adds, OpenKept, Passes
<1>12. CASE FlowFixIfAddresses
  <2>1. /\ Typed' /\ Adds(funcs, funcs') /\ DOMAIN funcs' = DOMAIN funcs
        /\ \A f \in DOMAIN funcs : funcs[f].end = None <=> funcs'[f].end = None
        /\ pc' = "demote" => todo' = DOMAIN funcs'
        /\ pc' \in {"demote", "dead"}
    BY <1>12, FixIfIs
  <2>2. UNCHANGED <<program, sec>> /\ pc = "fixIf"
    BY <1>12 DEF FlowFixIfAddresses, Goto, Dead
  <2> QED BY <2>1, <2>2, AddsKeep DEF Step, Adds, Passes
<1>13. ASSUME NEW f \in todo, FlowDemoteInBounds(f) PROVE Step
  <2>1. /\ Typed' /\ DOMAIN funcs' \subseteq DOMAIN funcs
        /\ \A a \in DOMAIN funcs' : funcs'[a] = funcs[a]
        /\ \A a \in DOMAIN funcs : ~ funcs[a].promo => a \in DOMAIN funcs'
        /\ UNCHANGED <<program, sec>> /\ pc = "demote" /\ pc' \in {"demote", "dead"}
        /\ pc' = "demote" =>
             /\ todo' = todo \ {f}
             /\ f \in DOMAIN funcs' /\ funcs'[f].promo => ~ isInFuncBound(f)
    BY <1>13, DemoteIs
  <2>2. \A a : Kept(a) => Kept(a)'
    BY <2>1 DEF Kept
  <2>3. pc' = "demote" =>
          \A g \in DOMAIN funcs' : g \in todo' \/ g \notin todo \/ ~ funcs'[g].promo \/ ~ isInFuncBound(g)
    BY <2>1
  <2> QED BY <2>1, <2>2, <2>3 DEF Step, Passes
<1>14. CASE DemotedAll
  <2>1. /\ Typed' /\ UNCHANGED <<program, funcs, sec>> /\ pc = "demote"
        /\ pc' = "jumpTables" /\ todo = {}
    BY <1>14, DemotedAllIs DEF DemotedAll
  <2>2. \A a : Kept(a) => Kept(a)'
    BY <2>1 DEF Kept
  <2> QED BY <2>1, <2>2 DEF Step, Passes
<1>15. CASE FlowJumpTables
  <2>1. /\ Typed' /\ DOMAIN funcs' = DOMAIN funcs
        /\ \A a \in DOMAIN funcs :
             funcs'[a].end = funcs[a].end /\ funcs'[a].promo = funcs[a].promo
        /\ UNCHANGED <<program, sec>> /\ pc = "jumpTables" /\ pc' \in {"detect", "dead"}
    BY <1>15, JumpTablesIs DEF FlowJumpTables
  <2>2. \A a : Kept(a) => Kept(a)'
    BY <2>1 DEF Kept
  <2> QED BY <2>1, <2>2 DEF Step, Passes
<1>16. CASE FlowDetectIncomplete
  <2>1. /\ Typed' /\ UNCHANGED <<program, funcs>> /\ pc = "detect"
        /\ \/ sec' = sec /\ pc' = "broken" /\ NoEnd # {}
           \/ sec' = sec + 1 /\ pc' = "section" /\ NoEnd = {}
           \/ sec' = sec /\ pc' = "done" /\ NoEnd = {}
    BY <1>16, DetectIs
  <2>2. \A a : Kept(a) => Kept(a)'
    BY <2>1 DEF Kept
  <2> QED BY <2>1, <2>2 DEF Step
<1> QED
  BY <1>1, <1>2, <1>3, <1>4, <1>5, <1>6, <1>7, <1>8, <1>9, <1>10, <1>11, <1>12,
     <1>13, <1>14, <1>15, <1>16 DEF Next

(* Calls and jumps are the program's. *)
LEMMA SameProgram ==
  ASSUME program' = program
  PROVE  /\ \A i : Target(i)' = Target(i)
         /\ \A k : Calls(k)' = Calls(k) /\ Section(k)' = Section(k)
         /\ \A k, a : Jumps(k, a)' = Jumps(k, a)
         /\ \A k, a : PromotedBefore(k, a)' = PromotedBefore(k, a)
<1>1. code' = code
  BY DEF code
<1>2. \A i : Target(i)' = Target(i)
  BY <1>1 DEF Target
<1>3. \A k : Section(k)' = Section(k)
  BY DEF Section
<1>4. \A i, ops : Op(i, ops)' = Op(i, ops)
  BY <1>1 DEF Op, At
<1>5. \A k : Calls(k)' = Calls(k)
  BY <1>3, <1>4 DEF Calls
<1>6. \A k, a : Jumps(k, a)' = Jumps(k, a)
  BY <1>2, <1>3, <1>4 DEF Jumps
<1>7. \A k, a : PromotedBefore(k, a)' = PromotedBefore(k, a)
  BY <1>6 DEF PromotedBefore
<1> QED BY <1>2, <1>3, <1>5, <1>6, <1>7

(* A start that is known stays one: promotions are all that is lost. *)
LEMMA KnownNext == IInv /\ Step => Known'
<1> SUFFICES ASSUME IInv, Step PROVE Known'
  OBVIOUS
<1>1. /\ program' = program /\ (\A a : Kept(a) => Kept(a)')
      /\ pc # "promoteTail" =>
           \A a \in DOMAIN funcs' : funcs'[a].promo => a \in DOMAIN funcs /\ funcs[a].promo
      /\ pc = "imports" => program.imports \subseteq DOMAIN funcs'
      /\ pc = "pdata" => DOMAIN program.pdata \subseteq DOMAIN funcs'
  BY DEF Step
<1>2. Known
  BY DEF IInv
<1>3. /\ pc' # "imports" /\ (pc' = "pdata" => pc = "imports")
      /\ pc' \notin {"imports", "pdata"} => pc # "imports"
  BY DEF Step, Passes
<1>4. pc \in {"imports", "pdata"} => \A a \in DOMAIN funcs' : ~ funcs'[a].promo
  BY <1>1, <1>2 DEF Known
<1>5. Kept(Entry)'
  BY <1>1, <1>2 DEF Known
<1>6. \A a \in program.imports : Kept(a)'
  <2>1. CASE pc = "imports"
    BY <2>1, <1>1, <1>4 DEF Kept
  <2>2. CASE pc # "imports"
    BY <2>2, <1>1, <1>2 DEF Known
  <2> QED BY <2>1, <2>2
<1>7. pc # "imports" => \A a \in DOMAIN program.pdata : Kept(a)'
  <2>1. CASE pc = "pdata"
    BY <2>1, <1>1, <1>4 DEF Kept
  <2>2. CASE pc \notin {"imports", "pdata"}
    BY <2>2, <1>1, <1>2 DEF Known
  <2> QED BY <2>1, <2>2
<1> QED BY <1>1, <1>3, <1>4, <1>5, <1>6, <1>7 DEF Known

(* So does the target of a call, from flow_blJumps on, unless an earlier   *)
(* round may have promoted it.                                             *)
LEMMA CalledNext == IInv /\ Step => CalledKept'
<1> SUFFICES ASSUME IInv, Step, NEW k \in (1 .. sec)',
                    (k < sec \/ pc \notin BeforeCalls \cup {"dead"})',
                    NEW i \in Calls(k)'
             PROVE  Kept(Target(i))' \/ PromotedBefore(k, Target(i))'
  BY DEF CalledKept, Called
<1>1. /\ program' = program /\ (\A a : Kept(a) => Kept(a)')
      /\ pc # "promoteTail" =>
           \A a \in DOMAIN funcs' : funcs'[a].promo => a \in DOMAIN funcs /\ funcs[a].promo
      /\ pc = "blJumps" => \A j \in Calls(sec) : Target(j) \in DOMAIN funcs'
  BY DEF Step
<1>2. CalledKept /\ Promoted /\ sec \in Nat
  BY ProgramIs DEF IInv, Typed
<1>3. i \in Calls(k) /\ Target(i)' = Target(i)
      /\ PromotedBefore(k, Target(i))' = PromotedBefore(k, Target(i))
  BY <1>1, SameProgram
<1>4. /\ k \in 1 .. sec
      /\ \/ k < sec \/ pc \notin BeforeCalls \cup {"dead"}
         \/ pc = "blJumps" /\ k = sec
  <2>1. CASE sec' = sec /\ <<pc, pc'>> \in Passes
    BY <2>1, <1>2 DEF Passes, BeforeCalls
  <2>2. CASE pc = "detect" /\ sec' = sec
    BY <2>2, <1>2 DEF BeforeCalls
  <2>3. CASE pc = "detect" /\ pc' = "section" /\ sec' = sec + 1
    BY <2>3, <1>2 DEF BeforeCalls
  <2> QED BY <2>1, <2>2, <2>3 DEF Step
<1>5. CASE k < sec \/ pc \notin BeforeCalls \cup {"dead"}
  <2>1. Called(k)
    BY <1>2, <1>4, <1>5 DEF CalledKept
  <2>2. Kept(Target(i)) \/ PromotedBefore(k, Target(i))
    BY <1>3, <2>1 DEF Called
  <2>3. Kept(Target(i)) => Kept(Target(i))'
    BY <1>1, <1>3 DEF Kept
  <2> QED BY <1>3, <2>2, <2>3
<1>6. CASE pc = "blJumps" /\ k = sec
  <2> DEFINE a == Target(i)
  <2>1. a \in DOMAIN funcs'
    BY <1>1, <1>3, <1>6
  <2>2. CASE funcs'[a].promo
    <3>1. a \in DOMAIN funcs /\ funcs[a].promo
      BY <1>1, <1>6, <2>1, <2>2
    <3>2. PromotedBefore(sec, a)
      BY <1>2, <1>6, <3>1 DEF Promoted, BeforeTails, BeforeCalls
    <3> QED BY <1>3, <1>6, <3>2
  <2>3. CASE ~ funcs'[a].promo
    BY <1>3, <2>1, <2>3 DEF Kept
  <2> QED BY <2>2, <2>3
<1> QED BY <1>4, <1>5, <1>6

(* Where promotions come from, from one pass to the next and from one      *)
(* section to the next.                                                    *)
LEMMA PromotedNext == IInv /\ Step => Promoted'
<1> SUFFICES ASSUME IInv, Step, pc' # "dead", NEW a \in DOMAIN funcs', funcs'[a].promo
             PROVE  \/ PromotedBefore(sec, a)'
                    \/ /\ pc' \notin BeforeTails
                       /\ (Jumps(sec, a) # {})'
                       /\ funcs'[a].end = None \/ a <= last'
  BY DEF Promoted
<1>1. /\ program' = program /\ Typed
      /\ pc # "promoteTail" => a \in DOMAIN funcs /\ funcs[a].promo
      /\ pc = "promoteTail" => Tails(funcs, funcs')
  BY DEF Step, IInv
<1>2. Promoted /\ sec \in Nat /\ pc # "dead"
  BY ProgramIs DEF IInv, Typed, Step, Passes
<1>3. /\ \A k : PromotedBefore(k, a)' = PromotedBefore(k, a)
      /\ \A k : Jumps(k, a)' = Jumps(k, a)
  BY <1>1, SameProgram
<1>4. /\ sec' = sec => /\ PromotedBefore(sec, a)' = PromotedBefore(sec, a)
                       /\ Jumps(sec, a)' = Jumps(sec, a) /\ last' = last
      /\ sec' = sec + 1 => PromotedBefore(sec, a)' = PromotedBefore(sec + 1, a)
  <2>1. sec' = sec => last' = last
    BY <1>1 DEF last
  <2>2. sec' = sec => Jumps(sec, a)' = Jumps(sec, a)
    BY <1>1, SameProgram DEF Jumps, Section, Op, At, Target, code
  <2>3. \A k : sec' = k => PromotedBefore(sec, a)' = PromotedBefore(k, a)
    BY <1>1 DEF PromotedBefore, Jumps, Section, Op, At, Target, code
  <2> QED BY <2>1, <2>2, <2>3
<1>5. CASE pc = "promoteTail"
  <2>1. sec' = sec /\ pc' = "stackInit"
    BY <1>5 DEF Step, Passes
  <2>2. CASE a \in DOMAIN funcs
    <3>1. PromotedBefore(sec, a)
      BY <1>1, <1>2, <1>5, <2>2 DEF Promoted, BeforeTails, Tails
    <3> QED BY <1>4, <2>1, <3>1
  <2>3. CASE a \notin DOMAIN funcs
    <3>1. funcs'[a].end = None /\ Jumps(sec, a) # {}
      BY <1>1, <1>5, <2>3 DEF Tails
    <3> QED BY <1>4, <2>1, <3>1 DEF BeforeTails, BeforeCalls
  <2> QED BY <2>2, <2>3
<1>6. CASE pc # "promoteTail"
  <2>1. \/ PromotedBefore(sec, a)
        \/ /\ pc \notin BeforeTails /\ Jumps(sec, a) # {}
           /\ funcs[a].end = None \/ a <= last
    BY <1>1, <1>2, <1>6 DEF Promoted
  <2>2. CASE sec' = sec
    <3>1. pc \notin BeforeTails => pc' \notin BeforeTails
      BY <2>2, <1>2 DEF Step, Passes, BeforeTails, BeforeCalls
    <3>2. pc \notin BeforeTails /\ funcs[a].end = None /\ a > last => funcs'[a].end = None
      BY <1>1, <1>6 DEF Step
    <3>3. a \in Int /\ last \in Int
      BY <1>1, <1>6, FuncsAre, ProgramIs DEF Addresses
    <3> QED BY <1>4, <2>1, <2>2, <3>1, <3>2, <3>3
  <2>3. CASE sec' = sec + 1
    <3>1. NoEnd = {}
      BY <1>2, <2>3 DEF Step
    <3>2. PromotedBefore(sec, a) => PromotedBefore(sec + 1, a)
      BY <1>2 DEF PromotedBefore
    <3>3. a <= last /\ Jumps(sec, a) # {} => PromotedBefore(sec + 1, a)
      <4>1. sec \in 1 .. (sec + 1) - 1
        BY <1>1, <1>2, ProgramIs DEF Typed
      <4> QED BY <4>1 DEF PromotedBefore, last
    <3>4. funcs[a].end # None
      BY <1>1, <1>6, <3>1 DEF NoEnd
    <3> QED BY <1>4, <2>1, <2>3, <3>2, <3>3, <3>4
  <2> QED BY <2>2, <2>3 DEF Step
<1> QED BY <1>5, <1>6

(* From flow_bclrAndTailEpil on, what has no end starts behind the section. *)
LEMMA EndedNext == IInv /\ Step => Ended'
<1> SUFFICES ASSUME IInv, Step PROVE Ended'
  OBVIOUS
<1>1. Typed /\ Ended
  BY DEF IInv
<1>2. /\ DOMAIN funcs' \subseteq Addresses /\ last \in Addresses
      /\ sec' = sec => last' = last
  <2>1. PICK T : funcs' \in FuncMaps(T)
    BY DEF Step, Typed
  <2>2. DOMAIN funcs' \subseteq Addresses
    BY <2>1, FuncMapIs
  <2>3. sec' = sec => last' = last
    BY DEF Step, last
  <2> QED BY <1>1, <2>2, <2>3, ProgramIs
<1>3. ASSUME pc' \in AfterEnds, NEW f \in NoEnd' PROVE f > last'
  <2>1. f \in DOMAIN funcs' /\ funcs'[f].end = None
    BY <1>3 DEF NoEnd
  <2>2. sec' = sec
    BY <1>3 DEF Step, AfterEnds
  <2>3. CASE pc = "bclrAndTail"
    <3>1. f \in DOMAIN funcs /\ ~ (f <= last)
      BY <2>1, <2>3, <1>3 DEF Step, Passes, AfterEnds
    <3> QED BY <3>1, <1>2, <2>1, <2>2 DEF Addresses
  <2>4. CASE pc \in {"fixIf", "demote", "jumpTables", "detect"}
    <3>1. f \in NoEnd
      <4>1. f \in DOMAIN funcs /\ funcs[f].end = None
        BY <2>1, <2>4 DEF Step, Passes
      <4> QED BY <4>1 DEF NoEnd
    <3> QED BY <3>1, <1>1, <1>2, <2>2, <2>4 DEF Ended, AfterEnds
  <2> QED BY <2>3, <2>4, <1>3 DEF Step, Passes, AfterEnds
<1>4. pc' = "broken" => NoEnd' # {}
  BY DEF Step, Passes, NoEnd
<1> QED BY <1>3, <1>4 DEF Ended

(* What the loop of flow_demoteInBounds has passed and left in the map is  *)
(* inside no function, whatever is erased later.                           *)
LEMMA DemotedNext == IInv /\ Step => Demoted'
<1> SUFFICES ASSUME IInv, Step PROVE Demoted'
  OBVIOUS
<1>1. Demoted
  BY DEF IInv
<1>2. ASSUME NEW f \in DOMAIN funcs', funcs'[f].promo,
             (pc' = "demote" /\ f \notin todo') \/ pc' \in {"jumpTables", "detect", "done"}
      PROVE  ~ isInFuncBound(f)'
  <2>1. pc \in {"fixIf", "demote", "jumpTables", "detect"}
    BY <1>2 DEF Step, Passes
  <2>2. pc # "fixIf"
    BY <1>2 DEF Step, Passes
  <2>3. /\ \A g \in DOMAIN funcs' : g \in DOMAIN funcs /\ funcs'[g].end = funcs[g].end
        /\ f \in DOMAIN funcs /\ funcs[f].promo
    BY <1>2, <2>1, <2>2 DEF Step, Passes
  <2>4. ~ isInFuncBound(f)
    BY <1>1, <1>2, <2>1, <2>2, <2>3 DEF Step, Passes, Demoted
  <2> QED BY <2>3, <2>4 DEF isInFuncBound
<1> QED BY <1>2 DEF Demoted

(* The invariant holds when InitLLVM has put in the entry point. *)
LEMMA InitInv == Init => IInv
<1> SUFFICES ASSUME Init PROVE IInv
  OBVIOUS
<1>1. funcs = GetCreate(<<>>, {Entry}) /\ DOMAIN funcs = {Entry} /\ funcs[Entry] = New
  BY DEF Init, GetCreate
<1>2. funcs \in FuncMaps(TableSets(program))
  <2> DEFINE T == TableSets(program)
  <2>1. New \in Records(T) /\ Entry \in Addresses
    <3>1. {} \in T
      BY DEF TableSets
    <3> QED BY <3>1, NewIs, FlowAssumption
  <2>2. funcs = [a \in {Entry} |-> New]
    BY DEF Init, GetCreate
  <2>3. {Entry} \in SUBSET Addresses /\ funcs \in [{Entry} -> Records(T)]
    BY <2>1, <2>2
  <2> QED BY <2>3 DEF FuncMaps
<1>3. 1 \in DOMAIN program.sections
  <2>1. program.sections \in Seq(Addresses \X Addresses) /\ program.sections # <<>>
    BY FlowAssumption DEF Init
  <2> QED BY <2>1
<1>4. Typed
  BY <1>2, <1>3 DEF Init, Typed, Phases
<1>5. Known /\ Promoted
  BY <1>1, NewIs DEF Init, Known, Kept, Promoted
<1>6. CalledKept /\ Ended /\ Demoted
  BY DEF Init, CalledKept, BeforeCalls, Ended, AfterEnds, Demoted
<1> QED BY <1>4, <1>5, <1>6 DEF IInv

(* Every pass, and every stutter, preserves the invariant. *)
LEMMA NextInv == IInv /\ [Next]_vars => IInv'
<1> SUFFICES ASSUME IInv, [Next]_vars PROVE IInv'
  OBVIOUS
<1>1. CASE Next
  <2>1. Step
    BY <1>1, Steps DEF IInv
  <2>2. Typed'
    BY <2>1 DEF Step
  <2> QED BY <2>1, <2>2, KnownNext, CalledNext, PromotedNext, EndedNext, DemotedNext DEF IInv
<1>2. CASE UNCHANGED vars
  <2>1. UNCHANGED <<program, funcs, sec, pc, todo>>
    BY <1>2 DEF vars
  <2>2. Typed' /\ Known' /\ Ended'
    BY <2>1 DEF IInv, Typed, Known, Kept, Ended, NoEnd, last
  <2>3. CalledKept'
    <3>1. \A k, a : PromotedBefore(k, a)' = PromotedBefore(k, a)
      BY <2>1, SameProgram
    <3>2. \A k : Calls(k)' = Calls(k)
      BY <2>1, SameProgram
    <3>3. \A i : Target(i)' = Target(i)
      BY <2>1, SameProgram
    <3>4. \A a : Kept(a)' = Kept(a)
      BY <2>1 DEF Kept
    <3> QED BY <2>1, <3>1, <3>2, <3>3, <3>4 DEF IInv, CalledKept, Called
  <2>4. Promoted'
    BY <2>1 DEF IInv, Promoted, PromotedBefore, Jumps, Section, Op, At, Target, code, last
  <2>5. Demoted'
    BY <2>1 DEF IInv, Demoted, isInFuncBound
  <2> QED BY <2>2, <2>3, <2>4, <2>5 DEF IInv
<1> QED BY <1>1, <1>2
-----------------------------------------------------------------------------
(* The invariant holds of every program that is recompiled. *)
THEOREM Invariant == Spec => []IInv
BY InitInv, NextInv, PTL DEF Spec

(***************************************************************************)
(* What is entered, imported, listed in .pdata or called is a function at  *)
(* the end, whatever flow_demoteInBounds erases: only promotions go, and   *)
(* no pass of this round makes one of a start that is known.               *)
(***************************************************************************)
THEOREM StartsKept == Spec => []KnownStartsKept
<1>1. IInv => KnownStartsKept
  <2> SUFFICES ASSUME IInv, pc = "done"
               PROVE  /\ {Entry} \cup program.imports \cup DOMAIN program.pdata \subseteq DOMAIN funcs
                      /\ \A k \in DOMAIN program.sections : \A i \in Calls(k) :
                           isIRFuncinMap(Target(i)) \/ PromotedBefore(k, Target(i))
    BY DEF KnownStartsKept
  <2>1. {Entry} \cup program.imports \cup DOMAIN program.pdata \subseteq DOMAIN funcs
    BY DEF IInv, Known, Kept
  <2>2. DOMAIN program.sections = 1 .. sec
    BY ProgramIs DEF IInv, Typed
  <2>3. \A k \in 1 .. sec : Called(k)
    BY DEF IInv, CalledKept, BeforeCalls
  <2> QED BY <2>1, <2>2, <2>3 DEF Called, Kept, isIRFuncinMap
<1> QED BY <1>1, Invariant, PTL

(* A promotion that is left is inside no other function. *)
THEOREM PromotionsOutside == Spec => []PromotedOutside
<1>1. IInv => PromotedOutside
  <2> SUFFICES ASSUME IInv, pc = "done", NEW f \in DOMAIN funcs, NEW g \in DOMAIN funcs,
                      funcs[f].promo, g < f
               PROVE  f >= funcs[g].end
    BY DEF PromotedOutside
  <2>1. ~ isInFuncBound(f)
    BY DEF IInv, Demoted
  <2>2. f \in Int /\ funcs[g].end \in Int
    BY FuncsAre DEF IInv, Addresses
  <2> QED BY <2>1, <2>2 DEF isInFuncBound
<1> QED BY <1>1, Invariant, PTL

(* flow_detectIncomplete breaks for starts behind the section only. *)
THEOREM BreaksOutside == Spec => []BreaksOnlyOutside
<1>1. IInv => BreaksOnlyOutside
  BY DEF IInv, Ended, AfterEnds, BreaksOnlyOutside
<1> QED BY <1>1, Invariant, PTL

(* Where a jump stands before a function, the scan ends no function that   *)
(* starts before it behind that jump, nor before its own start.            *)
LEMMA ScanStops ==
  ASSUME Typed, NEW f \in NoEnd, NEW n \in DOMAIN funcs, f < n, n <= last, BehindLeave(n)
  PROVE  f <= ScannedEnd(f) /\ ScannedEnd(f) < n
<1>1. /\ f \in DOMAIN funcs /\ f \in Int /\ n \in Int /\ last \in Int
      /\ f <= last /\ n - 1 \in f .. last /\ n - 1 # last
  BY FuncsAre, ProgramIs DEF NoEnd, Addresses
<1>2. Stop(n - 1)
  BY <1>1 DEF Stop, BehindLeave, isIRFuncinMap
<1> DEFINE s == FirstStop(f)
<1>3. s \in f .. last /\ s <= n - 1
  BY <1>1, <1>2, FirstStopIs
<1>4. NextStart(s + 1) \in Addresses /\ s + 1 <= NextStart(s + 1) /\ NextStart(s + 1) <= n
  BY <1>1, <1>3, NextStartIs
<1>5. ScannedEnd(f) \in {s, NextStart(s + 1) - 1}
  BY DEF ScannedEnd
<1> HIDE DEF s
<1> QED BY <1>1, <1>3, <1>4, <1>5 DEF Addresses

(* So every step of the scan ends functions before the next one. *)
THEOREM EndsStop == Spec => EndsBeforeNext
<1> DEFINE A == pc = "bclrAndTail" /\ pc' = "fixIf" =>
                  \A f \in NoEnd, n \in DOMAIN funcs :
                    f < n /\ n <= last /\ BehindLeave(n) =>
                      f <= funcs'[f].end /\ funcs'[f].end < n
<1>1. IInv /\ [Next]_vars => [A]_vars
  <2> SUFFICES ASSUME IInv, Next, pc = "bclrAndTail", pc' = "fixIf",
                      NEW f \in NoEnd, NEW n \in DOMAIN funcs,
                      f < n, n <= last, BehindLeave(n)
               PROVE  f <= funcs'[f].end /\ funcs'[f].end < n
    OBVIOUS
  <2>1. Typed /\ FlowBclrAndTailEpil
    BY DEF IInv, Next, PatchImportsFunctions, FlowPData, FirstFunction, FlowPromoteSaveRest,
           FlowBlJumps, FlowMfsprProl, FlowPromoteTailProl, FlowStackInitProl, FlowDataSecAdr,
           FlowMtsprEpil, FlowFixIfAddresses, FlowDemoteInBounds, DemotedAll, FlowJumpTables,
           FlowDetectIncomplete
  <2>2. f <= last
    BY <2>1, FuncsAre, ProgramIs DEF NoEnd, Addresses
  <2>3. funcs'[f].end = ScannedEnd(f)
    BY <2>1, <2>2, BclrAndTailIs
  <2> QED BY <2>1, <2>3, ScanStops
<1> QED BY <1>1, Invariant, PTL DEF Spec, EndsBeforeNext
-----------------------------------------------------------------------------
(***************************************************************************)
(* findTargetsSize, with the compare at c and the branch to the default at *)
(* b.  After k instructions the search stands behind i - k + 1.            *)
(***************************************************************************)
Fields(cs) == {-1} \cup {cs[j].crf : j \in DOMAIN cs}

Found(cs) == [field : Fields(cs), size : Nat, targets : Seq(Int), out : BOOLEAN]

Begun == [field |-> -1, size |-> 0, targets |-> <<>>, out |-> FALSE]

Stage(cs, i, b, c, k, s) ==
  /\ s \in Found(cs)
  /\ k <= i - b => s.size = 0 /\ s.targets = <<>>
  /\ k > i - b /\ k <= i - c =>
       s.size = 0 /\ s.targets = <<Default(cs, b)>> /\ s.field = cs[b].crf
  /\ k > i - c => s.size = cs[c].imm + 1 /\ s.targets = <<Default(cs, b)>>

Guarded(cs, i, b, c) ==
  /\ i - Window + 1 <= c /\ c < b /\ b < i
  /\ At(cs, b, {"bc"}) /\ At(cs, c, {"cmplwi"}) /\ cs[b].crf = cs[c].crf
  /\ \A j \in c .. i - 1 : At(cs, j, {"bc", "cmplwi"}) => j \in {b, c}

(* What the code of a program is like, as far as the search needs it. *)
Searchable(cs) ==
  /\ DOMAIN cs \subseteq Int
  /\ \A j \in DOMAIN cs : /\ cs[j].to \in Int
                          /\ At(cs, j, {"bc"}) => cs[j].to - j < BcWrap
                          /\ At(cs, j, {"cmplwi"}) => cs[j].imm \in Nat

(* Displacements are below the wrap, compares are with numbers. *)
LEMMA CodeIs == \A prg \in Programs : Searchable(prg.code)
<1> SUFFICES ASSUME NEW prg \in Programs PROVE Searchable(prg.code)
  OBVIOUS
<1>1. DOMAIN prg.code \subseteq Addresses /\ \A j \in DOMAIN prg.code : prg.code[j].to \in Int
  BY FlowAssumption
<1> QED BY <1>1, TablesAssumption DEF Searchable, Addresses

(* A branch forwards leads where findTargetsSize takes it to lead. *)
LEMMA DefaultIs ==
  ASSUME NEW cs, Searchable(cs), NEW j, At(cs, j, {"bc"})
  PROVE  Default(cs, j) \in Int /\ (cs[j].to >= j => Default(cs, j) = cs[j].to)
<1>1. j \in Int /\ cs[j].to \in Int /\ cs[j].to - j < BcWrap /\ BcWrap \in Nat \ {0}
  BY TablesAssumption DEF Searchable, At
<1> DEFINE d == cs[j].to - j
<1>2. d \in Int /\ d % BcWrap \in Int
  BY <1>1
<1>3. d >= 0 => d % BcWrap = d
  BY <1>1
<1>4. Default(cs, j) = j + (d % BcWrap)
  BY DEF Default
<1> QED BY <1>1, <1>2, <1>3, <1>4

(* An instruction that is looked at leaves a well-formed result. *)
LEMMA LookIs ==
  ASSUME NEW cs, Searchable(cs), NEW s \in Found(cs), NEW j
  PROVE  Look(cs, s, j) \in Found(cs)
<1>1. CASE s.size > 0
  BY <1>1 DEF Look
<1>2. CASE ~ (s.size > 0) /\ j \notin DOMAIN cs
  BY <1>2 DEF Look, Found, At
<1>3. CASE ~ (s.size > 0) /\ At(cs, j, {"bc"})
  <2>1. Default(cs, j) \in Int /\ cs[j].crf \in Fields(cs) /\ j \in DOMAIN cs /\ cs[j].op = "bc"
    BY <1>3, DefaultIs DEF Fields, At
  <2>2. Look(cs, s, j) = [s EXCEPT !.field = cs[j].crf, !.targets = Append(@, Default(cs, j))]
    BY <1>3, <2>1 DEF Look, At
  <2>3. Append(s.targets, Default(cs, j)) \in Seq(Int)
    BY <2>1 DEF Found
  <2> QED BY <2>1, <2>2, <2>3 DEF Found
<1>4. CASE ~ (s.size > 0) /\ At(cs, j, {"cmplwi"}) /\ cs[j].crf = s.field
  <2>1. cs[j].imm + 1 \in Nat /\ j \in DOMAIN cs /\ cs[j].op = "cmplwi"
    BY <1>4 DEF Searchable, At
  <2>2. Look(cs, s, j) = [s EXCEPT !.size = cs[j].imm + 1]
    BY <1>4, <2>1 DEF Look, At
  <2> QED BY <2>1, <2>2 DEF Found
<1>5. CASE /\ ~ (s.size > 0) /\ j \in DOMAIN cs /\ ~ At(cs, j, {"bc"})
           /\ ~ (At(cs, j, {"cmplwi"}) /\ cs[j].crf = s.field)
  BY <1>5 DEF Look
<1> QED BY <1>1, <1>2, <1>3, <1>4, <1>5

(* One more instruction takes the search from one stage to the next. *)
LEMMA LookOn ==
  ASSUME NEW cs, Searchable(cs), NEW i \in Int, NEW b \in Int, NEW c \in Int, Guarded(cs, i, b, c),
         ~ At(cs, i, {"bc", "cmplwi"}),
         NEW k \in Nat, NEW s, Stage(cs, i, b, c, k, s)
  PROVE  Stage(cs, i, b, c, k + 1, Look(cs, s, i - k))
<1> DEFINE j == i - k
           r == Look(cs, s, j)
<1> SUFFICES Stage(cs, i, b, c, k + 1, r)
  OBVIOUS
<1>1. s \in Found(cs) /\ r \in Found(cs) /\ c < b /\ b < i
  BY LookIs DEF Stage, Guarded
<1>2. CASE k + 1 <= i - b \/ (k > i - b /\ k + 1 <= i - c)
  <2>1. s.size = 0 /\ j \in Int /\ j # b /\ j # c /\ j <= i /\ j > c
    BY <1>1, <1>2 DEF Stage
  <2>2. ~ At(cs, j, {"bc"}) /\ ~ At(cs, j, {"cmplwi"})
    <3>1. ~ At(cs, j, {"bc", "cmplwi"})
      BY <2>1 DEF Guarded
    <3> QED BY <3>1 DEF At
  <2>3. r = s \/ r = [s EXCEPT !.out = TRUE]
    BY <2>1, <2>2 DEF Look
  <2>4. r.size = s.size /\ r.targets = s.targets /\ r.field = s.field
    BY <1>1, <2>3 DEF Found
  <2> HIDE DEF r
  <2> QED BY <1>1, <1>2, <2>4 DEF Stage
<1>3. CASE k = i - b
  <2>1. s.size = 0 /\ s.targets = <<>> /\ j = b /\ At(cs, b, {"bc"})
    BY <1>1, <1>3 DEF Stage, Guarded
  <2>2. r = [s EXCEPT !.field = cs[b].crf, !.targets = Append(@, Default(cs, b))]
    <3>1. r = Look(cs, s, b)
      BY <2>1
    <3>2. b \in DOMAIN cs /\ At(cs, b, {"bc"}) /\ ~ At(cs, b, {"cmplwi"}) /\ ~ (s.size > 0)
      BY <2>1 DEF At
    <3> QED BY <3>1, <3>2 DEF Look
  <2>3. Append(s.targets, Default(cs, b)) = <<Default(cs, b)>>
    BY <2>1, DefaultIs
  <2>4. r.size = 0 /\ r.targets = <<Default(cs, b)>> /\ r.field = cs[b].crf
    BY <1>1, <2>1, <2>2, <2>3 DEF Found
  <2> HIDE DEF r
  <2> QED BY <1>1, <1>3, <2>4 DEF Stage
<1>4. CASE k = i - c
  <2>1. /\ s.size = 0 /\ s.targets = <<Default(cs, b)>> /\ s.field = cs[c].crf
        /\ j = c /\ At(cs, c, {"cmplwi"})
    BY <1>1, <1>4 DEF Stage, Guarded
  <2>2. r = [s EXCEPT !.size = cs[c].imm + 1]
    BY <2>1 DEF Look, At
  <2>3. r.size = cs[c].imm + 1 /\ r.targets = <<Default(cs, b)>>
    BY <1>1, <2>1, <2>2 DEF Found
  <2> HIDE DEF r
  <2> QED BY <1>1, <1>4, <2>3 DEF Stage
<1>5. CASE k > i - c
  <2>1. s.size = cs[c].imm + 1 /\ s.targets = <<Default(cs, b)>> /\ cs[c].imm \in Nat
    BY <1>5 DEF Stage, Guarded, Searchable, At
  <2>2. r = s
    BY <2>1 DEF Look
  <2> HIDE DEF r
  <2> QED BY <1>1, <1>5, <2>1, <2>2 DEF Stage
<1> QED BY <1>1, <1>2, <1>3, <1>4, <1>5

(* The search looks at one instruction after the other: g[k] is what it    *)
(* has found after k of them.                                              *)
Searches(g, cs, i) ==
  /\ g[0] = Begun /\ g[Window] = FindTargetsSize(cs, i)
  /\ \A k \in 0 .. Window : g[k] \in Found(cs)
  /\ \A k \in 1 .. Window : g[k] = Look(cs, g[k - 1], i - (k - 1))

LEMMA SearchInTurn ==
  ASSUME NEW cs, Searchable(cs), NEW i \in Int
  PROVE  \E g : Searches(g, cs, i)
<1> DEFINE n == Window
           V == Found(cs)
           h == [p \in V \X (1 .. n) |-> Look(cs, p[1], Searched(i)[p[2]])]
           E(g) == g = [s \in SUBSET (1 .. n) |->
                          IF s = {} THEN Begun ELSE Look(cs, g[s \ {Max(s)}], Searched(i)[Max(s)])]
           f == CHOOSE g : E(g)
<1>1. n \in Nat /\ DOMAIN Searched(i) = 1 .. n
  BY FlowAssumption DEF Searched
<1>2. Begun \in V
  BY DEF Begun, Found, Fields
<1>3. \A v \in V, k \in 1 .. n : h[<<v, k>>] = Look(cs, v, Searched(i)[k]) /\ h[<<v, k>>] \in V
  BY LookIs
<1>4. \A k \in 1 .. n : Searched(i)[k] = i - (k - 1)
  BY <1>1 DEF Searched
<1> HIDE DEF n, V, h
<1>5. FoldDefined(n, V, Begun, h)
  BY <1>1, <1>2, <1>3, FoldExists
<1>6. \E g : E(g)
  <2>1. PICK g \in [SUBSET (1 .. n) -> V] :
               g = [s \in SUBSET (1 .. n) |->
                      IF s = {} THEN Begun ELSE h[<<g[s \ {Max(s)}], Max(s)>>]]
    BY <1>5 DEF FoldDefined, FoldEquation
  <2>2. ASSUME NEW s \in SUBSET (1 .. n), s # {}
        PROVE  h[<<g[s \ {Max(s)}], Max(s)>>] = Look(cs, g[s \ {Max(s)}], Searched(i)[Max(s)])
    <3>1. Max(s) \in 1 .. n
      BY <2>2, <1>1, MaxOfSome
    <3>2. g[s \ {Max(s)}] \in V
      OBVIOUS
    <3> QED BY <3>1, <3>2, <1>3
  <2>3. E(g)
    BY <2>1, <2>2
  <2> QED BY <2>3
<1>7. E(f)
  BY <1>6
<1>8. FindTargetsSize(cs, i) = f[1 .. n]
  BY <1>1 DEF FindTargetsSize, FoldLeft, MapThenFoldSet, Begun
<1> HIDE DEF f
<1>9. FoldsWith(f, n, V, Begun, h)
  <2>1. ASSUME NEW t \in SUBSET (1 .. n), t # {}, f[t \ {Max(t)}] \in V
        PROVE  f[t] = h[<<f[t \ {Max(t)}], Max(t)>>]
    <3>1. Max(t) \in 1 .. n
      BY <2>1, <1>1, MaxOfSome
    <3> QED BY <1>3, <1>7, <2>1, <3>1
  <2>2. f[{}] = Begun
    BY <1>7
  <2> QED BY <1>1, <1>2, <1>3, <2>1, <2>2 DEF FoldsWith
<1>10. PICK g : InTurnBy(g, n, V, Begun, h) /\ g[n] = f[1 .. n]
  BY <1>9, FoldInTurn
<1>11. ASSUME NEW k \in 1 .. n PROVE g[k] = Look(cs, g[k - 1], i - (k - 1))
  BY <1>3, <1>4, <1>10 DEF InTurnBy
<1>12. \A k \in 0 .. n : g[k] \in V
  BY <1>10 DEF InTurnBy
<1> QED BY <1>8, <1>10, <1>11, <1>12 DEF InTurnBy, Searches, n, V

(* The search finds the branch as the default and the compare as the size. *)
LEMMA FindTargetsSizeIs ==
  ASSUME NEW cs, Searchable(cs), NEW i \in Int, NEW b \in Int, NEW c \in Int, Guarded(cs, i, b, c),
         ~ At(cs, i, {"bc", "cmplwi"})
  PROVE  /\ FindTargetsSize(cs, i).size = cs[c].imm + 1
         /\ FindTargetsSize(cs, i).targets = <<Default(cs, b)>>
<1>1. Window \in Nat
  BY FlowAssumption
<1>2. PICK g : Searches(g, cs, i)
  BY SearchInTurn
<1> DEFINE P == {k \in Nat : k <= Window => Stage(cs, i, b, c, k, g[k])}
<1>3. 0 \in P
  <2>1. Begun \in Found(cs) /\ g[0] = Begun
    BY <1>2 DEF Begun, Found, Fields, Searches
  <2> QED BY <2>1 DEF Begun, Stage, Guarded
<1>4. ASSUME NEW k \in Nat, k \in P PROVE k + 1 \in P
  <2> SUFFICES ASSUME k + 1 <= Window PROVE Stage(cs, i, b, c, k + 1, g[k + 1])
    OBVIOUS
  <2>1. k + 1 \in 1 .. Window /\ (k + 1) - 1 = k
    BY <1>1
  <2>2. g[k + 1] = Look(cs, g[k], i - k)
    BY <1>2, <2>1 DEF Searches
  <2>3. Stage(cs, i, b, c, k, g[k])
    BY <1>1, <1>4
  <2> QED BY <2>2, <2>3, LookOn
<1>5. Window \in P
  <2> HIDE DEF P
  <2> QED BY <1>1, <1>3, <1>4, Induction
<1>6. Window > i - c
  BY <1>1 DEF Guarded
<1> QED BY <1>1, <1>2, <1>5, <1>6 DEF Stage, Searches

(* The cases of a table behind its default. *)
LEMMA CasesAre ==
  ASSUME NEW x, NEW cases \in Seq(Addresses), NEW n \in Nat, n >= 1, n <= Len(cases)
  PROVE  /\ (<<x>> \o SubSeq(cases, 2, n))[1] = x
         /\ Range(Tail(<<x>> \o SubSeq(cases, 2, n))) \subseteq Range(SubSeq(cases, 1, n))
         /\ \A k \in 1 .. n - 1 : cases[k + 1] \in Range(Tail(<<x>> \o SubSeq(cases, 2, n)))
<1> DEFINE s == SubSeq(cases, 2, n)
           r == SubSeq(cases, 1, n)
           t == <<x>> \o s
<1>1. s \in Seq(Addresses) /\ Len(s) = n - 1 /\ \A k \in 1 .. n - 1 : s[k] = cases[k + 1]
  OBVIOUS
<1>2. r \in Seq(Addresses) /\ Len(r) = n /\ \A k \in 1 .. n : r[k] = cases[k]
  OBVIOUS
<1> HIDE DEF s, r
<1>3. /\ t \in Seq(Addresses \cup {x}) /\ Len(t) = n /\ t[1] = x
      /\ \A k \in 2 .. n : t[k] = s[k - 1]
  BY <1>1
<1> HIDE DEF t
<1>4. /\ Tail(t) \in Seq(Addresses \cup {x}) /\ Len(Tail(t)) = n - 1
      /\ \A k \in 1 .. n - 1 : Tail(t)[k] = t[k + 1]
  BY <1>3
<1>5. DOMAIN Tail(t) = 1 .. n - 1 /\ DOMAIN r = 1 .. n
  BY <1>2, <1>4
<1>6. ASSUME NEW k \in 1 .. n - 1 PROVE Tail(t)[k] = r[k + 1] /\ r[k + 1] = cases[k + 1] /\ k + 1 \in 1 .. n
  <2>1. k + 1 \in 2 .. n /\ (k + 1) - 1 = k
    OBVIOUS
  <2>2. t[k + 1] = s[k] /\ s[k] = cases[k + 1] /\ r[k + 1] = cases[k + 1]
    BY <1>1, <1>2, <1>3, <2>1
  <2> QED BY <1>4, <2>1, <2>2
<1>7. Range(Tail(t)) \subseteq Range(r)
  BY <1>5, <1>6 DEF Range
<1>8. \A k \in 1 .. n - 1 : cases[k + 1] \in Range(Tail(t))
  BY <1>5, <1>6 DEF Range
<1> QED BY <1>3, <1>7, <1>8 DEF t, s, r

(***************************************************************************)
(* A table whose compare and branch are in the window, with nothing like   *)
(* them between, leads to the default and to its cases, all but the first. *)
(***************************************************************************)
THEOREM CasesOfTables == Spec => []TablesLeadToCases
<1>1. IInv => TablesLeadToCases
  <2> SUFFICES ASSUME IInv, pc = "done", NEW f \in DOMAIN funcs, NEW t \in funcs[f].tables,
                      NEW b \in t.first - Window + 1 .. t.first - 1,
                      NEW c \in t.first - Window + 1 .. t.first - 1,
                      c < b, Op(b, {"bc"}), Op(c, {"cmplwi"}), code[b].crf = code[c].crf,
                      code[b].to >= b,
                      \A i \in c .. t.first - 1 : Op(i, {"bc", "cmplwi"}) => i \in {b, c}
               PROVE  /\ t.targets[1] = code[b].to
                      /\ Range(Tail(t.targets)) \subseteq
                           Range(SubSeq(program.cases[t.first], 1, code[c].imm + 1))
                      /\ \A k \in 1 .. code[c].imm :
                           program.cases[t.first][k + 1] \in Range(Tail(t.targets))
    BY DEF TablesLeadToCases
  <2> DEFINE cs == program.code
             i == t.first
  <2>1. funcs \in FuncMaps(TableSets(program)) /\ program \in Programs
    BY DEF IInv, Typed
  <2>2. funcs[f].tables \in TableSets(program)
    BY <2>1, FuncMapIs DEF Records
  <2>3. i \in Int /\ Begins(cs, i, Len(Pattern)) /\ t.targets = ComputeTargets(program, i)
    BY <2>2 DEF TableSets
  <2>4. Searchable(cs) /\ Window \in Nat
    BY <2>1, CodeIs, FlowAssumption
  <2>5. At(cs, i, {Pattern[1]}) /\ Pattern[1] \notin {"bc", "cmplwi"}
    <3>1. Len(Pattern) >= 1 /\ Pattern[1] \notin {"bc", "cmplwi"}
      BY TablesAssumption
    <3>2. 1 \in 1 .. Len(Pattern)
      BY <3>1, TablesAssumption
    <3>3. At(cs, i + 1 - 1, {Pattern[1]})
      BY <2>3, <3>2 DEF Begins
    <3>4. i + 1 - 1 = i
      BY <2>3
    <3> QED BY <3>1, <3>3, <3>4
  <2>6. ~ At(cs, i, {"bc", "cmplwi"}) /\ i \in DOMAIN cs
    BY <2>5 DEF At
  <2>7. Guarded(cs, i, b, c) /\ b \in Int /\ c \in Int
    BY <2>3, <2>4 DEF Guarded, Op, code
  <2>8. /\ FindTargetsSize(cs, i).size = cs[c].imm + 1
        /\ FindTargetsSize(cs, i).targets = <<Default(cs, b)>>
    BY <2>3, <2>4, <2>6, <2>7, FindTargetsSizeIs
  <2>9. Default(cs, b) = code[b].to
    BY <2>4, <2>7, DefaultIs DEF Guarded, code
  <2>10. /\ program.cases[i] \in Seq(Addresses) /\ cs[c].imm + 1 <= Len(program.cases[i])
         /\ cs[c].imm \in Nat
    BY <2>1, <2>3, <2>4, <2>6, <2>7, <2>8, TablesAssumption DEF Searchable, Guarded, At
  <2>11. t.targets = <<Default(cs, b)>> \o SubSeq(program.cases[i], 2, cs[c].imm + 1)
    BY <2>3, <2>8 DEF ComputeTargets, Cases
  <2> HIDE DEF i, cs
  <2>12. /\ (<<Default(cs, b)>> \o SubSeq(program.cases[i], 2, cs[c].imm + 1))[1] = Default(cs, b)
         /\ Range(Tail(<<Default(cs, b)>> \o SubSeq(program.cases[i], 2, cs[c].imm + 1)))
              \subseteq Range(SubSeq(program.cases[i], 1, cs[c].imm + 1))
         /\ \A k \in 1 .. cs[c].imm :
              program.cases[i][k + 1]
                \in Range(Tail(<<Default(cs, b)>> \o SubSeq(program.cases[i], 2, cs[c].imm + 1)))
    <3> DEFINE n == cs[c].imm + 1
    <3>1. n \in Nat /\ n >= 1 /\ n <= Len(program.cases[i]) /\ n - 1 = cs[c].imm
      BY <2>10
    <3> HIDE DEF n
    <3>2. /\ (<<Default(cs, b)>> \o SubSeq(program.cases[i], 2, n))[1] = Default(cs, b)
          /\ Range(Tail(<<Default(cs, b)>> \o SubSeq(program.cases[i], 2, n)))
               \subseteq Range(SubSeq(program.cases[i], 1, n))
          /\ \A k \in 1 .. n - 1 :
               program.cases[i][k + 1]
                 \in Range(Tail(<<Default(cs, b)>> \o SubSeq(program.cases[i], 2, n)))
      BY <2>10, <3>1, CasesAre
    <3> QED BY <3>1, <3>2 DEF n
  <2> QED BY <2>9, <2>11, <2>12 DEF cs, i, code
<1> QED BY <1>1, Invariant, PTL
-----------------------------------------------------------------------------
(***************************************************************************)
(* What is handed to pass_Emit.                                            *)
(***************************************************************************)

(* flow_jumpTables has read every instruction of a function with a body.   *)
Checked ==
  pc \in {"detect", "done"} =>
    \A f \in DOMAIN funcs : funcs[f].done \/ Decoded(f, funcs[f].end)

LEMMA CheckedNext == IInv /\ Checked /\ [Next]_vars => Checked'
<1> SUFFICES ASSUME IInv, Checked, [Next]_vars, pc' \in {"detect", "done"}
             PROVE  \A f \in DOMAIN funcs' : funcs'[f].done \/ (f .. funcs'[f].end \subseteq DOMAIN code')
  BY DEF Checked, Decoded
<1>1. CASE UNCHANGED vars
  BY <1>1 DEF vars, Checked, Decoded, code
<1>2. CASE Next
  <2>1. Step
    BY <1>2, Steps DEF IInv
  <2>2. code' = code
    BY <2>1 DEF Step, code
  <2>3. \/ pc = "jumpTables" /\ pc' = "detect"
        \/ pc = "detect" /\ funcs' = funcs
    BY <2>1 DEF Step, Passes
  <2>4. CASE pc = "jumpTables" /\ pc' = "detect"
    <3>1. FlowJumpTables
      BY <1>2, <2>4 DEF Next, PatchImportsFunctions, FlowPData, FirstFunction, FlowPromoteSaveRest,
           FlowBlJumps, FlowMfsprProl, FlowPromoteTailProl, FlowStackInitProl, FlowDataSecAdr,
           FlowMtsprEpil, FlowBclrAndTailEpil, FlowFixIfAddresses, FlowDemoteInBounds,
           DemotedAll, FlowDetectIncomplete
    <3> DEFINE walked == {f \in DOMAIN funcs : ~ funcs[f].done}
    <3>2. /\ \A f \in walked : ~ ReadsOutside(f)
          /\ funcs' = [f \in DOMAIN funcs |->
                         [funcs[f] EXCEPT !.tables = IF f \in walked THEN TablesOf(f) ELSE @]]
      BY <2>4, <3>1 DEF FlowJumpTables, Dead, Goto
    <3>3. \A f \in walked : Decoded(f, funcs[f].end)
      BY <3>2 DEF ReadsOutside
    <3>4. DOMAIN funcs' = DOMAIN funcs
      BY <3>2
    <3>5. funcs \in FuncMaps(TableSets(program))
      BY DEF IInv, Typed
    <3>6. ASSUME NEW f \in DOMAIN funcs
          PROVE  funcs'[f].done = funcs[f].done /\ funcs'[f].end = funcs[f].end
      <4>1. funcs[f] \in Records(TableSets(program))
        BY <3>5, FuncMapIs
      <4> QED BY <3>2, <4>1 DEF Records
    <3> QED BY <2>2, <3>3, <3>4, <3>6 DEF Decoded
  <2>5. CASE pc = "detect" /\ funcs' = funcs
    BY <2>2, <2>5 DEF Checked, Decoded
  <2> QED BY <2>3, <2>4, <2>5
<1> QED BY <1>1, <1>2

(* A table's targets are addresses, counted from anywhere. *)
LEMMA TargetsAre ==
  ASSUME NEW prg \in Programs, NEW i \in Int, Begins(prg.code, i, Len(Pattern))
  PROVE  ComputeTargets(prg, i) \in Seq(Int)
<1>1. i \in DOMAIN prg.code
  <2>1. 1 \in 1 .. Len(Pattern)
    BY TablesAssumption
  <2>2. At(prg.code, i + 1 - 1, {Pattern[1]})
    BY <2>1 DEF Begins
  <2>3. i + 1 - 1 = i
    OBVIOUS
  <2> QED BY <2>2, <2>3 DEF At
<1> DEFINE r == FindTargetsSize(prg.code, i)
<1>2. prg.cases[i] \in Seq(Addresses) /\ r.size <= Len(prg.cases[i])
  BY <1>1, TablesAssumption
<1>3. r \in Found(prg.code)
  <2>1. Searchable(prg.code)
    BY CodeIs
  <2>2. PICK g : Searches(g, prg.code, i)
    BY <2>1, SearchInTurn
  <2>3. Window \in 0 .. Window
    BY FlowAssumption
  <2> QED BY <2>2, <2>3 DEF Searches
<1>4. r.size \in Nat /\ r.targets \in Seq(Int)
  BY <1>3 DEF Found
<1>5. Cases(prg, i, r.size) \in Seq(Int)
  <2> HIDE DEF r
  <2>1. SubSeq(prg.cases[i], 2, r.size) \in Seq(Addresses)
    BY <1>2, <1>4
  <2>2. \A s : s \in Seq(Addresses) => s \in Seq(Int)
    BY DEF Addresses
  <2> QED BY <2>1, <2>2 DEF Cases
<1>6. ComputeTargets(prg, i) = r.targets \o Cases(prg, i, r.size)
  BY DEF ComputeTargets
<1> HIDE DEF r
<1> QED BY <1>4, <1>5, <1>6

(* No table begins inside another, or has its bcctr behind one. *)
LEMMA TablesApart ==
  ASSUME NEW cs, NEW i \in Int, NEW j \in Int, i < j, j <= i + Len(Pattern),
         Begins(cs, i, Len(Pattern)), Begins(cs, j, Len(Pattern)),
         j = i + Len(Pattern) => At(cs, j, {"bcctr"})
  PROVE  FALSE
<1> DEFINE L == Len(Pattern)
<1>1. /\ L \in Nat /\ L > 1
      /\ \A k \in 1 .. L : Pattern[k] = "bcctr" <=> k = L
  BY TablesAssumption
<1>2. \A k \in 1 .. L : /\ cs[i + k - 1].op = Pattern[k]
                       /\ cs[j + k - 1].op = Pattern[k]
  BY DEF Begins, At
<1> HIDE DEF L
<1>3. CASE j = i + L
  <2>1. 1 \in 1 .. L /\ 1 # L /\ j + 1 - 1 = j
    BY <1>1
  <2>2. cs[j].op = "bcctr"
    BY <1>3 DEF At, L
  <2>3. cs[j].op = Pattern[1]
    BY <1>2, <2>1
  <2> QED BY <1>1, <2>1, <2>2, <2>3
<1>4. CASE j < i + L
  <2> DEFINE k == i + L - j
  <2>1. k \in 1 .. L /\ k # L /\ j + k - 1 = i + L - 1 /\ L \in 1 .. L
    BY <1>1, <1>4
  <2>2. cs[i + L - 1].op = Pattern[L] /\ cs[j + k - 1].op = Pattern[k]
    BY <1>2, <2>1
  <2>3. Pattern[L] = "bcctr" /\ Pattern[k] # "bcctr"
    BY <1>1, <2>1
  <2> HIDE DEF k
  <2> QED BY <2>1, <2>2, <2>3
<1> QED BY <1>1, <1>3, <1>4 DEF L

(* Two tables whose spans hold one bcctr begin at the same instruction. *)
LEMMA OneTable ==
  ASSUME NEW cs, NEW i \in Int, NEW j \in Int, NEW a \in Int,
         Begins(cs, i, Len(Pattern)), Begins(cs, j, Len(Pattern)),
         a \in i .. i + Len(Pattern), a \in j .. j + Len(Pattern), At(cs, a, {"bcctr"})
  PROVE  i = j
<1>1. Len(Pattern) \in Nat
  BY TablesAssumption
<1>2. ~ (i < j)
  <2> SUFFICES ASSUME i < j PROVE FALSE
    OBVIOUS
  <2>1. j <= i + Len(Pattern) /\ (j = i + Len(Pattern) => a = j)
    BY <1>1
  <2>2. j = i + Len(Pattern) => At(cs, j, {"bcctr"})
    BY <2>1
  <2> QED BY <2>1, <2>2, TablesApart
<1>3. ~ (j < i)
  <2> SUFFICES ASSUME j < i PROVE FALSE
    OBVIOUS
  <2>1. i <= j + Len(Pattern) /\ (i = j + Len(Pattern) => a = i)
    BY <1>1
  <2>2. i = j + Len(Pattern) => At(cs, i, {"bcctr"})
    BY <2>1
  <2> QED BY <2>1, <2>2, TablesApart
<1> QED BY <1>2, <1>3

(* What is left is made of what pass_Emit takes its programs to be of. *)
LEMMA HandedWellMade == ASSUME IInv PROVE WellMade(HandedOver)
<1> DEFINE H == HandedOver
           T == TableSets(program)
<1>1. program \in Programs /\ funcs \in FuncMaps(T)
  BY DEF IInv, Typed
<1>2. DOMAIN funcs \subseteq Addresses /\ \A f \in DOMAIN funcs : funcs[f] \in Records(T)
  BY <1>1, FuncMapIs
<1>3. /\ DOMAIN code \subseteq Addresses
      /\ \A i \in DOMAIN code :
           code[i].to \in Int /\ (code[i].op \in {"b", "bl"} => Target(i) \in Addresses)
  BY <1>1, FlowAssumption DEF code, Target
<1>4. /\ DOMAIN H.funcs = DOMAIN funcs /\ \A f \in DOMAIN funcs : H.funcs[f] = funcs[f].end
      /\ DOMAIN H.code = DOMAIN code /\ \A i \in DOMAIN code : H.code[i] = Seen(i)
      /\ H.tables = UNION {funcs[f].tables : f \in DOMAIN funcs}
  BY DEF HandedOver
<1> HIDE DEF H
<1>5. DOMAIN H.funcs \subseteq Nat /\ \A f \in DOMAIN H.funcs : H.funcs[f] \in Int
  BY <1>2, <1>4 DEF Addresses, Records
<1>6. ASSUME NEW i \in DOMAIN code PROVE Seen(i).op \in Mnemonics /\ Seen(i).to \in Int
  <2>1. Seen(i).op \in Mnemonics
    BY DEF Seen, Op, At, Mnemonics
  <2>2. Seen(i).to \in Int
    BY <1>3 DEF Seen, Op, At, Addresses
  <2> QED BY <2>1, <2>2
<1>7. ASSUME NEW t \in H.tables
      PROVE  /\ t.first \in Int /\ t.last = t.first + Len(Pattern)
             /\ Begins(code, t.first, Len(Pattern)) /\ t.targets = ComputeTargets(program, t.first)
  <2>1. PICK f \in DOMAIN funcs : t \in funcs[f].tables
    BY <1>4
  <2>2. funcs[f].tables \in T
    BY <1>2 DEF Records
  <2> QED BY <2>1, <2>2 DEF TableSets, code
<1>8. Len(Pattern) \in Nat
  BY TablesAssumption
<1>9. ASSUME NEW t \in H.tables PROVE t.first \in Int /\ t.last \in Int /\ t.targets \in Seq(Int)
  <2>1. t.targets \in Seq(Int)
    BY <1>1, <1>7, TargetsAre DEF code
  <2> QED BY <1>7, <1>8, <2>1
<1>10. ASSUME NEW t \in H.tables, NEW u \in H.tables,
              NEW a \in DOMAIN H.code \cap Span(t) \cap Span(u), H.code[a].op = "bcctr"
       PROVE  t.targets = u.targets
  <2>1. a \in DOMAIN code /\ a \in Int /\ Seen(a).op = "bcctr"
    BY <1>3, <1>4, <1>10 DEF Addresses
  <2>2. At(code, a, {"bcctr"})
    BY <2>1 DEF Seen, Op, At
  <2>3. a \in t.first .. t.first + Len(Pattern) /\ a \in u.first .. u.first + Len(Pattern)
    BY <1>7, <1>10 DEF Span
  <2>4. t.first = u.first
    BY <1>7, <2>1, <2>2, <2>3, OneTable
  <2> QED BY <1>7, <2>4
<1>11. DOMAIN H.code \subseteq Nat
  BY <1>3, <1>4 DEF Addresses
<1> QED BY <1>4, <1>5, <1>6, <1>9, <1>10, <1>11 DEF WellMade, H

(* A bl that is decoded stands in a section that the passes went over, so  *)
(* that its target is a function, unless a round before may have promoted  *)
(* that.                                                                   *)
LEMMA HandedCallsKnown ==
  ASSUME IInv, pc = "done",
         \A k \in DOMAIN program.sections : \A i \in Calls(k) : ~ PromotedBefore(k, Target(i))
  PROVE  CallsKnown(HandedOver)
<1> DEFINE H == HandedOver
<1>1. program \in Programs /\ DOMAIN program.sections = 1 .. sec
  BY ProgramIs DEF IInv, Typed
<1>2. /\ H.imports \subseteq DOMAIN H.funcs /\ DOMAIN H.funcs = DOMAIN funcs
      /\ DOMAIN H.code = DOMAIN code /\ \A i \in DOMAIN code : H.code[i] = Seen(i)
  BY DEF HandedOver
<1> HIDE DEF H
<1>3. ASSUME NEW i \in DOMAIN code, Seen(i).op = "bl" PROVE Seen(i).to \in DOMAIN funcs
  <2>1. code[i].op = "bl" /\ Seen(i).to = Target(i)
    BY <1>3 DEF Seen, Op, At, Mnemonics
  <2>2. PICK k \in DOMAIN program.sections : i \in program.sections[k][1] .. program.sections[k][2]
    BY <1>1, <2>1, FlowAssumption DEF code
  <2>3. i \in Calls(k)
    BY <2>1, <2>2 DEF Calls, Section, Op, At
  <2>4. Called(k)
    BY <1>1, <2>2 DEF IInv, CalledKept, BeforeCalls
  <2> QED BY <2>1, <2>2, <2>3, <2>4 DEF Called, Kept
<1> QED BY <1>2, <1>3 DEF CallsKnown, H

(* What the emission takes for granted is what the flow passes leave.      *)
THEOREM FlowHandsOver == Spec => []HandsOver
<1>1. IInv /\ Checked => HandsOver
  <2> SUFFICES ASSUME IInv, Checked, pc = "done"
               PROVE  /\ AllDecoded(HandedOver)
                      /\ (\A k \in DOMAIN program.sections : \A i \in Calls(k) :
                            ~ PromotedBefore(k, Target(i))) => CallsKnown(HandedOver)
    BY HandedWellMade DEF HandsOver
  <2>1. AllDecoded(HandedOver)
    <3>1. \A f \in DOMAIN funcs : funcs[f].done \/ f .. funcs[f].end \subseteq DOMAIN code
      BY DEF Checked, Decoded
    <3> QED BY <3>1 DEF AllDecoded, HandedOver
  <2> QED BY <2>1, HandedCallsKnown
<1>2. Init => Checked
  BY DEF Init, Checked
<1> QED BY <1>1, <1>2, Invariant, CheckedNext, PTL DEF Spec
=============================================================================
