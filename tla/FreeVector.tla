----------------------------- MODULE FreeVector -----------------------------
(***************************************************************************)
(* The vector freeBlocks of XAlloc: its order, what a loop over it stops   *)
(* at, and what holds of it between any two operations.  XAllocVec gives   *)
(* the operations.                                                         *)
(***************************************************************************)
EXTENDS Naturals, Sequences, SequencesExt

VARIABLE blocks                  (* the vector freeBlocks                  *)

(* Mutant: the vector is not sorted. *)
ByArrival(F) == F

(* std::sort: the same blocks, each at a place of its own, by increasing   *)
(* offset.                                                                 *)
Sorts(p, F) == \A i, j \in DOMAIN F : i < j => F[p[i]].offset <= F[p[j]].offset

ByOffset(F) ==
  LET p == CHOOSE p \in Bijection(DOMAIN F, DOMAIN F) : Sorts(p, F)
  IN [i \in DOMAIN F |-> F[p[i]]]

(* Where a loop over the vector stops: at the first of the positions that  *)
(* fit.                                                                    *)
First(S) == CHOOSE i \in S : \A j \in S : i <= j

-----------------------------------------------------------------------------
(* The vector stays sorted, no two blocks touch and none is empty, between *)
(* any two operations: what the loops of allocate and the single pass of   *)
(* mergeFreeBlocks rely on.                                                *)
SortedAndApart ==
  /\ \A i \in DOMAIN blocks : blocks[i].size > 0
  /\ \A i, j \in DOMAIN blocks :
       i < j => blocks[i].offset + blocks[i].size < blocks[j].offset
=============================================================================
