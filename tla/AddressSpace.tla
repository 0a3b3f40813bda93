---------------------------- MODULE AddressSpace ----------------------------
(***************************************************************************)
(* What a client of the runtime's memory manager may rely on, with no free *)
(* list in sight: a set of addresses not yet given to anybody, the ranges  *)
(* clients hold, and the reply to the last request.  The class XAlloc of   *)
(* Emulator/src/Runtime/MemoryManager.h is shown to implement it (XAlloc). *)
(***************************************************************************)
EXTENDS Naturals

CONSTANTS
  Total,      (* number of addresses, 2^32 in the code                     *)
  PageSize,   (* 4096 in the code                                          *)
  Preferred,  (* offsets a request may ask for; 0 asks for none            *)
  Requests    (* sizes a request may ask for                               *)

VARIABLES
  available,  (* the addresses nobody holds                                *)
  held,       (* the ranges clients hold: [offset, size]                   *)
  reply       (* the last request and how it was answered                  *)

vars == <<available, held, reply>>

RoundDown(x) == PageSize * (x \div PageSize)

Pages(size) == PageSize * ((size + PageSize - 1) \div PageSize)

Span(offset, size) == offset .. (offset + size - 1)

(* A stretch of n addresses, all of them available, begins at o. *)
Fits(o, n) == o \in available /\ Span(o, n) \subseteq available

Answer(status, p, n) == [status |-> status, preferred |-> p, size |-> n]

Init ==
  /\ available = Span(0, Total)
  /\ held = {}
  /\ reply = Answer("none", 0, 0)

(***************************************************************************)
(* A request takes some stretch that is available, the preferred one when  *)
(* that is available, and the client holds what it was given.              *)
(***************************************************************************)
Take(p, n, o) ==
  /\ Fits(o, n)
  /\ (p # 0 /\ Fits(p, n)) => o = p
  /\ available' = available \ Span(o, n)

Grant(p, n) ==
  \E o \in available :
    /\ Take(p, n, o)
    /\ held' = held \cup {[offset |-> RoundDown(o), size |-> n]}
    /\ reply' = Answer("ok", p, n)

(* The host could not back the stretch: the request fails with an          *)
(* exception, and the stretch is given to nobody, now or later.            *)
Lose(p, n) ==
  /\ \/ n = 0 /\ UNCHANGED available
     \/ \E o \in available : Take(p, n, o)
  /\ reply' = Answer("thrown", p, n)
  /\ UNCHANGED held

(* A request is refused only when no stretch is long enough. *)
Refuse(p, n) ==
  /\ ~ \E o \in available : Fits(o, n)
  /\ reply' = Answer("null", p, n)
  /\ UNCHANGED <<available, held>>

Release(r) ==
  /\ available' = available \cup Span(r.offset, r.size)
  /\ held' = held \ {r}
  /\ reply' = Answer("freed", 0, r.size)

ReleaseFails(r) ==
  /\ reply' = Answer("thrown", 0, r.size)
  /\ UNCHANGED <<available, held>>

Next ==
  \/ \E p \in Preferred, s \in Requests :
       \/ Grant(p, Pages(s))
       \/ Lose(p, Pages(s))
       \/ Refuse(p, Pages(s))
  \/ \E r \in held : Release(r) \/ ReleaseFails(r)

Spec == Init /\ [][Next]_vars
=============================================================================
