----------------------------- MODULE GuestProofs -----------------------------
(***************************************************************************)
(* Proofs about the debug call back: why the guest halts, and that steps   *)
(* are kept, for every program, every set of break points and every depth. *)
(***************************************************************************)
EXTENDS Guest, TLAPS

(***************************************************************************)
(* The inductive invariant ties what the user asked for, which the code    *)
(* does not record, to the two states that it keeps.                       *)
(***************************************************************************)
AskedNext == asked = "next" => Stepping

AskedBehind ==
  asked = "behind" =>
    currentState = "RUNNING" /\ prevState = "STEP_OVER" /\ behind \in stepOverPoints

OnlyAsked == Stepping => asked \in {"next", "lost"}

Reason ==
  /\ phase = "halted" => pc \in BreakPoints \/ Stepping
  /\ phase = "halted at point" => pc \in stepOverPoints

IInv == AskedNext /\ AskedBehind /\ OnlyAsked /\ Reason

(* The two states start RUNNING, with nothing asked for. *)
LEMMA InitInv == Init => IInv
  BY DEF Init, IInv, AskedNext, AskedBehind, OnlyAsked, Reason, Stepping

(* Every key leaves the two states as the invariant wants them. *)
LEMMA HaltStateInv == IInv /\ HaltState => IInv'
<1> SUFFICES ASSUME IInv, HaltState PROVE IInv'
  OBVIOUS
<1>1. CASE Continue
  BY <1>1 DEF Continue, Choose, guest, IInv, AskedNext, AskedBehind, OnlyAsked, Reason, Stepping
<1>2. CASE StepInto
  BY <1>2 DEF StepInto, Choose, guest, IInv, AskedNext, AskedBehind, OnlyAsked, Reason, Stepping
<1>3. CASE StepOver
  <2>1. CASE Choose(currentState, "STEP_OVER", "next") /\ UNCHANGED <<stepOverPoints, behind>>
    BY <2>1 DEF Choose, guest, IInv, AskedNext, AskedBehind, OnlyAsked, Reason, Stepping
  <2>2. CASE /\ Choose("STEP_OVER", "RUNNING", "behind")
             /\ stepOverPoints' = stepOverPoints \cup {Behind} /\ behind' = pc + 1
    BY <2>2 DEF Choose, Behind, guest, IInv, AskedNext, AskedBehind, OnlyAsked, Reason, Stepping
  <2> QED BY <1>3, <2>1, <2>2 DEF StepOver
<1> QED BY <1>1, <1>2, <1>3 DEF HaltState

(* A step of the guest touches nothing the call back keeps, and does not   *)
(* leave it halted.                                                        *)
LEMMA ExecuteRuns ==
  Execute => UNCHANGED debug /\ phase' \notin {"halted", "halted at point"}
<1> SUFFICES ASSUME Execute PROVE UNCHANGED debug /\ phase' \notin {"halted", "halted at point"}
  OBVIOUS
<1>1. UNCHANGED debug
  BY DEF Execute
<1>2. phase' \in {"call back", "exited"}
  BY DEF Execute, Enter, Return, HandleBcctrl
<1> QED BY <1>1, <1>2

LEMMA NextInv == IInv /\ [Next]_vars => IInv'
<1> SUFFICES ASSUME IInv, [Next]_vars PROVE IInv'
  OBVIOUS
<1>1. CASE DebugCallBack
  BY <1>1 DEF DebugCallBack, AtPoint, guest, debug, IInv, AskedNext, AskedBehind, OnlyAsked,
              Reason, Stepping
<1>2. CASE HaltState
  BY <1>2, HaltStateInv
<1>3. CASE Execute
  BY <1>3, ExecuteRuns DEF debug, IInv, AskedNext, AskedBehind, OnlyAsked, Reason, Stepping
<1>4. CASE Debugger
  BY <1>4 DEF Debugger, guest, debug, IInv, AskedNext, AskedBehind, OnlyAsked, Reason, Stepping
<1>5. CASE UNCHANGED vars
  BY <1>5 DEF vars, guest, debug, IInv, AskedNext, AskedBehind, OnlyAsked, Reason, Stepping
<1> QED BY <1>1, <1>2, <1>3, <1>4, <1>5 DEF Next

(* The call back's states go with what was asked, in every behaviour. *)
THEOREM StatesGoWithAsked == Spec => []IInv
<1>1. Init => IInv
  BY InitInv
<1>2. IInv /\ [Next]_vars => IInv'
  BY NextInv
<1> QED BY <1>1, <1>2, PTL DEF Spec

(* DebugCallBack halts the guest at a break point, where a step over ends, *)
(* or at the next instruction when the user asked for it.                  *)
THEOREM HaltsTheorem == Spec => []HaltsForAReason
<1>1. IInv => HaltsForAReason
  BY DEF IInv, OnlyAsked, Reason, HaltsForAReason
<1> QED BY <1>1, StatesGoWithAsked, PTL

(* DebugCallBack passes neither the next instruction when HaltState was    *)
(* left to step, nor the one behind the branch that was stepped over.      *)
THEOREM StepsTheorem == Spec => StepsAreKept
<1>1. IInv /\ [Next]_vars => [Passes => asked # "next" /\ (asked = "behind" => pc # behind)]_vars
  <2> SUFFICES ASSUME IInv, Next, Passes
               PROVE  asked # "next" /\ (asked = "behind" => pc # behind)
    OBVIOUS
  <2>1. DebugCallBack
    BY DEF Next, Passes, HaltState, Continue, StepInto, StepOver, Choose, Execute, Debugger
  <2>2. ~ Stepping /\ ~ AtPoint
    BY <2>1 DEF DebugCallBack, Passes
  <2> QED BY <2>2 DEF IInv, AskedNext, AskedBehind, AtPoint
<1> QED BY <1>1, StatesGoWithAsked, PTL DEF Spec, StepsAreKept
=============================================================================
