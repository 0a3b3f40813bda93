------------------------------- MODULE Guest -------------------------------
(***************************************************************************)
(* The recompiled guest at run time, emitted with debug call backs: before *)
(* each instruction it calls DebugCallBack, which may halt it and wait for *)
(* a key of the user, and calls through CTR go to HandleBcctrl, which      *)
(* looks the function up in the array the recompiler exported.  Addresses  *)
(* count instructions (four bytes in the code).                            *)
(***************************************************************************)
EXTENDS Integers, Sequences

CONSTANTS
  Code,          (* address -> [name, to] of the instructions              *)
  Functions,     (* the starts in m_function_map                           *)
  Entry,         (* the start that main calls                              *)
  BreakPoints,   (* DebugCallBack's constant vector                        *)
  MaxDepth       (* bound on the depth of the calls                        *)

ASSUME CodeAssumption ==
  /\ DOMAIN Code \subseteq Int
  /\ Entry \in Functions

VARIABLES
  phase,         (* where the guest is with the instruction at pc          *)
  pc,
  stack,         (* where the activations go on when a call returns        *)
  ctr,           (* [addr, upper]: upper tells that the high half is not 0 *)
  present,       (* IsDebuggerPresent                                      *)
  currentState, prevState,
  stepOverPoints,
  asked,         (* what the user asked for last: see Choose               *)
  behind         (* the instruction where a step over shall end            *)

guest == <<pc, stack, ctr>>
debug == <<currentState, prevState, stepOverPoints, asked, behind>>
vars  == <<phase, guest, present, debug>>

Init ==
  /\ phase = "call back" /\ pc = Entry /\ stack = <<>>
  /\ ctr = [addr |-> 0, upper |-> FALSE]
  /\ present \in BOOLEAN
  /\ currentState = "RUNNING" /\ prevState = "RUNNING"
  /\ stepOverPoints = {}
  /\ asked = "nothing" /\ behind = 0
-----------------------------------------------------------------------------
Stepping == currentState \in {"STEP_INTO", "STEP_OVER"}

(* Mutant: the points are not looked at. *)
AnywhereStepped == currentState = "RUNNING" /\ prevState = "STEP_OVER"

AtPoint == currentState = "RUNNING" /\ prevState = "STEP_OVER" /\ pc \in stepOverPoints

DebugCallBack ==
  /\ phase = "call back"
  /\ phase' = IF ~ present THEN "run"
              ELSE IF pc \in BreakPoints \/ Stepping THEN "halted"
              ELSE IF AtPoint THEN "halted at point"
              ELSE "run"
  /\ UNCHANGED <<guest, present, debug>>

(***************************************************************************)
(* HaltState is left with the states <<prev, current>>.  At a step-over    *)
(* point the call back then puts the previous state in the place of the    *)
(* current one, and what the user asked for is lost.                       *)
(***************************************************************************)
Choose(prev, current, what) ==
  /\ phase \in {"halted", "halted at point"}
  /\ prevState' = prev
  /\ IF phase = "halted"
     THEN currentState' = current /\ asked' = what
     ELSE currentState' = prev /\ asked' = "lost"
  /\ phase' = "run"
  /\ UNCHANGED <<guest, present>>

Continue ==
  /\ Choose(currentState, "RUNNING", "nothing")
  /\ UNCHANGED <<stepOverPoints, behind>>

StepInto ==
  /\ Choose(currentState, "STEP_INTO", "next")
  /\ UNCHANGED <<stepOverPoints, behind>>

(* The mnemonics that may lead away, which are run over instead. *)
IsBranch == Code[pc].name \in {"bc", "b", "bl"}

(* Mutant: the point is the branch itself. *)
Here == pc

Behind == pc + 1

StepOver ==
  \/ /\ ~ IsBranch
     /\ Choose(currentState, "STEP_OVER", "next")
     /\ UNCHANGED <<stepOverPoints, behind>>
  \/ /\ IsBranch
     /\ Choose("STEP_OVER", "RUNNING", "behind")
     /\ stepOverPoints' = stepOverPoints \cup {Behind}
     /\ behind' = pc + 1

HaltState == Continue \/ StepInto \/ StepOver
-----------------------------------------------------------------------------
(* A call of a function that is emitted, and the return from one.          *)
Enter(a, s) == phase' = "call back" /\ pc' = a /\ stack' = s

Return ==
  IF stack = <<>> THEN phase' = "exited" /\ UNCHANGED <<pc, stack>>
  ELSE Enter(stack[Len(stack)], SubSeq(stack, 1, Len(stack) - 1))

(* The whole of CTR is compared.  A miss is logged, and the guest goes on. *)
Exported == ~ ctr.upper /\ ctr.addr \in Functions

HandleBcctrl(s) ==
  IF Exported THEN Enter(ctr.addr, s)
  ELSE IF s = <<>> THEN phase' = "exited" /\ UNCHANGED <<pc, stack>>
  ELSE Enter(s[Len(s)], SubSeq(s, 1, Len(s) - 1))

Execute ==
  /\ phase = "run"
  /\ LET i == Code[pc] IN
     \/ i.name \in {"other", "mtspr"} /\ Enter(pc + 1, stack)
     \/ i.name = "b" /\ Enter(i.to, stack)
     \/ i.name = "bc" /\ \E a \in {i.to, pc + 1} : Enter(a, stack)
     \/ i.name = "bl" /\ Len(stack) < MaxDepth /\ Enter(i.to, Append(stack, pc + 1))
     \/ i.name = "bclr" /\ Return
     \/ i.name = "bcctr" /\ HandleBcctrl(stack)
     \/ i.name = "bcctrl" /\ Len(stack) < MaxDepth /\ HandleBcctrl(Append(stack, pc + 1))
  /\ IF Code[pc].name = "mtspr"
     THEN ctr' \in [addr : DOMAIN Code, upper : BOOLEAN]
     ELSE UNCHANGED ctr
  /\ UNCHANGED <<present, debug>>

(* The host's debugger is attached or detached. *)
Debugger ==
  /\ present' = ~ present
  /\ UNCHANGED <<phase, guest, debug>>

Next == DebugCallBack \/ HaltState \/ Execute \/ Debugger

Spec == Init /\ [][Next]_vars
-----------------------------------------------------------------------------
(* The guest halts for a reason: at a break point, at the instruction      *)
(* behind a branch that was stepped over at some time, or at the next      *)
(* instruction when the user asked for it.  After "continue" it runs.      *)
HaltsForAReason ==
  phase \in {"halted", "halted at point"} =>
    \/ pc \in BreakPoints
    \/ pc \in stepOverPoints
    \/ asked \in {"next", "lost"}

(* What the user asked for is kept however the guest calls, returns and    *)
(* recurses, and when the debugger is detached on the way: a step does not *)
(* pass the next instruction, nor a step over the one behind the branch.   *)
(* Only what is asked at a step-over point may be lost.                    *)
Passes == phase = "call back" /\ present /\ phase' = "run"

StepsAreKept ==
  [][Passes => asked # "next" /\ (asked = "behind" => pc # behind)]_vars
=============================================================================
