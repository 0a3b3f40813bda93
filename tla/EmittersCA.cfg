SPECIFICATION Spec
CONSTANTS
  H = 4
  MaxSteps = 2
  Instrs <- MCInstrs
  Machines <- MCFresh
PROPERTY CarryCleared
CHECK_DEADLOCK FALSE
