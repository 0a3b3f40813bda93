SPECIFICATION Spec
CONSTANTS
  H = 4
  MaxSteps = 2
  Instrs <- MCInstrs
  Machines <- MCMachines
INVARIANT MasksAreRanges
PROPERTIES AsPowerPC WordsAsPowerPC
CHECK_DEADLOCK FALSE
