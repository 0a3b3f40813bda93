SPECIFICATION Spec
CONSTANTS
  Code <- MCCode
  Functions = {0, 10}
  Entry = 0
  BreakPoints = {4}
  MaxDepth = 3
INVARIANT HaltsForAReason
PROPERTY StepsAreKept
CHECK_DEADLOCK FALSE
