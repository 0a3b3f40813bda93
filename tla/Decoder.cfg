SPECIFICATION Spec
CONSTANT Programs <- MCPrograms
INVARIANTS EveryBitCounts EnoughOperands TargetFirst AllOrNothing
CHECK_DEADLOCK FALSE
