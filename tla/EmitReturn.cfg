SPECIFICATION Spec
CONSTANT Programs <- MCPrograms
INVARIANT EquivalentCode
CHECK_DEADLOCK FALSE
