SPECIFICATION Spec
CONSTANTS
  Programs <- MCPrograms
  Entry = 1
  StubLength = 4
  SaveRegs = 2
  TailDistance = 1
  SignWrap = 64
  BcWrap = 64
  Pattern <- MCPattern
  Window = 3
INVARIANTS KnownStartsKept PromotedOutside BreaksOnlyOutside TablesLeadToCases HandsOver
PROPERTY EndsBeforeNext
CHECK_DEADLOCK FALSE
