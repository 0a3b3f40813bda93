SPECIFICATION SpecNt
CONSTANTS
  Total = 64
  PageSize = 4
  Preferred <- MCPreferred
  Requests <- MCPreferred
  FreeCalled = FALSE
  Images <- MCImages
  StackSize = 6
  NoImage = NoImage
  Digit = 8
  LargePage = 8
  HugePage = 16
  GuestBases = {0, 8, 33}
  GuestSizes = {0, 5, 17, 62}
INVARIANTS ToldWhatItHolds ImportsResolved ImageIntact NoOverlap Conservation
PROPERTY FailureIsHonest
CHECK_DEADLOCK FALSE
