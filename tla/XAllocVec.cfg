SPECIFICATION Spec
CONSTANTS
  Total = 12
  PageSize = 2
  Preferred = {0, 4, 8}
  Requests = {0, 1, 3, 6}
  FreeCalled = TRUE
INVARIANT SortedAndApart
PROPERTY ImplementsXAlloc
