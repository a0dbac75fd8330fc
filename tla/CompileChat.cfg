SPECIFICATION Spec
CONSTANTS
  Requests <- MCRequests
  ContextLength = 13
  Reserved = {1, 4, 9, 10}
  Buffer = 3
  PerMessage = 1
  Recent = 2
  Hundred = 2
  SystemSizes = {2, 6}
  Object = 4
INVARIANTS FitsContext FittingIsKept LatestAreKept SystemComesFirst
CHECK_DEADLOCK FALSE
