CONSTANTS
  Depth = 3
  Keys <- FourKeys
  Bit <- NumberBit
  Crashes = 1
  LaterOps = 1
SPECIFICATION ReadingSpec
INVARIANT ParentsHaveTheirChildren
CHECK_DEADLOCK FALSE
