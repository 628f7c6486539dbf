CONSTANTS
  Depth = 3
  Keys <- FiveKeys
  Bit <- NumberBit
  Crashes = 1
  LaterOps = 0
SPECIFICATION ReadingSpec
INVARIANTS TypeOK RootIsCanonical RootReadable StoreIsExact SizeIsRight CutPartitions CutFillsBuffer
PROPERTY KeySetSpec
CHECK_DEADLOCK FALSE
