CONSTANTS
  A = A
  B = B
  Depth = 3
  Keys <- MixedKeys
  BitKeys <- MixedKeys
  Bit <- NumberBit
  Blocks <- MixedBlocks
  Cut <- MCCut
  Limits = {2}
  AckBuffers = {1, 4}
  ByteBits = 2
  EarlyApply = TRUE
  Programs <- AllPrograms
SPECIFICATION ApplicationSpec
INVARIANTS Aligned AcksAccepted ReportSound EqualSound LeavesNothing OneSideIsThrough
PROPERTY LoopEnds
CHECK_DEADLOCK FALSE
