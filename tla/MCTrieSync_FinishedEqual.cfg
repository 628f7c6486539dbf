CONSTANTS
  A = A
  B = B
  Depth = 3
  Keys <- DeepKeys
  BitKeys <- DeepKeys
  Bit <- NumberBit
  Blocks <- DeepBlocks
  Cut <- MCCut
  Limits = {2}
  AckBuffers = {1}
  ByteBits = 2
  EarlyApply = TRUE
SPECIFICATION Spec
INVARIANT FinishedEqual
CHECK_DEADLOCK FALSE
