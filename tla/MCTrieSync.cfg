CONSTANTS
  A = A
  B = B
  Depth = 3
  Keys <- MixedKeys
  BitKeys <- MixedKeys
  Bit <- NumberBit
  Blocks <- MixedBlocks
  Cut <- MCCut
  Limits = {2}
  AckBuffers = {1}
  ByteBits = 2
  EarlyApply = FALSE
SPECIFICATION MixedSpec
INVARIANTS TypeOK DoneComplete NeverRestarts
PROPERTY Reconciles
CHECK_DEADLOCK FALSE
