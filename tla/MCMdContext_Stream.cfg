CONSTANTS
  Tiny <- TinyBlocks
  Narrow <- NarrowBlocks
  Wide <- WideBlocks
  Size <- Sizes
  MessageBound <- Bounds
  PieceLengths = {0, 1, 3, 4, 15}
  PieceBound = 2
  StartBound = 2
  KeyLengths = {2, 4, 9}
SPECIFICATION Spec
INVARIANT StreamIsHashed
