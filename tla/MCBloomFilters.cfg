CONSTANTS
  Keys <- ThreeKeys
  WordSize = 16
  FunctionCount = 2
  Sizes = {6, 8}
  ByteSize = 4
  MaxElements = 2
  CountBound = 2
  Batch = 2
  Calls = 6
SPECIFICATION Spec
INVARIANTS TypeOK 
CHECK_DEADLOCK FALSE
