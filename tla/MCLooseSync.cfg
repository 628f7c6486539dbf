CONSTANTS
  Keys = {"a", "b"}
  Junk = "junk"
  FunctionCount = 2
  FilterSize = 3
  Pos <- MeetingPos
  HashSize = 2
  ByteSize = 2
  Buffers = {1, 3}
  Operations <- Uneven
  ChunkBound = 1
SPECIFICATION Spec
INVARIANTS TypeOK ChunksFit NothingMissed ReportsAreNeeded
PROPERTY Terminates
CHECK_DEADLOCK FALSE
