CONSTANTS
  Keys = {"a", "b", "d"}
  Junk = "junk"
  FunctionCount = 2
  Positions = {0, 1, 2}
  Pos <- SharedPos
  HashSize = 2
  HardMaximum = FALSE
  MaxElements = 3
  DataKeys = {}
  Crashes = 0
  Inserts = 4
SPECIFICATION Spec
INVARIANT InsertedIsFound
CHECK_DEADLOCK FALSE
