CONSTANTS
  Keys = {"a", "b", "c", "d"}
  Junk = "junk"
  FunctionCount = 2
  Positions = {0, 1, 2}
  Pos <- SharedPos
  HashSize = 2
  HardMaximum = TRUE
  MaxElements = 3
  DataKeys = {"c"}
  Crashes = 1
  Inserts = 4
SPECIFICATION Spec
INVARIANTS TypeOK BitsHaveRecords FindsMembers RecordsCount
PROPERTY RestartHidesNothing
CHECK_DEADLOCK FALSE
