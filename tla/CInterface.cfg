CONSTANTS
  Handles = {h1, h2}
SPECIFICATION Spec
INVARIANTS TypeOK MemorySafe FailureHasMessage ReleasedOwnsNothing
