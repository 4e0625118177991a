\* The model stops once its runs and writes are used up.
CHECK_DEADLOCK FALSE
SPECIFICATION MergeSpec
CONSTANTS
  Ids = {"i1", "i2"}
  Names = {"x", "y"}
  Files <- MCFiles
  Tables <- MCTables
  Scripts = {m1, m2}
  MaxRuns = 2
  MaxWrites = 1
INVARIANTS
  NoFalseAlarm
  RecordedOnce
PROPERTIES
  CommitLosesNothing
  RerunChangesNothing
