\* The model stops once its runs and writes are used up.
CHECK_DEADLOCK FALSE
SPECIFICATION MergeSpec
CONSTANTS
  Ids = {"i1", "i2"}
  Names = {"x", "y"}
  Files <- MCFiles
  Tables <- MCTables
  Scripts = {m1}
  MaxRuns = 1
  MaxWrites = 0
INVARIANT
  PlanAccountsForAll
