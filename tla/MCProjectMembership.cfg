\* The model stops once every account of this finite set is deleted.
CHECK_DEADLOCK FALSE
SPECIFICATION MemSpec
CONSTANTS
  Users = {u1, u2}
  Projects = {p1, p2}
  Tasks = {t1}
  Requests = {r1, r2}
  None = None
SYMMETRY Symmetry
INVARIANTS
  PeopleExist
  ClaimChecksHold
PROPERTIES
  CascadeTakesNoProject
  DetachSparesUsedTasks
