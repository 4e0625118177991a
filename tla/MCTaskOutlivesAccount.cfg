\* The model stops once every account of this finite set is deleted.
CHECK_DEADLOCK FALSE
SPECIFICATION MemSpec
CONSTANTS
  Users = {u1, u2}
  Projects = {p1}
  Tasks = {t1}
  Requests = {r1}
  None = None
SYMMETRY Symmetry
INVARIANT
  NoTaskOfDeletedAccount
