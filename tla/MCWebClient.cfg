\* Signed out, with no gesture left, nothing happens.
CHECK_DEADLOCK FALSE
SPECIFICATION FairClientSpec
CONSTANTS
  MaxGestures = 2
  MaxFaults = 1
  MaxNotes = 2
  None = None
  Tasks = {t1, t2}
  Projects = {p1, p2}
  Statuses = {"todo", "completed"}
  Me = Me
  You = You
  Nobody = Nobody
INVARIANTS
  ReadYourWrites
  OverrideAgrees
  AssigneeBelongs
PROPERTIES
  BellCatchesUp
  ArrivalIsAnnounced
