\* The model stops once every task key of this finite set is deleted.
CHECK_DEADLOCK FALSE
SPECIFICATION Spec
CONSTANTS
  Tasks = {t1, t2}
  Users = {u1}
  Requests = {r1, r2}
  MaxEvents = 2
  MaxFaults = 2
  DeliveryLimit = 1
  Relays = {a1, a2}
  BatchSize = 2
  Slots = {s1, s2}
  NoTask = NoTask
  Nobody = Nobody
CONSTRAINTS
  FewEventsOrFaults
  OneTaskTravels
SYMMETRY Symmetry
INVARIANTS
  TypeOK
  CompletedFollowsStatus
  NotifiedAtMostOnce
  NoEventLost
  ClaimsAreExclusive
  DuplicatesNeedARollback
PROPERTY
  OneEventPerTransition
