\* The model stops once every task key of this finite set is deleted.
CHECK_DEADLOCK FALSE
SPECIFICATION FairSpec
CONSTANTS
  Tasks = {t1}
  Users = {u1}
  Requests = {r1}
  MaxEvents = 1
  MaxFaults = 2
  DeliveryLimit = 0
  Relays = {a1, a2}
  BatchSize = 2
  Slots = {s1, s2}
  NoTask = NoTask
  Nobody = Nobody
PROPERTIES
  EveryEventSettles
  OutboxDrains
  ImplementsFeed
