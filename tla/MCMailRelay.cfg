\* The model stops once its notifications are used up.
CHECK_DEADLOCK FALSE
SPECIFICATION MailSpec
CONSTANTS
  Users = {u1, u2}
  Bouncing = {u2}
  MaxNotes = 3
  Relays = {m1, m2}
  BatchSize = 2
  MaxFaults = 1
  Nobody = Nobody
INVARIANTS
  MarkedOnlyIfMailed
  ResentOnlyAfterFailure
PROPERTIES
  NoMailAfterDeletion
  EveryNoteSettles
