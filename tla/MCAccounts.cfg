\* The model stops once its clock, ids and tokens are used up.
CHECK_DEADLOCK FALSE
SPECIFICATION AccSpec
CONSTANTS
  Emails = {e1, e2}
  Addresses = {a1}
  Requests = {r1, r2}
  UserIds = {u1, u2}
  Tokens = {k1, k2}
  NoUser = NoUser
  AccountLimit = 1
  AddressLimit = 2
  RegisterLimit = 1
  Window = 2
  SessionTtl = 2
  MaxTime = 3
SYMMETRY Symmetry
INVARIANTS
  OneAccountPerEmail
  SessionsBelongToAccounts
  HashingIsBounded
  RefusalsAreExact
  SuccessesCostNothing
PROPERTIES
  SessionsEndForAReason
