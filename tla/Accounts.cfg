SPECIFICATION AccSpec
CONSTANTS
  h1 = h1
  h2 = h2
  h3 = h3
  i1 = i1
  i2 = i2
  alice = alice
  bob = bob
  Handlers = {h1, h2, h3}
  Identities = {i1, i2}
  Local = Local
  Bases = {alice, bob}
  MaxTry = 3
  NoUser = NoUser
  AdminUser <- MCAdminUser
  StoreFails = TRUE
  MaxCrashes = 1
CHECK_DEADLOCK FALSE
SYMMETRY MCSymmetry
INVARIANTS
  AccTypeOK
  SessionIsOwn
  AdminIsFirst
  SecondOverlapsFirst
PROPERTIES
  BookHolds
