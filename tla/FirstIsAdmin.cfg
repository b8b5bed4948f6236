SPECIFICATION AccSpec
CONSTANTS
  h1 = h1
  h2 = h2
  h3 = h3
  i1 = i1
  i2 = i2
  alice = alice
  bob = bob
  Handlers = {h1, h2}
  Identities = {i1}
  Local = Local
  Bases = {alice, bob}
  MaxTry = 2
  NoUser = NoUser
  AdminUser <- MCAdminUser
  StoreFails = FALSE
  MaxCrashes = 0
CHECK_DEADLOCK FALSE
INVARIANT
  FirstIsAdmin
