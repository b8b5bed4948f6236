SPECIFICATION RegSpec
CONSTANTS
  c1 = c1
  c2 = c2
  c3 = c3
  n1 = n1
  n2 = n2
  Conns = {c1, c2}
  Names = {n1}
  NoConn = NoConn
  NoName = NoName
  MTLS = TRUE
  StaleTicks = 3
INVARIANT
  ConnectedIsFound
