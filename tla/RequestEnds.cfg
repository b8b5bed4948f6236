SPECIFICATION DockSpec
CONSTANTS
  c1 = c1
  c2 = c2
  n1 = n1
  r1 = r1
  Conns = {c1, c2}
  Names = {n1}
  NoConn = NoConn
  NoName = NoName
  MTLS = FALSE
  StaleTicks = 0
  Reqs = {r1}
  Streams = {}
  Nobody = Nobody
  Flushable = {}
  ChanCap = 1
  MaxFrames = 1
PROPERTY
  RequestEnds
