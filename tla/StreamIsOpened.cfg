SPECIFICATION TunSafety
CONSTANTS
  c1 = c1
  r1 = r1
  s1 = s1
  s2 = s2
  Conns = {c1}
  Reqs = {r1}
  Streams = {s1}
  NoConn = NoConn
  Nobody = Nobody
  Flushable = {}
  ChanCap = 2
  MaxFrames = 3
INVARIANT
  StreamIsOpened
