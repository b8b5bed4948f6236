SPECIFICATION TunSpec
CONSTANTS
  c1 = c1
  r1 = r1
  s1 = s1
  s2 = s2
  Conns = {c1}
  Reqs = {r1}
  Streams = {s1, s2}
  NoConn = NoConn
  Nobody = Nobody
  Flushable = {s1}
  ChanCap = 2
  MaxFrames = 3
INVARIANTS
  TunTypeOK
  ReplyFits
  NoLeak
  OneCloser
  OneWriter
  FramesInOrder
  OverIsComplete
  PanicHasLeaver
PROPERTIES
  BrokerHolds
  RequestEnds
  CloseEndsAll
