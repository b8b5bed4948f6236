SPECIFICATION RegSpec
CONSTANTS
  c1 = c1
  c2 = c2
  c3 = c3
  n1 = n1
  n2 = n2
  Conns = {c1, c2, c3}
  Names = {n1, n2}
  NoConn = NoConn
  NoName = NoName
  MTLS = TRUE
  StaleTicks = 1
SYMMETRY MCSymmetry
INVARIANTS
  RegTypeOK
  EntryIsLive
  OrphanHasCulprit
  CertifiedName
PROPERTIES
  NoSecondSpell
  Directory
