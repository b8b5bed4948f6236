SPECIFICATION CASpec
CONSTANTS
  p1 = p1
  p2 = p2
  p3 = p3
  n1 = n1
  n2 = n2
  d1 = d1
  d2 = d2
  d3 = d3
  Runs = {p1, p2, p3}
  Earlier = Earlier
  Names = {n1, n2}
  Dirs = {d1, d2, d3}
  Files <- MCFiles
  Alike <- MCAlike
  None = None
CHECK_DEADLOCK FALSE
SYMMETRY MCSymmetry
INVARIANTS
  CATypeOK
  DuplicateHasCause
  PairMatches
  RevokeHitsDeployed
  CAPairMatches
