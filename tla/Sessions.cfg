SPECIFICATION SesSpec
CONSTANTS
  a = a
  Umlaut = Umlaut
  s1 = s1
  s2 = s2
  k1 = k1
  k2 = k2
  Colon = Colon
  Chars <- MCChars
  Names <- MCNames
  Dropped <- MCDropped
  NoUser = NoUser
  Slots = {s1, s2}
  None = None
  Keys = {k1, k2}
  Envs <- MCEnvs
  MaxAge = 1
  Second = 2
  MaxTime = 4
  MaxStarts = 2
CHECK_DEADLOCK FALSE
SYMMETRY MCSymmetry
INVARIANTS
  SesTypeOK
  TokenIsOwn
  SessionLasts
