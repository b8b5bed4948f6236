SPECIFICATION RouSpec
CONSTANTS
  t1 = t1
  t2 = t2
  u1 = u1
  u2 = u2
  master = master
  tower = tower
  assets = assets
  Tabs = {t1, t2}
  Users = {u1, u2}
  Shores = {master, tower}
  Others = {assets}
  None = None
SYMMETRY MCSymmetry
INVARIANTS
  RouTypeOK
PROPERTIES
  OwnShoresOnly
  BleedHasRival
