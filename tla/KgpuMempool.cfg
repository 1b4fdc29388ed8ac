SPECIFICATION Spec
CONSTANTS
  Threads = {t1, t2, t3}
  PoolUnits = 3
  UnitSize = 2
  ULong = 32
  UInt = 8
  Sizes = {2, 3, 17}
  Garbage = {1}
  MaxMaps = 2
  FieldFrees = FALSE
SYMMETRY Symmetry
INVARIANTS
  LiveDisjoint
  NoUnitLost
  MempoolInv
CHECK_DEADLOCK FALSE
