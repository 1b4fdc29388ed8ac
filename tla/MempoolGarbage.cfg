SPECIFICATION Spec
CONSTANTS
  Threads = {t1}
  PoolUnits = 4
  UnitSize = 2
  ULong = 16
  UInt = 8
  Sizes = {1, 3, 6}
  Garbage = {0, 1}
  MaxMaps = 1
  FieldFrees = TRUE
INVARIANT
  LiveReserved
CHECK_DEADLOCK FALSE
