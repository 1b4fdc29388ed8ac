SPECIFICATION MemorySpec
CONSTANTS
  PageSize = 2
  kva = 41
  uva = 21
  vma = 10
  devbuf = 60
  devbuf4vma = 70
  PoolSize = 5
  VmaSize = 10
  PoolOffsets = {0, 2, 3}
  Offsets = {0, 1, 2, 4, 6, 7}
  Lengths = {1, 2, 3, 4}
INVARIANTS
  DeviceMirrorsHost
  PinsInsideVma
  MergedExactly
  AlignedIsPinned
  AllUnpinned
CHECK_DEADLOCK FALSE
