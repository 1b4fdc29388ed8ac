SPECIFICATION Spec
CONSTANTS
  Threads = {t1, t2, t3}
  AreaPages = 4
  Sizes = {1, 2}
  ReleasedBy = {"kgpu_unmap_area", "kgpu_free_mmap_area"}
  NoThread = NoThread
INVARIANTS
  AreasDisjoint
  AreaAccounted
  NoStaleMapping
  NextMappingInserts
  MmapInv
CHECK_DEADLOCK FALSE
