SPECIFICATION RegistrySpec
CONSTANTS
  a1 = a1
  a2 = a2
  b = b
  plain = plain
  A = A
  B = B
  Libraries = {a1, a2, b, plain}
  Name <- Names
  HasInit = {a1, a2, b}
  HasFinit = {a1, a2}
  Items = {i1, i2, i3, i4}
  NULL = NULL
INVARIANTS
  OpenAsOftenAsRegistered
  UnloadAllEmpties
