SPECIFICATION Spec
CONSTANTS
  Processes = {p1, p2, p3}
  MaxSetups = 2
INVARIANTS
  ExclusiveUnlessRaced
  OpenableUnlessRaced
  UsersHaveTheirModule
  NothingLeftBehind
CHECK_DEADLOCK FALSE
