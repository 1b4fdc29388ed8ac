SPECIFICATION Spec
CONSTANTS
  Threads = {t1, t2}
  Requests = {r1, r2}
  Data = {d1}
  NULL = NULL
  ClientData = ClientData
  MaxInt = 2
  MaxIds = 2
  Stoppable = FALSE
  Ids = {0, 1, 2}
  known = known
  unknown = unknown
  Services = {known, unknown}
  Registered = {known}
  NStreams = 1
  MaxWork = 2
  ServErrs = {7}
  Kinds <- MappedOrUnknown
SYMMETRY Symmetry
INVARIANTS
  BooksAgree
  ErrcodeIsItsOwn
  NoWorkLeftOnSuccess
PROPERTY
  ImplementsCalls
