SPECIFICATION FairSpec
CONSTANTS
  Threads = {t1}
  Requests = {r1, r2}
  Data = {d1}
  NULL = NULL
  ClientData = ClientData
  MaxInt = 2
  MaxIds = 2
  Stoppable = FALSE
  Ids = {0, 1, 2}
  known = known
  unknown = unknown
  Services = {known, unknown}
  Registered = {known}
  NStreams = 1
  MaxWork = 1
  ServErrs = {7}
  Kinds <- OnlyMapped
PROPERTY
  EveryCallReturns
