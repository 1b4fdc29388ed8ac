SPECIFICATION Spec
CONSTANTS
  Threads = {t1, t2}
  Requests = {r1, r2}
  Data = {d1, d2}
  NULL = NULL
  ClientData = ClientData
  MaxInt = 8
  MaxIds = 3
  Stoppable = TRUE
  ErrCodes = {0, 2}
SYMMETRY Symmetry
INVARIANTS
  InFlightOnce
  RequestsStayAllocated
  AnswerFindsItsRequest
  SyncAnswered
  SyncCallbackOwnsData
  NoLostWakeup
  DeviceInv
PROPERTY
  ImplementsCalls
