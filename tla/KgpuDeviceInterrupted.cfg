SPECIFICATION SignalSpec
CONSTANTS
  Threads = {t1, t2}
  Requests = {r1, r2}
  Data = {d1, d2}
  NULL = NULL
  ClientData = ClientData
  MaxInt = 8
  MaxIds = 3
  Stoppable = FALSE
  ErrCodes = {0, 2}
INVARIANT
  SyncAnswered
