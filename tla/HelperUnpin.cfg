SPECIFICATION Spec
CONSTANTS
  Ids = {1, 2}
  known = known
  unknown = unknown
  Services = {known, unknown}
  Registered = {known}
  NStreams = 2
  MaxWork = 4
  ServErrs = {7}
  Arriving <- AnyRequest
INVARIANT
  UnpinsWhatItPinned
CHECK_DEADLOCK FALSE
