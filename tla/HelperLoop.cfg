SPECIFICATION FairSpec
CONSTANTS
  Ids = {1, 2, 3}
  known = known
  unknown = unknown
  Services = {known, unknown}
  Registered = {known}
  NStreams = 2
  MaxWork = 4
  ServErrs = {7}
  Arriving <- Releasable
INVARIANTS
  TypeOK
  ListsPartitionLive
  StreamsExclusive
  SuccessIsComplete
  AnsweredOnce
  PinsBalanced
  UnpinsWhatItPinned
PROPERTY
  EveryRequestAnswered
CHECK_DEADLOCK FALSE
