CONSTANTS
  Caller = {c1, c2}
  Request = {r1, r2, r3}
  NoRequest = NoRequest
  workerPoolSize = 2
  MaxMessages = 3
SPECIFICATION DBFairSpec
INVARIANTS
  DBTypeOK
  NothingShared
  RefusedOnlyByRace
  QuietShutdownSafe
PROPERTIES
  ImplementsJobPool
  RequestExecuted
  QuietShutdownEnds
CHECK_DEADLOCK FALSE
