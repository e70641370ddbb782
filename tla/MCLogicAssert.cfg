CONSTANTS
  Service = {s1, s2}
  NoService = NoService
  MaxIDCount = 1
  IOThread = {t1, t2}
  MaxUserAccept = 2
  CallsDisconnect = FALSE
  MaxGateway = 3
SPECIFICATION SessionLogicSpec
INVARIANTS
  NoAssertFails
CHECK_DEADLOCK FALSE
