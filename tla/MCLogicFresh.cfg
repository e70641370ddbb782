CONSTANTS
  Service = {s1, s2}
  NoService = NoService
  MaxIDCount = 2
  IOThread = {t1, t2}
  MaxUserAccept = 2
  CallsDisconnect = FALSE
  MaxGateway = 2
SPECIFICATION SessionLogicFairSpec
INVARIANTS
  SessionLogicTypeOK
  NoAssertFails
  NoGhostPlayer
  SendsReachOwner
PROPERTY PlayerForgotten
CHECK_DEADLOCK FALSE
