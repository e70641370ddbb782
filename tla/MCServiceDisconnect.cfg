CONSTANTS
  Service = {s1, s2}
  NoService = NoService
  MaxIDCount = 1
  IOThread = {t1, t2}
  MaxUserAccept = 2
  CallsDisconnect = TRUE
  MaxGateway = 2
SPECIFICATION ServiceFairSpec
INVARIANT SessionProtocol
PROPERTIES
  SocketClosedOnce
  SessionReclaimed
CHECK_DEADLOCK FALSE
