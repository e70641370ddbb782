CONSTANTS
  Service = {s1, s2, s3}
  NoService = NoService
  MaxIDCount = 2
  IOThread = {t1, t2}
  MaxUserAccept = 2
  CallsDisconnect = FALSE
  MaxGateway = 3
SPECIFICATION ServiceSpec
INVARIANTS
  AcceptLimit
  NoUseAfterFree
  RegistryPointsToLive
  PoolConserved
PROPERTIES
  OwnSerialReleased
  
CHECK_DEADLOCK FALSE
