CONSTANTS
  Service = {s1, s2}
  NoService = NoService
  MaxIDCount = 2
  IOThread = {t1}
  MaxUserAccept = 2
  CallsDisconnect = TRUE
  MaxGateway = 2
SPECIFICATION ServiceSpec
INVARIANT RegistryPointsToLive
CHECK_DEADLOCK FALSE
