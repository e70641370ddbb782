CONSTANTS
  ConnectorCount = 1
  HasCallback = {1}
  MaxGateway = 1
  MaxLinks = 2
  MaxTasks = 1
  MaxRPC = 1
SPECIFICATION EngineFairSpec
INVARIANTS
  ThreadsEndFirst
  LogicStopsPromptly
  NoPacketDropped
  OneLink
PROPERTIES
  ShutDownCompletes
  DelayedSendExecuted
  LinkRetried
CHECK_DEADLOCK FALSE
