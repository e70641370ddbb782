SPECIFICATION ProtocolFairSpec
CONSTANTS
  m_iBufSize = 12
  Zero = Zero
  m_packetSize = 8
  m_packetMaxSize = 12
  HeaderSize = 3
  ReadSize = 4
  DataSize = {0, 2, 5, 6}
  MaxPackets = 4
INVARIANTS DispatchedAsSent ClosedOnlyIfTooLarge
PROPERTY SentIsDispatched
CHECK_DEADLOCK FALSE
