SPECIFICATION ProtocolSpec
CONSTANTS
  m_iBufSize = 8
  Zero = Zero
  m_packetSize = 8
  m_packetMaxSize = 8
  HeaderSize = 2
  ReadSize = 2
  DataSize = {0, 3, 5}
  MaxPackets = 2
INVARIANT DispatchedAsSent
CHECK_DEADLOCK FALSE
