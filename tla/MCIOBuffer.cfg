SPECIFICATION IOSpec
CONSTANTS
  m_iBufSize = 4
  Zero = 0
  Byte = {0, 1}
  MaxChunk = 4
INVARIANT IOTypeOK
PROPERTY ImplementsByteQueue
