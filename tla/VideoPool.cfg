\* All modes, restarts, and leftovers of earlier sessions.
CONSTANTS
  JPG_BACKBUF_MAX = 3
  m_BufferLimit = 0
  Modes = {"wifi", "ios", "server"}
  MaxSerial = 4
  MaxSessions = 3
SPECIFICATION Spec
INVARIANTS TypeOK PullNeverNull PoolConserved StaleBounded BacklogBounded ExclusiveWhenClean LiveBuffers
PROPERTIES NotTorn BacklogDrains ServerAcceptsAgain ImplementsChannel
CHECK_DEADLOCK FALSE
