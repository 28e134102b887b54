CONSTANTS
  c1 = c1
  c2 = c2
  Conn <- MCConn
  HeartbeatEvery = 3
  PongTimeout = 1
  MaxEvents = 2
SPECIFICATION Spec
INVARIANTS
  TypeOK
  PromptIsKept
  DeadIsDropped
  OpenMissesNothing
PROPERTY CloseEndsConnections
