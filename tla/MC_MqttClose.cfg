CONSTANTS
  primary = primary
  backup = backup
  Broker <- MCBroker
  NoTimer = NoTimer
SPECIFICATION Spec
PROPERTY ClosedStaysClosed
CHECK_DEADLOCK FALSE
