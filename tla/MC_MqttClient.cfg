CONSTANTS
  primary = primary
  backup = backup
  Broker <- MCBroker
  NoTimer = NoTimer
SPECIFICATION Spec
INVARIANTS
  TypeOK
  PendingIffIdle
  DelayFollowsFailures
PROPERTY ReconnectsForGood
CHECK_DEADLOCK FALSE
