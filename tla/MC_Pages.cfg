CONSTANTS
  NULL = NULL
  a = a
  b = b
  h1 = h1
  h2 = h2
  c1 = c1
  c2 = c2
  Visited <- MCVisited
  Id <- MCId
  Hash <- MCHash
  Channel <- MCChannel
  MaxNavs = 3
  MaxInputs = 4
SPECIFICATION Spec
INVARIANTS
  TypeOK
  LeavesNothing
  ShowsWhatIsChosen
PROPERTIES
  SpinnerEnds
CHECK_DEADLOCK FALSE
