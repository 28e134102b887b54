CONSTANTS
  n1 = n1
  alpha = alpha
  beta = beta
  o1 = o1
  b1 = b1
  NULL = NULL
  NodeId <- MCNodeId
  Name <- MCName
  Observer <- MCObserver
  Body <- MCBody
  MaxSize = 2
  MaxClock = 1
  MaxCount = 1
SYMMETRY Names
SPECIFICATION Spec
INVARIANT ListedIsPersisted
