CONSTANTS
  MaxSize = 3
  PageSize = 1
  MaxPackets = 4
  MaxMounts = 2
  MaxOffset = 2
  MaxRequests = 2
  NoAnswer = NoAnswer
  NoTable = NoTable
SPECIFICATION Spec
INVARIANT ScreenIsLive
