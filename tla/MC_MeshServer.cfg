CONSTANTS
  o1 = o1
  k1 = k1
  NULL = NULL
  Distance <- MCDistance
  Mac <- MCMac
  Decrypt <- MCDecrypt
  ChannelKeys <- MCChannelKeys
  WindowLength <- MCWindowLength
  HOUR = 2
  DAY = 3
  FIVE_MINUTES = 1
  TOP_N = 2
  SNR_THRESHOLD <- MCSnr
  REPEATER_LIMIT = 1
  NODE_LIMIT = 2
  LIST_MAX = 2
  Node <- MCNode
  Message <- MCMessage
  Routes <- MCRoutes
  Frames <- MCFrames
  Posts <- MCPosts
  Observer <- MCObserver
  MaxSize = 2
  CACHE_TTL = 1
  REFRESH = 2
  ZONE <- MCZone
  MaxFailures = 1
  START = 8
  MaxNow = 12
  MaxEvents = 2
  MaxBoots = 2
SPECIFICATION Spec
INVARIANTS
  TypeOK
  ReadAsSent
  ScoreAgreesWithAlerts
  CachedBoardIsRecent
  ViewsAddUp
CHECK_DEADLOCK FALSE
