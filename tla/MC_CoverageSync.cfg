CONSTANTS
  MaxVersion = 3
  SyncEvery = 2
  FetchTimeout = 1
  Torn = Torn
SPECIFICATION Spec
INVARIANTS
  TypeOK
  ServedIsKept
  IntactFileIsUsed
PROPERTIES
  CacheNeverGoesBack
  CacheCatchesUp
