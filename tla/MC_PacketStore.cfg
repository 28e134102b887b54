CONSTANTS
  h1 = h1
  h2 = h2
  h3 = h3
  h4 = h4
  alice = alice
  bob = bob
  Hash <- MCHash
  Observer <- MCObserver
  MaxSize = 3
  NoPacket = NoPacket
SPECIFICATION Spec
INVARIANTS
  TypeOK
  SlotsBehindHead
  LookupIsNewestListed
  LookupsComplete
PROPERTY ImplementsLog
