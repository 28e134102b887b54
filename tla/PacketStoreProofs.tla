-------------------------- MODULE PacketStoreProofs --------------------------
(***************************************************************************)
(* Proofs about PacketStore, for every buffer size, every set of hashes    *)
(* and every set of observers.                                             *)
(***************************************************************************)
EXTENDS PacketStore, TLAPS

-----------------------------------------------------------------------------
(* Arithmetic of the ring.                                                 *)

\* Reducing modulo n leaves a slot number alone.
LEMMA ModOfSlot ==
  ASSUME NEW n \in Nat \ {0}, NEW x \in 0 .. n - 1
  PROVE  x % n = x
OBVIOUS

\* Reducing modulo n takes a number of the next lap back by one lap.
LEMMA ModOfNextLap ==
  ASSUME NEW n \in Nat \ {0}, NEW x \in n .. n + n - 1
  PROVE  x % n = x - n
OBVIOUS

\* The slot that holds the i-th newest packet, without the modulus.
LEMMA PlaceOfEntry ==
  ASSUME head \in Slot, NEW i \in 1 .. MaxSize
  PROVE  /\ (head - i + MaxSize) % MaxSize \in Slot
         /\ (head - i + MaxSize) % MaxSize =
              IF i <= head THEN head - i ELSE head - i + MaxSize
<1> USE MaxSizeAssumption DEF Slot
<1>1. CASE i <= head
  <2>1. head - i + MaxSize \in MaxSize .. MaxSize + MaxSize - 1
    BY <1>1
  <2>2. (head - i + MaxSize) % MaxSize = (head - i + MaxSize) - MaxSize
    BY <2>1, ModOfNextLap
  <2> QED BY <1>1, <2>2
<1>2. CASE ~(i <= head)
  <2>1. head - i + MaxSize \in 0 .. MaxSize - 1
    BY <1>2
  <2>2. (head - i + MaxSize) % MaxSize = head - i + MaxSize
    BY <2>1, ModOfSlot
  <2> QED BY <1>2, <2>1, <2>2
<1> QED BY <1>1, <1>2

\* The head stays a slot, and which one it is, without the modulus.
LEMMA HeadAdvances ==
  ASSUME head \in Slot
  PROVE  /\ (head + 1) % MaxSize \in Slot
         /\ (head + 1) % MaxSize = IF head = MaxSize - 1 THEN 0 ELSE head + 1
<1> USE MaxSizeAssumption DEF Slot
<1>1. CASE head = MaxSize - 1
  BY <1>1, ModOfNextLap
<1>2. CASE head # MaxSize - 1
  BY <1>2, ModOfSlot
<1> QED BY <1>1, <1>2

-----------------------------------------------------------------------------
(* Type correctness, and which slots are in use.                           *)

\* The entries of the buffer and of the index are packets, the pointers
\* stay in range and the slots in use are the ones behind head.
StoreOK == TypeOK /\ SlotsBehindHead

LEMMA InitStoreOK == Init => StoreOK
BY MaxSizeAssumption DEF Init, StoreOK, TypeOK, SlotsBehindHead, Slot

LEMMA AddStoreOK ==
  ASSUME StoreOK, NEW p \in Packet, Add(p)
  PROVE  StoreOK'
<1> USE MaxSizeAssumption, NoPacketAssumption
<1>a. head \in Slot /\ count \in 0 .. MaxSize
  BY DEF StoreOK, TypeOK
<1>b. /\ head' = (head + 1) % MaxSize
      /\ count' = NextCount
      /\ buffer' = [buffer EXCEPT ![head] = p]
      /\ hashIndex' = IndexAfterAdd(p)
      /\ shared' = SharedAfterAdd(p)
  BY DEF Add
<1>c. head' \in Slot /\ head' = IF head = MaxSize - 1 THEN 0 ELSE head + 1
  BY <1>a, <1>b, HeadAdvances
<1>d. p.hash \in Hash
  BY DEF Packet
<1>1. buffer' \in [Slot -> Packet \cup {NoPacket}]
  BY <1>a, <1>b DEF StoreOK, TypeOK
<1>2. count' \in 0 .. MaxSize
  BY <1>a, <1>b DEF NextCount
<1>3. /\ DOMAIN IndexAfterEviction \subseteq DOMAIN hashIndex
      /\ \A h \in DOMAIN IndexAfterEviction : IndexAfterEviction[h] = hashIndex[h]
  BY DEF IndexAfterEviction
<1>4. DOMAIN hashIndex' \subseteq Hash
  BY <1>b, <1>3, <1>d DEF IndexAfterAdd, StoreOK, TypeOK
<1>5. \A h \in DOMAIN hashIndex' : hashIndex'[h] \in Packet
  BY <1>b, <1>3 DEF IndexAfterAdd, StoreOK, TypeOK
<1>6. shared' \subseteq Hash
  BY <1>b, <1>d DEF SharedAfterAdd, StoreOK, TypeOK
<1>7. TypeOK'
  BY <1>1, <1>2, <1>c, <1>4, <1>5, <1>6 DEF TypeOK
<1>8. SlotsBehindHead'
  <2>1. count' < MaxSize => head' = count'
    BY <1>a, <1>b, <1>c DEF NextCount, StoreOK, SlotsBehindHead, Slot
  <2>2. ASSUME NEW s \in Slot
        PROVE  buffer'[s] # NoPacket <=> s < count'
    <3>1. CASE s = head
      <4>1. buffer'[s] = p /\ p # NoPacket
        BY <1>a, <1>b, <3>1 DEF StoreOK, TypeOK
      <4>2. s < count'
        BY <1>a, <1>b, <3>1 DEF NextCount, StoreOK, SlotsBehindHead, Slot
      <4> QED BY <4>1, <4>2
    <3>2. CASE s # head
      <4>1. buffer'[s] = buffer[s]
        BY <1>a, <1>b, <3>2 DEF StoreOK, TypeOK
      <4>2. s < count <=> s < count'
        BY <1>a, <1>b, <3>2 DEF NextCount, StoreOK, SlotsBehindHead, Slot
      <4> QED BY <4>1, <4>2 DEF StoreOK, SlotsBehindHead
    <3> QED BY <3>1, <3>2
  <2> QED BY <2>1, <2>2 DEF SlotsBehindHead
<1> QED BY <1>7, <1>8 DEF StoreOK

LEMMA ClearStoreOK == Clear => StoreOK'
BY MaxSizeAssumption DEF Clear, StoreOK, TypeOK, SlotsBehindHead, Slot

LEMMA StutterStoreOK == StoreOK /\ UNCHANGED vars => StoreOK'
BY DEF vars, StoreOK, TypeOK, SlotsBehindHead, Slot

\* Every reachable state of the store is well formed: entries are packets,
\* pointers are in range, and the slots in use are the ones behind head.
THEOREM StoreIsWellFormed == Spec => [](TypeOK /\ SlotsBehindHead)
<1>1. StoreOK /\ [Next]_vars => StoreOK'
  BY AddStoreOK, ClearStoreOK, StutterStoreOK DEF Next
<1>2. StoreOK => TypeOK /\ SlotsBehindHead
  BY DEF StoreOK
<1> QED BY InitStoreOK, <1>1, <1>2, PTL DEF Spec

\* In particular head and count stay in range and the index maps hashes to
\* packets that carry them.
THEOREM TypesAreKept == Spec => []TypeOK
BY StoreIsWellFormed, PTL

-----------------------------------------------------------------------------
(* The buffer read newest first, and what a step does to it.               *)

\* The listing is a sequence of count packets, and its last one is the one
\* a full buffer evicts next.
LEMMA OrderedIsListing ==
  ASSUME StoreOK
  PROVE  /\ DOMAIN ToOrderedArray = 1 .. count
         /\ Len(ToOrderedArray) = count
         /\ \A i \in 1 .. count : ToOrderedArray[i] \in Packet
         /\ Full => ToOrderedArray[MaxSize] = buffer[head]
<1> USE MaxSizeAssumption
<1>a. head \in Slot /\ count \in 0 .. MaxSize
  BY DEF StoreOK, TypeOK
<1>1. DOMAIN ToOrderedArray = 1 .. count /\ Len(ToOrderedArray) = count
  BY <1>a DEF ToOrderedArray
<1>2. ASSUME NEW i \in 1 .. count
      PROVE  ToOrderedArray[i] \in Packet
  <2> DEFINE place == (head - i + MaxSize) % MaxSize
  <2>1. place \in Slot /\ place = IF i <= head THEN head - i ELSE head - i + MaxSize
    BY <1>a, PlaceOfEntry
  <2>2. place < count
    BY <1>a, <2>1 DEF StoreOK, SlotsBehindHead, Slot
  <2>3. ToOrderedArray[i] = buffer[place]
    BY DEF ToOrderedArray
  <2> QED BY <2>1, <2>2, <2>3 DEF StoreOK, TypeOK, SlotsBehindHead
<1>3. Full => ToOrderedArray[MaxSize] = buffer[head]
  <2>1. head - MaxSize + MaxSize = head /\ head \in 0 .. MaxSize - 1
    BY <1>a DEF Slot
  <2>2. (head - MaxSize + MaxSize) % MaxSize = head
    BY <2>1, ModOfSlot
  <2> QED BY <1>a, <2>2 DEF Full, ToOrderedArray
<1> QED BY <1>1, <1>2, <1>3

\* Adding a packet puts it in front of the listing.
LEMMA AddIsPush ==
  ASSUME StoreOK, NEW p \in Packet, Add(p)
  PROVE  /\ count' = IF count < MaxSize THEN count + 1 ELSE MaxSize
         /\ ToOrderedArray' = Log!Pushed(p, ToOrderedArray)
<1> USE MaxSizeAssumption
<1>a. head \in Slot /\ count \in 0 .. MaxSize
  BY DEF StoreOK, TypeOK
<1>b. /\ head' = IF head = MaxSize - 1 THEN 0 ELSE head + 1
      /\ head' \in Slot
      /\ buffer' = [buffer EXCEPT ![head] = p]
  BY <1>a, HeadAdvances DEF Add
<1>1. count' = IF count < MaxSize THEN count + 1 ELSE MaxSize
  BY <1>a DEF Add, NextCount
<1>2. ToOrderedArray' =
        [i \in 1 .. count' |-> buffer'[(head' - i + MaxSize) % MaxSize]]
  BY DEF ToOrderedArray
<1>3. ASSUME NEW i \in 1 .. count'
      PROVE  buffer'[(head' - i + MaxSize) % MaxSize]
               = IF i = 1 THEN p ELSE ToOrderedArray[i - 1]
  <2> DEFINE place == (head' - i + MaxSize) % MaxSize
  <2>1. place \in Slot /\ place = IF i <= head' THEN head' - i ELSE head' - i + MaxSize
    <3>1. i \in 1 .. MaxSize
      BY <1>a, <1>1
    <3>2. CASE i <= head'
      <4>1. head' - i + MaxSize \in MaxSize .. MaxSize + MaxSize - 1
        BY <1>b, <3>1, <3>2 DEF Slot
      <4> QED BY <1>b, <3>1, <3>2, <4>1, ModOfNextLap DEF Slot
    <3>3. CASE ~(i <= head')
      <4>1. head' - i + MaxSize \in 0 .. MaxSize - 1
        BY <1>b, <3>1, <3>3 DEF Slot
      <4> QED BY <1>b, <3>1, <3>3, <4>1, ModOfSlot DEF Slot
    <3> QED BY <3>2, <3>3
  <2>2. CASE i = 1
    <3>1. place = head
      BY <1>a, <1>b, <2>1, <2>2 DEF Slot
    <3> QED BY <1>a, <1>b, <2>2, <3>1 DEF StoreOK, TypeOK
  <2>3. CASE i # 1
    <3>1. i - 1 \in 1 .. count /\ i - 1 \in 1 .. MaxSize
      BY <1>a, <1>1, <2>3
    <3>2. (head - (i - 1) + MaxSize) % MaxSize
            = IF i - 1 <= head THEN head - (i - 1) ELSE head - (i - 1) + MaxSize
      BY <1>a, <3>1, PlaceOfEntry
    <3>3. place = (head - (i - 1) + MaxSize) % MaxSize /\ place # head
      BY <1>a, <1>b, <1>1, <2>1, <2>3, <3>1, <3>2 DEF Slot
    <3>4. buffer'[place] = buffer[place]
      BY <1>a, <1>b, <2>1, <3>3 DEF StoreOK, TypeOK
    <3>5. ToOrderedArray[i - 1] = buffer[(head - (i - 1) + MaxSize) % MaxSize]
      BY <3>1 DEF ToOrderedArray
    <3> QED BY <2>3, <3>3, <3>4, <3>5
  <2> QED BY <2>2, <2>3
<1>4. Log!Pushed(p, ToOrderedArray)
        = [i \in 1 .. count' |-> IF i = 1 THEN p ELSE ToOrderedArray[i - 1]]
  BY <1>1, OrderedIsListing DEF Log!Pushed
<1>5. ToOrderedArray'
        = [i \in 1 .. count' |-> IF i = 1 THEN p ELSE ToOrderedArray[i - 1]]
  BY <1>2, <1>3
<1> QED BY <1>1, <1>4, <1>5

\* Clearing the store empties the listing.
LEMMA ClearIsForget == Clear => ToOrderedArray' = << >>
BY DEF Clear, ToOrderedArray

LEMMA StutterListing == UNCHANGED vars => ToOrderedArray' = ToOrderedArray
BY DEF vars, ToOrderedArray

\* The ring buffer implements the log of the MaxSize newest packets.
THEOREM StoreImplementsLog == Spec => ImplementsLog
<1>1. Init => Log!Init
  BY DEF Init, Log!Init, ToOrderedArray
<1>2. StoreOK /\ [Next]_vars => [Log!Next]_ToOrderedArray
  <2> SUFFICES ASSUME StoreOK, [Next]_vars
               PROVE  [Log!Next]_ToOrderedArray
    OBVIOUS
  <2>1. ASSUME NEW p \in Packet, Add(p)
        PROVE  Log!Next
    BY <2>1, AddIsPush DEF Log!Next, Log!Remember
  <2>2. CASE Clear
    BY <2>2, ClearIsForget DEF Log!Next, Log!Forget
  <2>3. CASE UNCHANGED vars
    BY <2>3, StutterListing
  <2> QED BY <2>1, <2>2, <2>3 DEF Next
<1>3. StoreOK /\ [Next]_vars => StoreOK'
  BY AddStoreOK, ClearStoreOK, StutterStoreOK DEF Next
<1> QED BY <1>1, <1>2, <1>3, InitStoreOK, PTL DEF Spec, ImplementsLog, Log!Spec

-----------------------------------------------------------------------------
(* The hash index.                                                         *)

\* Two listed packets with one hash make that hash a shared one.
CopiesAreShared ==
  \A i, j \in 1 .. count :
    i # j /\ ToOrderedArray[i].hash = ToOrderedArray[j].hash
      => ToOrderedArray[i].hash \in shared

\* The inductive invariant of the index.  CopiesAreShared is what makes
\* UnsharedIsFindable inductive: an eviction may only take the index entry
\* of another listed packet if the two share their hash.
IndexOK ==
  /\ LookupIsNewestListed
  /\ LatestIsFindable
  /\ UnsharedIsFindable
  /\ CopiesAreShared

LEMMA InitIndexOK == Init => IndexOK
BY DEF Init, IndexOK, LookupIsNewestListed, LatestIsFindable,
       UnsharedIsFindable, CopiesAreShared, HashesIn, ToOrderedArray

LEMMA ClearIndexOK == Clear => IndexOK'
BY DEF Clear, IndexOK, LookupIsNewestListed, LatestIsFindable,
       UnsharedIsFindable, CopiesAreShared, HashesIn, ToOrderedArray

LEMMA StutterIndexOK == IndexOK /\ UNCHANGED vars => IndexOK'
BY DEF vars, IndexOK, LookupIsNewestListed, LatestIsFindable, GetByHash,
       UnsharedIsFindable, CopiesAreShared, HashesIn, ToOrderedArray

LEMMA AddIndexOK ==
  ASSUME StoreOK, IndexOK, NEW p \in Packet, Add(p)
  PROVE  IndexOK'
<1> USE MaxSizeAssumption
<1> DEFINE L == ToOrderedArray
           M == ToOrderedArray'
<1>a. /\ count \in 0 .. MaxSize
      /\ DOMAIN L = 1 .. count
      /\ Full => L[MaxSize] = buffer[head]
      /\ \A i \in 1 .. count : L[i] \in Packet
  BY OrderedIsListing DEF StoreOK, TypeOK
<1>b. /\ count' \in 1 .. MaxSize
      /\ DOMAIN M = 1 .. count'
      /\ \A i \in 1 .. count' : M[i] = IF i = 1 THEN p ELSE L[i - 1]
      /\ \A i \in 2 .. count' : i - 1 \in Survivors
      /\ \A i \in Survivors : i \in 1 .. count /\ i + 1 \in 2 .. count'
  <2>1. M = Log!Pushed(p, L) /\ Len(L) = count
    BY AddIsPush, OrderedIsListing
  <2>2. count' = IF count < MaxSize THEN count + 1 ELSE MaxSize
    BY AddIsPush
  <2> QED BY <1>a, <2>1, <2>2 DEF Log!Pushed, Survivors
<1>c. /\ shared' = (shared \cup {p.hash}) \cap {L[i].hash : i \in Survivors}
      /\ DOMAIN hashIndex' = DOMAIN IndexAfterEviction \cup {p.hash}
      /\ \A h \in DOMAIN hashIndex' :
           hashIndex'[h] = IF h = p.hash THEN p ELSE IndexAfterEviction[h]
  BY DEF Add, SharedAfterAdd, IndexAfterAdd
<1>d. /\ \A h \in DOMAIN IndexAfterEviction :
           /\ h \in DOMAIN hashIndex
           /\ IndexAfterEviction[h] = hashIndex[h]
           /\ Full => h # L[MaxSize].hash
      /\ \A h \in DOMAIN hashIndex :
           h \in DOMAIN IndexAfterEviction \/ (Full /\ h = L[MaxSize].hash)
  <2>1. Full => buffer[head] # NoPacket
    BY <1>a, NoPacketAssumption DEF Full
  <2> QED BY <1>a, <2>1 DEF IndexAfterEviction
<1>1. LookupIsNewestListed'
  <2> SUFFICES ASSUME NEW h \in DOMAIN hashIndex'
               PROVE  \E i \in 1 .. count' :
                        /\ M[i] = hashIndex'[h]
                        /\ M[i].hash = h
                        /\ \A j \in 1 .. i - 1 : M[j].hash # h
    BY DEF LookupIsNewestListed
  <2>1. CASE h = p.hash
    <3>1. 1 \in 1 .. count' /\ M[1] = p /\ hashIndex'[h] = p
      BY <1>b, <1>c, <2>1
    <3> QED BY <2>1, <3>1
  <2>2. CASE h # p.hash
    <3>1. h \in DOMAIN IndexAfterEviction /\ hashIndex'[h] = hashIndex[h]
      BY <1>c, <1>d, <2>2
    <3>2. PICK i \in 1 .. count : /\ L[i] = hashIndex[h]
                                  /\ L[i].hash = h
                                  /\ \A j \in 1 .. i - 1 : L[j].hash # h
      BY <1>d, <3>1 DEF IndexOK, LookupIsNewestListed
    <3>3. i \in Survivors
      BY <1>a, <1>d, <3>1, <3>2 DEF Survivors, Full
    <3>4. i + 1 \in 1 .. count' /\ M[i + 1] = L[i]
      BY <1>b, <3>3
    <3>5. \A j \in 1 .. (i + 1) - 1 : M[j].hash # h
      BY <1>b, <2>2, <3>2, <3>4
    <3> QED BY <3>1, <3>2, <3>4, <3>5
  <2> QED BY <2>1, <2>2
<1>2. LatestIsFindable'
  <2>1. M[1] = p /\ p.hash \in DOMAIN hashIndex' /\ hashIndex'[p.hash] = p
    BY <1>b, <1>c
  <2> QED BY <2>1 DEF LatestIsFindable, GetByHash
<1>3. CopiesAreShared'
  <2> SUFFICES ASSUME NEW i \in 1 .. count', NEW j \in 1 .. count',
                      i # j, M[i].hash = M[j].hash
               PROVE  M[i].hash \in shared'
    BY DEF CopiesAreShared
  <2>1. CASE i = 1
    <3>1. j - 1 \in Survivors /\ M[j] = L[j - 1] /\ M[i] = p
      BY <1>b, <2>1
    <3> QED BY <1>c, <3>1
  <2>2. CASE j = 1
    <3>1. i - 1 \in Survivors /\ M[i] = L[i - 1] /\ M[j] = p
      BY <1>b, <2>2
    <3> QED BY <1>c, <3>1
  <2>3. CASE i # 1 /\ j # 1
    <3>1. /\ i - 1 \in Survivors /\ M[i] = L[i - 1]
          /\ j - 1 \in Survivors /\ M[j] = L[j - 1]
          /\ i - 1 \in 1 .. count /\ j - 1 \in 1 .. count /\ i - 1 # j - 1
      BY <1>b, <2>3
    <3>2. L[i - 1].hash \in shared
      BY <3>1 DEF IndexOK, CopiesAreShared
    <3> QED BY <1>c, <3>1, <3>2
  <2> QED BY <2>1, <2>2, <2>3
<1>4. UnsharedIsFindable'
  <2> SUFFICES ASSUME NEW k \in 1 .. count', M[k].hash \notin shared'
               PROVE  M[k].hash \in DOMAIN hashIndex'
    BY <1>b DEF UnsharedIsFindable, HashesIn
  <2>1. CASE k = 1
    BY <1>b, <1>c, <2>1
  <2>2. CASE k # 1
    <3>1. k - 1 \in Survivors /\ M[k] = L[k - 1] /\ k - 1 \in 1 .. count
      BY <1>b, <2>2
    <3>2. L[k - 1].hash \notin shared
      BY <1>c, <3>1
    <3>3. L[k - 1].hash \in DOMAIN hashIndex
      BY <1>a, <3>1, <3>2 DEF IndexOK, UnsharedIsFindable, HashesIn
    <3>4. ~(Full /\ L[k - 1].hash = L[MaxSize].hash)
      BY <1>a, <3>1, <3>2 DEF IndexOK, CopiesAreShared, Survivors, Full
    <3> QED BY <1>c, <1>d, <3>1, <3>3, <3>4
  <2> QED BY <2>1, <2>2
<1> QED BY <1>1, <1>2, <1>3, <1>4 DEF IndexOK

\* The index invariant holds in every reachable state.
LEMMA IndexInvariant == Spec => [](StoreOK /\ IndexOK)
<1>1. Init => StoreOK /\ IndexOK
  BY InitStoreOK, InitIndexOK
<1>2. StoreOK /\ IndexOK /\ [Next]_vars => (StoreOK /\ IndexOK)'
  BY AddStoreOK, ClearStoreOK, StutterStoreOK,
     AddIndexOK, ClearIndexOK, StutterIndexOK DEF Next
<1> QED BY <1>1, <1>2, PTL DEF Spec

\* A lookup by hash returns the newest listed packet with that hash, never
\* an evicted or an older one (getByHash against toOrderedArray).
THEOREM LookupsAreSound == Spec => []LookupIsNewestListed
<1>1. StoreOK /\ IndexOK => LookupIsNewestListed
  BY DEF IndexOK
<1> QED BY <1>1, IndexInvariant, PTL

\* The packet added last can always be looked up, and so can every listed
\* packet whose hash no other buffered packet ever shared.
THEOREM LookupsAreComplete == Spec => []LookupsComplete
<1>1. StoreOK /\ IndexOK => LookupsComplete
  BY DEF IndexOK, LookupsComplete
<1> QED BY <1>1, IndexInvariant, PTL

-----------------------------------------------------------------------------
(* What would make the index complete.                                     *)

\* The steps of a store whose caller never adds a hash that is still
\* listed: what the decoder's hash is documented to be for.
DeduplicatedNext ==
  Clear \/ \E p \in Packet : p.hash \notin HashesIn(ToOrderedArray) /\ Add(p)

DeduplicatedSpec == Init /\ [][DeduplicatedNext]_vars

\* Were duplicates kept out, every listed packet could be looked up: the
\* violation of ListedIsFindable is due to duplicates alone.
THEOREM DedupMakesIndexComplete == DeduplicatedSpec => []ListedIsFindable
<1> DEFINE Inv == StoreOK /\ IndexOK /\ shared = {}
<1>1. Init => Inv
  BY InitStoreOK, InitIndexOK DEF Init
<1>2. Inv /\ [DeduplicatedNext]_vars => Inv'
  <2> SUFFICES ASSUME Inv, [DeduplicatedNext]_vars PROVE Inv'
    OBVIOUS
  <2>1. ASSUME NEW p \in Packet, p.hash \notin HashesIn(ToOrderedArray), Add(p)
        PROVE  Inv'
    <3>1. StoreOK' /\ IndexOK'
      BY <2>1, AddStoreOK, AddIndexOK
    <3>2. p.hash \notin {ToOrderedArray[i].hash : i \in Survivors}
      BY <2>1, OrderedIsListing DEF HashesIn, Survivors
    <3>3. shared' = {}
      BY <2>1, <3>2 DEF Add, SharedAfterAdd
    <3> QED BY <3>1, <3>3
  <2>2. CASE Clear
    BY <2>2, ClearStoreOK, ClearIndexOK DEF Clear
  <2>3. CASE UNCHANGED vars
    BY <2>3, StutterStoreOK, StutterIndexOK DEF vars
  <2> QED BY <2>1, <2>2, <2>3 DEF DeduplicatedNext
<1>3. Inv => ListedIsFindable
  BY NoPacketAssumption
  DEF IndexOK, UnsharedIsFindable, ListedIsFindable, GetByHash, StoreOK, TypeOK
<1> QED BY <1>1, <1>2, <1>3, PTL DEF DeduplicatedSpec
=============================================================================
