----------------------------- MODULE PacketStore -----------------------------
(***************************************************************************)
(* The in-memory packet store (src/stores/packet-store.js): a ring buffer  *)
(* of MaxSize slots, a head pointer to the slot written next, a count, and *)
(* a Map from packet hash to packet for lookups by hash.                   *)
(*                                                                         *)
(* A hash is computed from the raw bytes of a packet alone, so one packet  *)
(* heard by two observers, or relayed by two brokers, is added twice under *)
(* one hash: two entries of the buffer share one entry of the index.       *)
(***************************************************************************)
EXTENDS Integers, Sequences

CONSTANTS
  Hash,      \* hashes of raw packets
  Observer,  \* the observers a packet can come from
  MaxSize,   \* slots of the ring buffer
  NoPacket   \* an unwritten slot; the undefined a lookup returns

Packet == [hash : Hash, observer : Observer]

ASSUME MaxSizeAssumption == MaxSize \in Nat \ {0}
ASSUME NoPacketAssumption == NoPacket \notin Packet

VARIABLES
  buffer,     \* slot -> packet, or NoPacket
  head,       \* the slot the next packet goes to
  count,      \* how many slots are in use
  hashIndex,  \* hash -> packet, for the hashes in the Map
  shared      \* history: the buffered hashes that, since they entered the
              \* buffer, were at some time carried by two packets of it

vars == << buffer, head, count, hashIndex, shared >>

Slot == 0 .. MaxSize - 1

-----------------------------------------------------------------------------
(* What readers see.                                                       *)

\* Slip: start at the slot that is written next instead of the one before.
OrderedFromHead ==
  [i \in 1 .. count |-> buffer[(head - i + 1 + MaxSize) % MaxSize]]

\* All packets, most recent first: walk backwards from head.
ToOrderedArray ==
  [i \in 1 .. count |-> buffer[(head - i + MaxSize) % MaxSize]]

GetByHash(h) == IF h \in DOMAIN hashIndex THEN hashIndex[h] ELSE NoPacket

HashesIn(ordered) == {ordered[i].hash : i \in DOMAIN ordered}

-----------------------------------------------------------------------------
(* Writing.                                                                *)

Full == count = MaxSize

\* Slip: leave the entry of the evicted packet in the index.
IndexWithoutEviction == hashIndex

\* A full buffer is about to lose the packet in the slot at head, and the
\* index loses the entry of that packet's hash, whichever packet it holds.
IndexAfterEviction ==
  IF Full /\ buffer[head] # NoPacket
  THEN [h \in DOMAIN hashIndex \ {buffer[head].hash} |-> hashIndex[h]]
  ELSE hashIndex

\* Slip: delete the evicted hash after the new packet was put in.
IndexEvictedLast(p) ==
  LET added == [h \in DOMAIN hashIndex \cup {p.hash} |->
                  IF h = p.hash THEN p ELSE hashIndex[h]]
      gone == IF Full THEN {buffer[head].hash} ELSE {}
  IN  [h \in DOMAIN added \ gone |-> added[h]]

IndexAfterAdd(p) ==
  [h \in DOMAIN IndexAfterEviction \cup {p.hash} |->
     IF h = p.hash THEN p ELSE IndexAfterEviction[h]]

\* The entries that stay buffered when the next packet arrives.
Survivors == {i \in 1 .. count : i < MaxSize}

SharedAfterAdd(p) ==
  LET remaining == {ToOrderedArray[i].hash : i \in Survivors}
  IN  (shared \cup {p.hash}) \cap remaining

\* Slip: the count is not stopped at the size of the buffer.
UncappedCount == count + 1

NextCount == IF count < MaxSize THEN count + 1 ELSE count

Add(p) ==
  /\ buffer' = [buffer EXCEPT ![head] = p]
  /\ hashIndex' = IndexAfterAdd(p)
  /\ head' = (head + 1) % MaxSize
  /\ count' = NextCount
  /\ shared' = SharedAfterAdd(p)

\* Slip: clear leaves head where it was.
ClearWithoutHead ==
  /\ buffer' = [s \in Slot |-> NoPacket]
  /\ count' = 0
  /\ hashIndex' = [h \in {} |-> NoPacket]
  /\ shared' = {}
  /\ UNCHANGED head

Clear ==
  /\ buffer' = [s \in Slot |-> NoPacket]
  /\ head' = 0
  /\ count' = 0
  /\ hashIndex' = [h \in {} |-> NoPacket]
  /\ shared' = {}

Init ==
  /\ buffer = [s \in Slot |-> NoPacket]
  /\ head = 0
  /\ count = 0
  /\ hashIndex = [h \in {} |-> NoPacket]
  /\ shared = {}

Next == (\E p \in Packet : Add(p)) \/ Clear

Spec == Init /\ [][Next]_vars

-----------------------------------------------------------------------------
(* Properties.                                                             *)

TypeOK ==
  /\ buffer \in [Slot -> Packet \cup {NoPacket}]
  /\ head \in Slot
  /\ count \in 0 .. MaxSize
  /\ DOMAIN hashIndex \subseteq Hash
  /\ \A h \in DOMAIN hashIndex : hashIndex[h] \in Packet
  /\ shared \subseteq Hash

\* The slots in use are exactly those behind head: until the buffer first
\* fills up they are 0 .. count-1.  The reads of toOrderedArray and the
\* eviction in add both depend on it and neither checks it.
SlotsBehindHead ==
  /\ count < MaxSize => head = count
  /\ \A s \in Slot : buffer[s] # NoPacket <=> s < count

\* A lookup by hash never returns a packet that was evicted, nor an older
\* copy when a newer one with that hash is listed (getByHash against
\* toOrderedArray).
LookupIsNewestListed ==
  \A h \in DOMAIN hashIndex :
    \E i \in 1 .. count :
      /\ ToOrderedArray[i] = hashIndex[h]
      /\ ToOrderedArray[i].hash = h
      /\ \A j \in 1 .. i - 1 : ToOrderedArray[j].hash # h

\* The packet that arrived last can be looked up, even when it reuses the
\* hash of the packet its own arrival evicted: add must take the evicted
\* entry out of the index before it puts the new one in.
LatestIsFindable ==
  count > 0 => GetByHash(ToOrderedArray[1].hash) = ToOrderedArray[1]

\* Every listed packet whose hash no second buffered packet ever shared can
\* be looked up.  (GET /api/packets/:hash for a row of GET /api/packets.)
UnsharedIsFindable ==
  \A h \in HashesIn(ToOrderedArray) \ shared : h \in DOMAIN hashIndex

\* Lookups are complete but for shared hashes: the packet that arrived last
\* and every listed packet whose hash no second buffered packet ever shared
\* can be looked up.
LookupsComplete == LatestIsFindable /\ UnsharedIsFindable

\* Every listed packet can be looked up by its hash.  This is what the list
\* page relies on, and what the code does not keep up: evicting one of two
\* packets with a common hash drops the index entry of the other.
ListedIsFindable ==
  \A h \in HashesIn(ToOrderedArray) : GetByHash(h) # NoPacket

-----------------------------------------------------------------------------
(* The ring buffer implements the bounded log.                             *)

Log == INSTANCE PacketLog WITH log <- ToOrderedArray

\* Whatever the ring buffer does is what a log of the MaxSize newest
\* packets does: no packet is lost early, reordered, or kept too long.
ImplementsLog == Log!Spec
=============================================================================
