-------------------------------- MODULE Ingest --------------------------------
(***************************************************************************)
(* The ingest pipeline: one MQTT message, in one turn of the event loop,   *)
(* goes through the handler (src/mqtt/handler.js) into the packet store,   *)
(* the node and observer registries (src/stores), the SQLite tables        *)
(* (src/db) and out to the dashboards as a broadcast event.                *)
(*                                                                         *)
(* Packets posted to /api/packets (src/routes/packets.js) enter the packet  *)
(* store only: nobody is registered, written or told.                      *)
(*                                                                         *)
(* The packet store is used through its abstract specification PacketLog.  *)
(* A raw packet stands for its own hash: equal bytes, equal hash.  The     *)
(* broker may deliver a message any number of times (two observers hear    *)
(* it, two brokers relay it), a database write may fail, which the handler *)
(* swallows, and the process may stop and boot again between two messages. *)
(***************************************************************************)
EXTENDS Naturals, Sequences

CONSTANTS
  NodeId,    \* ids of nodes: first entries of hop paths
  Name,      \* names that adverts carry
  Observer,  \* ids of observers: third segments of topics
  Body,      \* packets that clients post, whatever their fields say
  MaxSize,   \* size of the packet store
  NULL,      \* JavaScript's null, SQL's NULL
  MaxClock,  \* bound: the last clock reading
  MaxCount   \* bound: the largest packet count of an observer row

VARIABLES
  clock,         \* what Date() returns
  log,           \* listing of the packet store, newest first
  nodes,         \* node registry: id -> record, for the known ids
  observers,     \* observer registry: id -> record, for the known ids
  packetRows,    \* table packets
  nodeRows,      \* table nodes, keyed by id
  observerRows,  \* table observers, keyed by id
  published,     \* the event broadcast last, or NULL
  said,          \* history: observer -> the status its last status message
                 \* since boot claimed, or NULL
  lagging        \* history: the ids whose last database write failed

memory == << log, nodes, observers >>
tables == << packetRows, nodeRows, observerRows >>
vars == << clock, memory, tables, published, said, lagging >>

Status == {"online", "offline"}

ASSUME MaxSizeAssumption == MaxSize \in Nat \ {0}

ASSUME BoundsAssumption == MaxClock \in Nat /\ MaxCount \in Nat

\* NULL is no value.  A node is not an observer: an id in lagging tells the
\* table whose write failed.
ASSUME IdAssumption ==
  /\ NULL \notin NodeId /\ NULL \notin Name /\ NULL \notin Observer /\ NULL \notin Status
  /\ NodeId \cap Observer = {}

\* What the bytes of a message decode to.  The source is the first entry of
\* the hop path, NULL if the path is empty, whatever the type; only an advert
\* has a name, unless it was cut short.  Malformed bytes are of another type
\* and have no source.
Raw ==
  [type : {"advert"}, source : NodeId \cup {NULL}, name : Name \cup {NULL}]
    \cup [type : {"other"}, source : NodeId \cup {NULL}, name : {NULL}]

Heard == [via : {"mqtt"}, raw : Raw, observer : Observer \cup {NULL}, at : 0 .. MaxClock]

Posted == [via : {"post"}, body : Body]

Packet == Heard \cup Posted

\* Is this an advert that names a node?
NamesNode(raw) == raw.type = "advert" /\ raw.source # NULL

Log == INSTANCE PacketLog

\* f with key k set to v (a Map's set, a row written under its key).
Put(f, k, v) == [x \in DOMAIN f \cup {k} |-> IF x = k THEN v ELSE f[x]]

Empty == [x \in {} |-> NULL]

-----------------------------------------------------------------------------
(* The registries.                                                         *)

\* Slip: the stored record wins over the new one.
MergedStale(known, record) ==
  [f \in DOMAIN known \cup DOMAIN record |->
     IF f \in DOMAIN known THEN known[f] ELSE record[f]]

\* {...known, ...record}: every field of the new record wins, null ones too.
Merged(known, record) ==
  [f \in DOMAIN known \cup DOMAIN record |->
     IF f \in DOMAIN record THEN record[f] ELSE known[f]]

\* upsert of both registries.
Upserted(registry, id, record) ==
  Put(registry, id,
      IF id \in DOMAIN registry THEN Merged(registry[id], record) ELSE record)

NodeFromAdvert(p) == [name |-> p.raw.name, lastSeen |-> p.at]

\* Slip: an advert without a name is not worth registering.
KnownAfterNamed(p) ==
  IF NamesNode(p.raw) /\ p.raw.name # NULL
  THEN Upserted(nodes, p.raw.source, NodeFromAdvert(p))
  ELSE nodes

\* Slip: the id an advert names is not looked at.
KnownAfterAny(p) ==
  IF p.raw.type = "advert"
  THEN Upserted(nodes, p.raw.source, NodeFromAdvert(p))
  ELSE nodes

KnownAfter(p) ==
  IF NamesNode(p.raw)
  THEN Upserted(nodes, p.raw.source, NodeFromAdvert(p))
  ELSE nodes

\* Slip: whoever sends packets is online.
HeartbeatRevives(o) == [observers[o] EXCEPT !.beat = clock, !.status = "online"]

Heartbeat(o) == [observers[o] EXCEPT !.beat = clock]

\* A packet is a sign of life: it moves the heartbeat of an observer that
\* is known, and makes one up for an observer that is not.
HeardFrom(o) ==
  IF o = NULL THEN observers
  ELSE IF o \in DOMAIN observers THEN Put(observers, o, Heartbeat(o))
  ELSE Upserted(observers, o, [status |-> "online", beat |-> clock])

-----------------------------------------------------------------------------
(* The tables.                                                             *)

\* Slip: the value already in the row wins.
CoalesceOld(new, old) == IF old # NULL THEN old ELSE new

Coalesce(new, old) == IF new # NULL THEN new ELSE old

\* upsertNode: a null never overwrites a value, the time always does.
NodeRowAfter(id, node) ==
  IF id \in DOMAIN nodeRows
  THEN [name |-> Coalesce(node.name, nodeRows[id].name),
        lastSeen |-> node.lastSeen]
  ELSE node

\* Slip: the status of a known row is kept.
ObserverRowKeeping(id, status, reported) ==
  IF id \in DOMAIN observerRows
  THEN [observerRows[id] EXCEPT !.beat = clock, !.count = @ + reported]
  ELSE [status |-> status, beat |-> clock, count |-> reported]

\* upsertObserver: reported packet counts add up in the row.
ObserverRowAfter(id, status, reported) ==
  [status |-> status, beat |-> clock,
   count |-> reported
     + IF id \in DOMAIN observerRows THEN observerRows[id].count ELSE 0]

\* The kind of each value insertPacket binds for a packet of the decoder.
\* hopPath is an array and decodedPayload an object.
BoundKinds(p) ==
  [hash |-> "string", rawHex |-> "string", type |-> "string",
   sourceId |-> IF p.raw.source = NULL THEN "null" ELSE "string",
   hops |-> "number", hopPath |-> "object", decodedPayload |-> "object",
   timestamp |-> "string"]

\* better-sqlite3 binds numbers, strings and null, and throws a TypeError
\* for any other kind of value.
Bindable(kinds) == \A f \in DOMAIN kinds : kinds[f] \in {"string", "number", "null"}

-----------------------------------------------------------------------------
(* The handler.                                                            *)

\* handlePacket: a packet message with a non-empty payload, on a topic that
\* names observer o or none (NULL).  written: does the database accept what
\* is written to it this time?
HandlePacket(o, raw, written) ==
  LET p == [via |-> "mqtt", raw |-> raw, observer |-> o, at |-> clock]
  IN  /\ log' = Log!Pushed(p, log)
      /\ packetRows' = IF Bindable(BoundKinds(p)) /\ written
                       THEN packetRows \cup {p} ELSE packetRows
      /\ nodes' = KnownAfter(p)
      /\ nodeRows' = IF NamesNode(raw) /\ written
                     THEN Put(nodeRows, raw.source,
                              NodeRowAfter(raw.source, NodeFromAdvert(p)))
                     ELSE nodeRows
      /\ lagging' = IF ~NamesNode(raw) THEN lagging
                    ELSE IF written THEN lagging \ {raw.source}
                    ELSE lagging \cup {raw.source}
      /\ observers' = HeardFrom(o)
      /\ published' = [event |-> "packet", data |-> p]
      /\ UNCHANGED << clock, observerRows, said >>

\* handleStatus: a status message of observer o that parses as JSON.
HandleStatus(o, status, reported, written) ==
  LET data == [status |-> status, beat |-> clock, count |-> reported]
      row == ObserverRowAfter(o, status, reported)
  IN  /\ row.count <= MaxCount
      /\ observers' = Upserted(observers, o, data)
      /\ observerRows' = IF written THEN Put(observerRows, o, row) ELSE observerRows
      /\ lagging' = IF written THEN lagging \ {o} ELSE lagging \cup {o}
      /\ said' = [said EXCEPT ![o] = status]
      /\ published' = [event |-> "observer_status", id |-> o, data |-> data]
      /\ UNCHANGED << clock, log, nodes, packetRows, nodeRows >>

\* POST /api/packets, which is open outside production: the body is kept as
\* it is, if it has a hash.
Post(body) ==
  /\ log' = Log!Pushed([via |-> "post", body |-> body], log)
  /\ UNCHANGED << clock, nodes, observers, tables, published, said, lagging >>

\* The process ends, by a shutdown or a crash, and boots again: boot makes
\* empty stores and opens the tables it finds.
Restart ==
  /\ log' = << >>
  /\ nodes' = Empty
  /\ observers' = Empty
  /\ published' = NULL
  /\ said' = [o \in Observer |-> NULL]
  /\ lagging' = {}
  /\ UNCHANGED << clock, tables >>

Tick ==
  /\ clock < MaxClock
  /\ clock' = clock + 1
  /\ UNCHANGED << memory, tables, published, said, lagging >>

Init ==
  /\ clock = 0
  /\ log = << >>
  /\ nodes = Empty
  /\ observers = Empty
  /\ packetRows = {}
  /\ nodeRows = Empty
  /\ observerRows = Empty
  /\ published = NULL
  /\ said = [o \in Observer |-> NULL]
  /\ lagging = {}

Next ==
  \/ \E o \in Observer \cup {NULL}, raw \in Raw, written \in BOOLEAN :
       HandlePacket(o, raw, written)
  \/ \E o \in Observer, status \in Status, reported \in 0 .. 1, written \in BOOLEAN :
       HandleStatus(o, status, reported, written)
  \/ \E body \in Body : Post(body)
  \/ Restart
  \/ Tick

Spec == Init /\ [][Next]_vars

-----------------------------------------------------------------------------
(* Properties.                                                             *)

NodeRecord == [name : Name \cup {NULL}, lastSeen : 0 .. MaxClock]

\* Fields of an observer record: an observer that only ever sent packets
\* has no count.
ObserverRecord ==
  [status : Status, beat : 0 .. MaxClock]
    \cup [status : Status, beat : 0 .. MaxClock, count : Nat]

\* What the dashboards are sent.
Event ==
  [event : {"packet"}, data : Heard]
    \cup [event : {"observer_status"}, id : Observer,
          data : [status : Status, beat : 0 .. MaxClock, count : Nat]]

TypeOK ==
  /\ clock \in 0 .. MaxClock
  /\ DOMAIN log = 1 .. Len(log) /\ Len(log) <= MaxSize
  /\ \A i \in DOMAIN log : log[i] \in Packet
  /\ DOMAIN nodes \subseteq NodeId
  /\ \A n \in DOMAIN nodes : nodes[n] \in NodeRecord
  /\ DOMAIN observers \subseteq Observer
  /\ \A o \in DOMAIN observers : observers[o] \in ObserverRecord
  /\ packetRows \subseteq Packet
  /\ DOMAIN nodeRows \subseteq NodeId
  /\ \A n \in DOMAIN nodeRows : nodeRows[n] \in NodeRecord
  /\ DOMAIN observerRows \subseteq Observer
  /\ \A o \in DOMAIN observerRows :
       observerRows[o] \in [status : Status, beat : 0 .. MaxClock, count : Nat]
  /\ published \in Event \cup {NULL}
  /\ said \in [Observer -> Status \cup {NULL}]
  /\ lagging \subseteq NodeId \cup Observer

\* The registries know who a listed packet was heard by and which node a
\* listed advert describes, each with a time no older than the packet.  The
\* dashboard joins the packet list with both registries.  Senders of other
\* packets are not registered, and nobody a posted packet names is.
HeardIsKnown ==
  \A i \in DOMAIN log : log[i].via = "mqtt" =>
    /\ log[i].observer # NULL =>
         /\ log[i].observer \in DOMAIN observers
         /\ observers[log[i].observer].beat >= log[i].at
    /\ NamesNode(log[i].raw) =>
         /\ log[i].raw.source \in DOMAIN nodes
         /\ nodes[log[i].raw.source].lastSeen >= log[i].at

IsAdvertOf(p, n) == p.via = "mqtt" /\ NamesNode(p.raw) /\ p.raw.source = n

\* A node is shown as the last advert of it that arrived describes it, as
\* long as that is listed, however many others, or copies of them, are
\* listed too.  Last is meant by arrival: the code does not compare the
\* times that adverts carry, and an older one that comes late wins.
NewestAdvertWins ==
  \A i \in DOMAIN log, n \in NodeId :
    /\ IsAdvertOf(log[i], n)
    /\ \A j \in 1 .. i - 1 : ~IsAdvertOf(log[j], n)
    => nodes[n] = NodeFromAdvert(log[i])

\* Unless its last write failed, the row of a known node has the time of
\* its last advert, and every value the registry knows; it may remember a
\* name that a truncated advert made the registry forget.
NodeRowKeepsUp ==
  \A n \in DOMAIN nodes \ lagging :
    /\ n \in DOMAIN nodeRows
    /\ nodeRows[n].lastSeen = nodes[n].lastSeen
    /\ nodes[n].name # NULL => nodeRows[n].name = nodes[n].name

\* Only an observer's own status messages decide whether it is online: its
\* packets neither revive an observer that said it goes offline nor, once
\* it is registered, change anything but its heartbeat.  An observer heard
\* of through packets only counts as online.
StatusIsLastSaid ==
  \A o \in Observer :
    /\ o \in DOMAIN observers =>
         observers[o].status = IF said[o] = NULL THEN "online" ELSE said[o]
    /\ said[o] # NULL => o \in DOMAIN observers

\* The row of an observer that sent a status message since boot agrees with
\* the registry on its status, unless the last write failed; it is behind
\* on heartbeats, which packets move in memory only, and its count is at
\* least the count in memory, which is not added up.
ObserverRowKeepsUp ==
  \A o \in Observer \ lagging :
    said[o] # NULL =>
      /\ o \in DOMAIN observerRows
      /\ observerRows[o].status = observers[o].status
      /\ observerRows[o].beat <= observers[o].beat
      /\ observerRows[o].count >= observers[o].count

\* Every packet that was heard is in the database too.  Stated for the last
\* listed advert of each node, if the database took the node's row that is
\* written in the same turn: it was not the database that refused.
ListedIsPersisted ==
  \A i \in DOMAIN log, n \in NodeId \ lagging :
    /\ IsAdvertOf(log[i], n)
    /\ \A j \in 1 .. i - 1 : ~IsAdvertOf(log[j], n)
    => log[i] \in packetRows
=============================================================================
