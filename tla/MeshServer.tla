----------------------------- MODULE MeshServer ------------------------------
(***************************************************************************)
(* The server process as its readers see it (src/index.js): it boots,      *)
(* decodes what the broker delivers into its stores, takes packets posted  *)
(* to it, computes leaderboards on request and at an interval, keeps them  *)
(* in a table that outlives the process, and shuts down step by step.      *)
(*                                                                         *)
(* Ingest has what a message does to tables and dashboards; here are the   *)
(* stores with all the fields that boards and views read.  Time is UTC, in *)
(* ticks; the interval fires on time.                                      *)
(***************************************************************************)
EXTENDS MeshViews

CONSTANTS
  ChannelKeys, Mac(_, _), Decrypt(_, _),  \* see Decoder
  Node,         \* nodes the generator plays
  Message,      \* texts it sends
  Routes,       \* hops of the traces it sends
  Frames,       \* other packets off the air, as bytes
  Posts,        \* bodies clients send to POST /api/packets
  Observer,     \* observers
  MaxSize,      \* size of the packet store
  CACHE_TTL,    \* age at which a cached board is no longer served
  REFRESH,      \* interval between two refreshes of all boards
  ZONE,         \* local time is UTC + ZONE
  MaxFailures,  \* writes of one refresh that may fail
  START, MaxNow,  \* bounds: the first and the last reading of the clock
  MaxEvents,    \* bound: messages, posts, boards requested, refreshes that fail
  MaxBoots      \* bound: lives of the process

Time == START .. MaxNow

ASSUME ClockAssumption ==
  /\ START \in Int /\ MaxNow \in Int /\ START <= MaxNow
  /\ ZONE \in Int /\ CACHE_TTL \in Int /\ REFRESH \in Nat
  /\ NULL \notin Int

\* What clients post has a signal-to-noise ratio or none, and a path that can
\* be read as a list.
ASSUME StoreAssumption ==
  /\ MaxSize \in Nat
  /\ \A body \in Posts :
       /\ {"snr", "hopPath"} \subseteq DOMAIN body
       /\ body.snr \in Int \cup {NULL}
       /\ body.hopPath \in Seq(Range(body.hopPath))

\* The default threshold is -5 dB, the middle of the scale of the score.
ASSUME HealthAssumption ==
  /\ DAY \in Int /\ FIVE_MINUTES \in Int
  /\ SNR_THRESHOLD \in Int /\ SNR_THRESHOLD <= -5
  /\ REPEATER_LIMIT \in Nat \ {0} /\ NODE_LIMIT \in Nat \ {0}

VARIABLES
  now,        \* Date.now()
  phase,      \* "down", "serving", or a step of the shutdown
  packets,    \* listing of the packet store, newest first
  nodes,      \* node registry, for the known ids
  observers,  \* observer registry, for the known ids
  refreshAt,  \* when the interval fires next, NULL if it is cleared
  cache,      \* table leaderboard_cache: row -> updated_at, NULL if no row
  sent,       \* history: what the generator meant by each listed packet
  refreshed,  \* history: did this life of the process refresh the boards?
  unsaved,    \* history: rows the last write of which failed
  used        \* counters of the bounds

stores == << packets, nodes, observers, sent >>
vars == << now, phase, stores, refreshAt, cache, refreshed, unsaved, used >>

Gen == INSTANCE Generator
Log == INSTANCE PacketLog WITH Packet <- {}, log <- packets

Byte == 0 .. 255
Char == 32 .. 126
MaxInt32 == 2147483647
Int32 == (-MaxInt32 - 1) .. MaxInt32

\* Ids of four bytes, names and messages of printable characters, positions
\* of 32 bits, roles by their flags; a clock that, in seconds, has no sign bit
\* (before 2038); and no channel key that authenticates a text sent in the
\* clear by chance.
ASSUME GeneratorAssumption ==
  /\ \A n \in Node :
       /\ n.id \in Seq(Byte) /\ Len(n.id) = 4
       /\ n.name \in Seq(Char) /\ n.name # << >>
       /\ n.lat \in Int32 /\ n.lng \in Int32
       /\ n.role \in 1 .. 3
  /\ \A message \in Message : message \in Seq(Char)
  /\ \A hops \in Routes : hops \in Seq(Node)
  /\ \A t \in Time : t \in Int32 /\ t \in Nat
  /\ \A message \in Message, k \in 1 .. Len(ChannelKeys) :
       ~Gen!verifyMac(Gen!stringToBytes(message), ChannelKeys[k].key)

\* Where nodes say they are: those the generator plays and those whose
\* adverts are among the other packets.
Positions ==
  LET read(bytes) == Gen!decodePacket(Gen!bytesToHex(bytes))
      adverts == {bytes \in Frames : read(bytes).type = "advert"}
      place(payload) == << payload.latitude, payload.longitude >>
  IN  {<< n.lat, n.lng >> : n \in Node}
        \cup {place(read(bytes).decodedPayload) : bytes \in adverts}

\* What comes off the air is bytes, and positions are some distance apart.
ASSUME PositionAssumption ==
  /\ \A bytes \in Frames : bytes \in Seq(Byte)
  /\ \A a, b \in Positions : NULL \notin {a[1], a[2], b[1], b[2]} => Distance(a, b) \in Nat

Rows == CATEGORIES \X TIME_WINDOWS

Event ==
  /\ used.events < MaxEvents
  /\ used' = [used EXCEPT !.events = @ + 1]

-----------------------------------------------------------------------------
(* Packets and messages.                                                   *)

\* f with the value v at x, a new place or not.
With(f, x, v) == [y \in DOMAIN f \cup {x} |-> IF y = x THEN v ELSE f[y]]

\* packetStore.add, next to what the generator meant by the packet.
Add(p, meant) ==
  /\ packets' = Log!Pushed(p, packets)
  /\ sent' = Log!Pushed(meant, sent)

\* What the views read of a decoded packet that observer o heard: the time
\* is a text, destinationId is not the decoder's word.
HeardBy(o, packet) ==
  [type |-> packet.type, sourceId |-> packet.sourceId, destId |-> packet.destId,
   hops |-> packet.hops, hopPath |-> packet.hopPath, snr |-> packet.snr,
   channel |-> packet.channel, decodedPayload |-> packet.decodedPayload,
   observerId |-> o, destinationId |-> NULL, timestamp |-> [ms |-> FALSE, at |-> now]]

Decoded(bytes, o) == HeardBy(o, Gen!decodePacket(Gen!bytesToHex(bytes)))

nodeFromAdvert(p) ==
  LET payload == p.decodedPayload
  IN  [name |-> payload.name, role |-> payload.role, latitude |-> payload.latitude,
       longitude |-> payload.longitude, lastSeen |-> p.timestamp.at]

\* Every field of a node record is in every advert's: the new one wins.
NodesAfter(p) ==
  IF p.type = "advert" /\ p.sourceId # NULL
  THEN With(nodes, p.sourceId, nodeFromAdvert(p))
  ELSE nodes

\* A heartbeat; an observer not known yet is taken to be online.
ObserversAfter(o) ==
  With(observers, o,
    [status |-> IF o \in DOMAIN observers THEN observers[o].status ELSE "online",
     lastHeartbeat |-> now])

\* A message of the broker.  During the shutdown too: a client that was ended
\* may connect again (ClosedStaysClosed in MqttClient).
HandlePacket(bytes, o, meant) ==
  /\ phase # "down"
  /\ Event
  /\ Add(Decoded(bytes, o), meant)
  /\ nodes' = NodesAfter(Decoded(bytes, o))
  /\ observers' = ObserversAfter(o)
  /\ UNCHANGED << now, phase, refreshAt, cache, refreshed, unsaved >>

\* The generator picks a type, two nodes, an observer and, where the type
\* has them, a message or a direction and hops.
Publish(type, source, dest, content, o) ==
  /\ source # dest
  /\ HandlePacket(Gen!Built(type, source, dest, content, now), o,
       [type |-> type, source |-> source, dest |-> dest, content |-> content, at |-> now])

HandleStatus(o, status) ==
  /\ phase # "down"
  /\ Event
  /\ observers' = With(observers, o, [status |-> status, lastHeartbeat |-> now])
  /\ UNCHANGED << now, phase, packets, nodes, sent, refreshAt, cache, refreshed, unsaved >>

\* POST /api/packets: the body goes into the store as it is; clients date it
\* with a number or a text, of now or of long ago.  A body without a time,
\* which the route takes as well, is left out.
Post(body, timestamp) ==
  /\ phase \in {"serving", "closing sockets"}
  /\ Event
  /\ Add(With(body, "timestamp", timestamp), NULL)
  /\ UNCHANGED << now, phase, nodes, observers, refreshAt, cache, refreshed, unsaved >>

-----------------------------------------------------------------------------
(* Cached leaderboards.  What is in a row is the board of the time the row *)
(* was written, getLeaderboard; the table is modelled by those times.      *)

\* Slip: a row is served however old it is.
CachedForever(row) == cache[row] # NULL

\* getCachedLeaderboard: updated_at is a text in UTC without saying so, and
\* is read as local time.
Cached(row) == cache[row] # NULL /\ now - (cache[row] - ZONE) <= CACHE_TTL

\* The rows after those of R were computed; writes that fail leave the old.
Saved(R, failed) == [r \in Rows |-> IF r \in R \ failed THEN now ELSE cache[r]]

\* GET /api/leaderboards of a category and window: the cached board, or else
\* a new one, cached if the table takes it.
GetBoard(row, written) ==
  LET failed == IF written THEN {} ELSE {row}
  IN  /\ phase \in {"serving", "closing sockets"}
      /\ ~Cached(row)
      /\ Event
      /\ cache' = Saved({row}, failed)
      /\ unsaved' = (unsaved \ {row}) \cup failed
      /\ UNCHANGED << now, phase, stores, refreshAt, refreshed >>

\* Slip: what is still fresh is not computed again.
RowsDue == {r \in Rows : ~Cached(r)}

\* refreshAll computes the boards of all categories and windows.
RowsRefreshed == Rows

\* The interval fires.
RefreshAll(failed) ==
  /\ phase = "serving"
  /\ now = refreshAt
  /\ refreshAt' = now + REFRESH
  /\ cache' = Saved(RowsRefreshed, failed)
  /\ unsaved' = failed
  /\ refreshed' = TRUE
  /\ IF failed = {} THEN UNCHANGED used ELSE Event
  /\ UNCHANGED << now, phase, stores >>

-----------------------------------------------------------------------------
(* The process.                                                            *)

\* Empty stores, the tables as they are, and the interval.
Boot ==
  /\ phase = "down"
  /\ used.boots < MaxBoots
  /\ used' = [used EXCEPT !.boots = @ + 1]
  /\ phase' = "serving"
  /\ refreshAt' = now + REFRESH
  /\ UNCHANGED << now, stores, cache, refreshed, unsaved >>

\* Slip: the interval is left running.
SignalKeepsInterval ==
  /\ phase = "serving"
  /\ phase' = "closing sockets"
  /\ UNCHANGED << now, stores, refreshAt, cache, refreshed, unsaved, used >>

\* The first signal: the interval is cleared, the MQTT client ended, and the
\* WebSocket server told to close.  Signals after it are ignored.
Signal ==
  /\ phase = "serving"
  /\ phase' = "closing sockets"
  /\ refreshAt' = NULL
  /\ UNCHANGED << now, stores, cache, refreshed, unsaved, used >>

\* What the process remembers is gone, the tables stay.
Exit ==
  /\ phase' = "down"
  /\ packets' = << >> /\ sent' = << >> /\ nodes' = << >> /\ observers' = << >>
  /\ refreshAt' = NULL
  /\ refreshed' = FALSE
  /\ UNCHANGED << now, cache, unsaved, used >>

\* Every WebSocket has ended: the HTTP server takes no more requests.
SocketsClosed ==
  /\ phase = "closing sockets"
  /\ phase' = "closing http"
  /\ UNCHANGED << now, stores, refreshAt, cache, refreshed, unsaved, used >>

\* Every request is answered: the database is closed and the process exits.
HttpClosed ==
  /\ phase = "closing http"
  /\ Exit

\* An exception nobody caught, or a kill.
Crash ==
  /\ phase # "down"
  /\ Exit

Tick ==
  /\ now < MaxNow
  /\ phase = "serving" => now < refreshAt
  /\ now' = now + 1
  /\ UNCHANGED << phase, stores, refreshAt, cache, refreshed, unsaved, used >>

Init ==
  /\ now = START
  /\ phase = "down"
  /\ packets = << >>
  /\ nodes = << >>
  /\ observers = << >>
  /\ refreshAt = NULL
  /\ cache = [r \in Rows |-> NULL]
  /\ sent = << >>
  /\ refreshed = FALSE
  /\ unsaved = {}
  /\ used = [events |-> 0, boots |-> 0]

Next ==
  \/ \E source, dest \in Node, o \in Observer :
       \/ Publish("advert", source, dest, NULL, o)
       \/ \E type \in {"group_text", "text_message"}, message \in Message :
            Publish(type, source, dest, message, o)
       \/ \E isRequest \in BOOLEAN, hops \in Routes :
            Publish("trace", source, dest, [isRequest |-> isRequest, hops |-> hops], o)
  \/ \E bytes \in Frames, o \in Observer : HandlePacket(bytes, o, NULL)
  \/ \E o \in Observer, status \in {"online", "offline"} : HandleStatus(o, status)
  \/ \E body \in Posts, ms \in BOOLEAN, at \in {START, now} : Post(body, [ms |-> ms, at |-> at])
  \/ \E row \in Rows, written \in BOOLEAN : GetBoard(row, written)
  \/ \E failed \in UNION {kSubset(k, Rows) : k \in 0 .. MaxFailures} : RefreshAll(failed)
  \/ Boot
  \/ Signal
  \/ SocketsClosed
  \/ HttpClosed
  \/ Crash
  \/ Tick

Spec == Init /\ [][Next]_vars

-----------------------------------------------------------------------------
(* Properties.                                                             *)

\* Types; packets and what the generator meant by them go side by side, and
\* the interval is set exactly while the server serves.
TypeOK ==
  /\ now \in Time
  /\ phase \in {"down", "serving", "closing sockets", "closing http"}
  /\ Len(packets) <= MaxSize /\ Len(sent) = Len(packets)
  /\ \A id \in DOMAIN nodes : nodes[id].lastSeen \in Time
  /\ \A o \in DOMAIN observers :
       observers[o] \in [status : {"online", "offline"}, lastHeartbeat : Time]
  /\ cache \in [Rows -> Time \cup {NULL}]
  /\ unsaved \subseteq Rows
  /\ IF phase = "serving" THEN refreshAt \in now .. now + REFRESH ELSE refreshAt = NULL

RoleOf(node) == << "repeater", "room_server", "companion" >>[node.role]

IdOf(node) == Gen!bytesToHex(node.id)

\* Packet p says what the generator meant, s: type, both ends of the path,
\* position, name, role and time of an advert, the words of a text message,
\* direction and hops of a trace.  A group text, which the generator does not
\* encrypt, is read as one that no key fits.
Says(p, s) ==
  LET read == p.decodedPayload
  IN  /\ p.type = s.type
      /\ p.hopPath = << IdOf(s.source), IdOf(s.dest) >>
      /\ p.sourceId = IdOf(s.source) /\ p.destId = IdOf(s.dest) /\ p.hops = 2
      /\ s.type = "advert" =>
           /\ read.name = s.source.name /\ read.role = RoleOf(s.source)
           /\ read.latitude = s.source.lat /\ read.longitude = s.source.lng
           /\ read.advertTimestamp = s.at /\ read.features = 0
           /\ SubSeq(read.publicKey, 1, 8) = IdOf(s.source)
      /\ s.type = "text_message" => read.payload = s.content /\ ~read.encrypted
      /\ s.type = "trace" =>
           /\ read.isRequest = s.content.isRequest
           /\ read.path = [k \in DOMAIN s.content.hops |-> IdOf(s.content.hops[k])]
      /\ s.type = "group_text" => read.encrypted /\ p.channel = NULL

\* What the generator means is what the decoder reads and the store lists.
ReadAsSent ==
  \A i \in {k \in DOMAIN sent : sent[k] # NULL} : Says(packets[i], sent[i])

\* Score, alerts and lists, each computed from thresholds of its own, agree.
\* As long as one page holds all repeaters, each counts as up or is reported
\* as disappeared, never both, and the list of repeaters shows as offline
\* those that do not count as active.  An observer reported offline takes
\* from the availability, and a node that is active from the downtime, unless
\* it is lost in rounding; a low signal is not scored above the middle.
ScoreAgreesWithAlerts ==
  LET repeaters == WithRole(nodes, "repeater")
      alerts == buildAlerts(packets, nodes, observers, now)
      health == getHealthScore(packets, nodes, observers, now)
      lost(id) == << "repeater_disappeared", id >> \in alerts
  IN  /\ Cardinality(repeaters) <= REPEATER_LIMIT =>
           \A id \in repeaters :
             /\ (id \in UpRepeaters(nodes, now)) # lost(id)
             /\ (id \in listRepeaters(nodes, "offline", now))
                  # (id \in getActive(nodes, FIVE_MINUTES, now))
      /\ Cardinality(DOMAIN observers) < 200 => \A o \in DOMAIN observers :
           << "observer_offline", o >> \in alerts =>
             health.components.observerAvailability < 100
      /\ << "snr_degradation" >> \in alerts => health.components.averageSnr <= 50
      /\ Cardinality(DOMAIN nodes) <= 20000 =>
           (getStats(packets, nodes, observers, now).uptimePercent = 0)
             = (getActive(nodes, FIVE_MINUTES, now) = {})
      /\ \A f \in DOMAIN health.components : health.components[f] \in 0 .. 100
      /\ health.score \in 0 .. 100

\* Boards are updated at every interval: while the server serves, and once
\* this life of the process has refreshed the boards, every row the last
\* write of which succeeded is there and no older than the interval, whoever
\* else wrote rows on request, in this life or an earlier one.  Nothing like
\* it holds before the first refresh of a life, for a row whose last write
\* failed, or during the shutdown: west of UTC Cached then takes a board for
\* fresh that is older than CACHE_TTL by up to the time zone.
CachedBoardIsRecent ==
  phase = "serving" /\ refreshed =>
    \A row \in Rows \ unsaved : cache[row] # NULL /\ now - cache[row] <= REFRESH

\* The value of a board for an id, 0 if the board does not list it.
ValueIn(board, id) ==
  LET here == {r \in DOMAIN board : board[r].id = id}
  IN  IF here = {} THEN 0 ELSE board[CHOOSE r \in here : TRUE].value

\* Boards are in order and, but for distances, rank nobody twice.
BoardsInOrder ==
  \A c \in CATEGORIES :
    LET boards == getLeaderboard(c, "all", packets, nodes, now)
    IN  \A name \in DOMAIN boards : \A r, q \in DOMAIN boards[name] :
          r < q => /\ boards[name][r].value >= boards[name][q].value
                   /\ c # "distance" => boards[name][r].id # boards[name][q].id

\* A direct message does not go farther than the longest hop.
DirectWithinHop ==
  LET boards == getLeaderboard("distance", "all", packets, nodes, now)
      farthest(board) == IF board = << >> THEN 0 ELSE board[1].value
  IN  farthest(boards.directMessage) <= farthest(boards.singleHop)

\* A streak is the longest interval of hours with a packet in each.
StreaksAreLongest ==
  LET marathon == getLeaderboard("fun", "all", packets, nodes, now).marathonRunner
      hours(id) == Hours(packets, id)
      runs(id) == {run \in hours(id) \X hours(id) : run[1] .. run[2] \subseteq hours(id)}
  IN  \A r \in DOMAIN marathon :
        marathon[r].value = Max({run[2] - run[1] + 1 : run \in runs(marathon[r].id)})

\* A window counts no more than the whole listing, as long as nobody falls
\* off the board.
WindowsCountLess ==
  LET counted(w) == getLeaderboard("activity", w, packets, nodes, now).observer
  IN  \A w \in DOMAIN WindowLength, id \in Observer :
        Len(counted("all")) < TOP_N => ValueIn(counted(w), id) <= ValueIn(counted("all"), id)

\* In the graph every link adds its weight to both of its ends.
GraphAddsUp ==
  LET graph == getTopology(packets, nodes)
  IN  /\ \A l \in DOMAIN graph.weight : l \subseteq DOMAIN graph.packetCount
      /\ SumFunction(graph.packetCount) = 2 * SumFunction(graph.weight)

\* Boards and graph agree with the listing they are computed from.
ViewsAddUp ==
  BoardsInOrder /\ DirectWithinHop /\ StreaksAreLongest /\ WindowsCountLess /\ GraphAddsUp
=============================================================================
