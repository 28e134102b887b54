# MCDash in TLA+

A verification development for the NodakMesh dashboard: a Node.js server that
hears MeshCore radio packets over MQTT, keeps them in memory and in SQLite, and
shows them to browsers over HTTP and a WebSocket. The modules translate the code
under `src/` (the server), `public/js/` (the client) and `tools/` (the packet
generator); TLC checks them on small instances and TLAPS proves their safety
properties for every value of the constants.

## The system

| component | state | operations | talks to |
|---|---|---|---|
| MQTT connection manager, `src/mqtt/client.js` | per broker: mqtt.js client, `reconnectAttempt`, `reconnectTimer` | connect, subscribe, reconnect with backoff, `close()` | emits `packet` and `status` to the handler |
| MQTT handler, `src/mqtt/handler.js` | none | `handlePacket`, `handleStatus` | decoder, stores, tables, broadcast, all in one turn of the event loop |
| decoder, `src/decoder/` | none | bytes to a packet record with hash, type, hop path, payload | pure |
| packet store, `src/stores/packet-store.js` | ring `buffer`, `head`, `count`, `hashIndex` | `add`, `clear`, `getAll`, `getByHash`, ... | read by routes, health, leaderboards, topology |
| node and observer registries, `src/stores/` | a map from id to record | `upsert`, `updateHeartbeat`, reads | read by the same |
| tables, `src/db/` | `packets`, `nodes`, `observers`, caches | insert and upsert | written by the handler, not read back at boot |
| WebSocket server, `src/ws/server.js` | clients with `isAlive`, interval, one timeout per ping | upgrade, ping, terminate, `broadcast`, `close` | the dashboards |
| coverage sync, `src/services/coverage-sync.js` | `cachedData`, a row, a file, an interval, fetches under way | `start`, `sync`, `stop`, `getCoverage` | MeshMapper over HTTP, the coverage route |
| leaderboards, `src/services/leaderboard-engine.js` | a table of cached boards, an interval | boards by category and window, `refreshAll` | computed from the stores, for its route |
| health and topology, `src/services/` | none | score, alerts, graph | computed from the stores, for their routes |
| routes, `src/routes/` | none | reads of the stores, pagination, posted packets | dashboards |
| boot and shutdown, `src/index.js` | `shuttingDown` | builds all the above; on a signal stops it in order | everything |
| dashboard client, `public/js/` | socket and reconnect timer, current page, module variables of each page | navigation, loading data, live events, choices | HTTP and WebSocket |
| packet generator, `tools/generate-packets.js` | made-up nodes | builds binary packets and publishes them | the broker, and through it the decoder |

The server is one process with one event loop: what interleaves are turns of the
loop (a message, a timer, the answer to a fetch), what is concurrent are brokers,
MeshMapper, dashboards, and a kill at any point. What makes it hard: duplicates
and reordering from several observers and brokers, swallowed database errors,
restarts that keep the tables and lose the stores, timers that are not cancelled,
answers that arrive after the world has moved on, and times that are numbers in
one place and texts in another.

What makes each part correct:

- packet store: the newest `maxSize` packets in order; lookups agree with the list;
- handler: listing, registries and tables tell the same story after any
  interleaving, failed writes and restarts included;
- MQTT manager: exactly one connection or one pending attempt per broker, backoff
  by failures, connected and subscribed whenever a broker stays reachable, silent
  after `close()`;
- WebSocket server: dead connections go within a bound, live ones never, nothing
  broadcast is missed by an open connection, `close()` completes;
- coverage: never older than shown before, survives kills, catches up;
- decoder and generator: what the one writes the other reads;
- leaderboards, health, topology: a cached board is as recent as promised, and
  numbers computed in several places from the same stores agree;
- dashboard: the list shows every packet once; a page that was left leaves nothing
  behind, and the screen shows what is chosen on it.

## Modules

| module | models | state and actions |
|---|---|---|
| `PacketLog` | what the packet store promises | `log`, the newest packets; `Remember`, `Forget` |
| `PacketStore` | `packet-store.js` | the four variables of the closure under their own names, `Add` and `Clear` with eviction inside `Add`; `ToOrderedArray` and `GetByHash` are the reads. Implements `PacketLog` |
| `Ingest` | `handler.js`, `node-store.js`, `observer-store.js`, the inserts of `src/db` | one action per handler with everything it writes; `Post` of `routes/packets.js`, which reaches the packet store alone; `Restart`; the packet store appears as its abstraction `PacketLog` |
| `MqttClient` | `client.js` and the window of `index.js` from `close()` to the exit | one action per event handler and timer, for each broker |
| `WsServer` | `ws/server.js` | connections, interval and pong timeouts as countdowns, peers that are prompt, slow or dead |
| `CoverageSync` | `coverage-sync.js` | fetches with their deadlines, the three caches, each write a step of its own so that a kill can fall between |
| `Decoder` | `src/decoder/` | operators on sequences of bytes, under the source's names; HMAC and AES are constant operators |
| `Generator` | the packet builders of `tools/generate-packets.js` | operators that build the bytes `Decoder` reads |
| `Leaderboard` | `leaderboard-engine.js`, `time-windows.js`, `haversine.js` | operators from a listing and a registry to boards; the distance is a constant operator |
| `MeshViews` | `health-engine.js`, `topology.js`, the statistics and the repeater list of `src/routes/` | operators from the stores and the time to scores, alerts, graph; extends `Leaderboard` |
| `MeshServer` | `index.js` around all of these: boot, messages, posts, the cached boards of `leaderboard-engine.js` with their interval, the steps of the shutdown, crashes | composes `Generator`, `Decoder`, `PacketLog`, `MeshViews`; what the views read of stores and clock is its state |
| `PacketFeed` | the packet page `pages/packets.js` with `api.js`, the WebSocket manager and router of `app.js`, `GET /api/packets` of `routes/packets.js` | the page's module variables under their own names, requests with the mount that made them, one action per callback; the server's store is `PacketLog` again |
| `Pages` | the router of `app.js` and every other page of `pages/` | navigations, imports and requests under way, what each page's module variables remember, who is on the screen and whose data it shows; one action per navigation, import, kind of answer and choice |

`...Proofs` modules hold the theorems about the module they are named after.
`MC_*` modules give the constants their values. A definition introduced by a
comment "Slip:" is not part of the model: it is the way a plausible bug would
change the definition after it, and PROJECT.json says which property then fails.
Variables marked "history" only record; no action looks at them, except that
`MqttClient`'s and `WsServer`'s are capped.

Decoder, generator, boards and views are functions of the stores: they have no
state of their own, and what they say is checked in every state `MeshServer`
reaches. `Ingest` has what a message does to tables and dashboards and leaves the
payload abstract; `MeshServer` has the payload and leaves the tables of packets,
nodes and observers to `Ingest`.

## Runs

| run | what it shows | bounds and why they are enough |
|---|---|---|
| `packet_store` | order, eviction and index agree; every listed packet whose hash no other shared can be looked up; refinement of `PacketLog` | 3 slots, 4 hashes, 2 observers: the buffer wraps any number of times, one hash can be in no, one or all slots, one is never buffered when it is full |
| `packet_lookup` | violation: an evicted duplicate hides the packet that is still listed | as above |
| `ingest` | listing, registries and tables against the messages, between posted packets | 2 slots, 2 clock readings, 1 node with 2 names, 1 observer, 1 posted packet: ids are handled independently of each other, so one of each meets every case; two readings tell older from newer |
| `packet_persistence` | violation: no decoded packet reaches the table | as above |
| `mqtt_client` | reconnecting, safety and liveness | 2 brokers; attempts are counted up to `AttemptCeiling` = 6, past the point where the delay is capped |
| `mqtt_close` | violation: a connection comes up after `close()` | as above |
| `ws_heartbeat` | heartbeat in time, broadcasts, close | 2 connections, interval of 3 ticks, timeout of 1 (30 s and 10 s): the ratio of the code; 2 events fall anywhere around pings and pongs |
| `coverage` | caches under kills, failures and restarts; catching up | 3 versions, interval 2 ticks, timeout 1 |
| `packet_feed` | the packet page (no gaps, events on top, the table shows the list, loading ends) under arrivals, evictions, lost connections, restarts, failing requests and being left and opened again | pages of 1 row, a log of 3 and 4 packets: a page boundary, a shift over it, an eviction; 2 mounts and 2 requests under way, so that an answer meets the next mount; offsets up to 2 |
| `feed_stale` | violation: a late answer to an earlier mount freezes the table | as above |
| `mesh_server` | the generator's packets are read as they were meant; scores, alerts, lists, boards and graph agree; boards are refreshed at every interval, across failing writes, shutdowns and crashes | 2 messages, posts, requests or failing refreshes and 2 lives of the process: any two packets over any two lives; 2 slots, 5 readings of the clock, an hour of 2 ticks and a day of 3 so that every threshold is crossed; the age limit of a cached board is 1 tick and the interval 2, two ticks behind UTC, so that a board counts as fresh for longer than an interval |
| `pages` | what a page leaves behind and whose data the screen shows | 3 navigations, to pages and to addresses that match no route or cannot be decoded, and 4 inputs in all, 2 ids, hashes and channels, and of the three detail pages, which are built alike, the repeater's: two mounts of a page with another between them, two choices that overtake each other |

`mqtt_client` and `mqtt_close` do not check for deadlock since the process exits;
nor do `mesh_server` and `pages`, in which the bounds on lives, time and inputs
bring everything to a stop.

Violations, each a finding in PROJECT.json:

1. `ListedIsFindable`: evicting one of two packets with a common hash removes the
   index entry of the other (`packet-store.js:35`).
2. `ListedIsPersisted`: `insertPacket` binds an array and an object, which
   better-sqlite3 refuses; the error is swallowed (`db/packets.js:32`).
3. `ClosedStaysClosed`: `close()` leaves the reconnect logic armed
   (`mqtt/client.js:142`).
4. `ScreenIsLive`: the answer to an earlier mount rebinds the page to a table that
   is no longer in the document (`pages/packets.js:224`).

Some things the translation brought to light have no run of their own, since each
is a fact about one line and not about a behaviour; the models do as the code does:

- the generator sends group texts in the clear, and the decoder reads them as
  encrypted with no key that fits (`ReadAsSent` says so);
- the topology reads `destinationId`, and decoded packets have `destId`: only
  posted packets make such links;
- times of decoded packets are texts, which are never later than a number: every
  window but "all" leaves them out;
- the rolling average of the health engine is the hourly rate itself, so that no
  volume alert is raised (`RollingAverage` in `MeshViews`);
- an advert that ends inside its position reads the number that no longer fits as
  null without moving on, so that the bytes left are taken for features and name
  (`decoder/advert.js:119`); one that ends before its flags yields null for both;
- the health engine reads the first hundred nodes with the role of a repeater only
  (`node-store.js:39`);
- the five minutes after which a cached board is stale (`leaderboard-engine.js:7`
  and the build plan, line 230) are not kept: SQLite's UTC text is read as local time
  (`leaderboard-engine.js:637`, `Cached` in `MeshServer`), so that west of UTC a board
  of an earlier life of the process, or one whose refresh could not be written, is
  served as fresh for up to the hours of the zone, and east of it no board is ever
  fresh. `CachedBoardIsRecent` says what is kept nevertheless, by the interval: a row
  that this life refreshed and wrote is no older than that;
- for an id with a malformed escape `matchRoute` throws (`app.js:176`) outside the
  `try` of `navigate` (`app.js:226`): the page before it is unmounted but stays on the
  screen under the new address. A spinner it shows there stays for ever if the page
  has let go of the element that its answer was to be drawn into;
- times of adverts with the top bit set, which are after January 2038, are read as
  negative (`decoder/advert.js:33`).

## Fairness

- `MqttClient`: mqtt.js finishes attempts and timers fire. A broker need not come
  up, a shutdown need not happen or end; `ReconnectsForGood` only speaks of
  brokers that stay up.
- `WsServer`: time passes, due timers run, sockets that were destroyed close, and
  peers called prompt answer. No peer has to stay prompt.
- `CoverageSync`: time passes, due callbacks run, a write ends, and MeshMapper
  answers while it is up. It need not be up, and nobody has to start the process.
- `PacketFeed`: every request a browser makes ends, with an answer or an error.
  Nothing is assumed of packets, the connection or the user.
- `Pages`: imports and requests end, if only with a failure. The user need not do
  anything.
- `MeshServer` has no liveness property and states no fairness.

`PagesLeaveNoGap` and `EventsSurvivePaging` speak of a mount while `crossed` is false:
no page was asked for before the first one was there, and no answer to an earlier mount
arrived. Both happen in the model (and in a browser); a page asked for too early can
leave a gap in the list. With the flag the properties still cover every interleaving of
arrivals, evictions, losses, failures and paging. `ScreenShowsList` does without it: a
table of the current mount shows the list whatever crosses. Only a first page of another
mount, when it comes after this mount's own, makes the table another one; `feed_stale`
shows what then goes wrong.

`Pages` has `hasty` in the same role: it names the pages that were left, or on which
something was chosen, while an answer to them was under way, and "overlap" once a
navigation overtook the import of another. The code guards against neither: pages
ask nobody, when an answer comes, whether they are still shown. `LeavesNothing` and
`ShowsWhatIsChosen` exempt the pages named there, not the others that share the
screen with them. An address that cannot be decoded is no exemption of either: under it
`ShowsWhatIsChosen` says instead that the screen is that of an earlier navigation, with
no page mounted and, but for a channel page left too early, no handler left. `SpinnerEnds` has
no part in `hasty` and only lets go of a spinner that such an address finds on the
screen.

In `WsServer` and `CoverageSync` time passes only while no callback is due. This is
the one idealisation of the event loop: it is never held up for as long as a tick
(ten seconds in `WsServer`). In `MeshServer` the interval likewise fires on time.

## Proofs

Each module that translates code with a state has a `...Proofs` module beside it; its
theorems hold for every value of the constants that satisfies the assumptions named.

`PacketStoreProofs`, from `MaxSize \in Nat \ {0}` and `NoPacket \notin Packet`:

- `TypesAreKept`, `StoreIsWellFormed`: `TypeOK` and `SlotsBehindHead`. They are
  inductive together: the type of `head` needs `% MaxSize`, and the slot `Add`
  overwrites is free exactly while the buffer is not full.
- `StoreImplementsLog`: every `Add` is `Remember` and every `Clear` is `Forget`
  under `log <- ToOrderedArray`. The arithmetic is in `ModOfSlot`, `ModOfNextLap`
  and `PlaceOfEntry`: where the entry `i` back from `head` is before and after
  `head` moves.
- `LookupsAreSound`, `LookupsAreComplete`: the index invariant `IndexOK` says that
  an entry is the newest listed packet of its hash, that every hash listed once
  since it entered has an entry, and that the history variable `shared` covers the
  others; it is inductive over `StoreOK`.
- `DedupMakesIndexComplete`: with duplicates kept out before `add`, every listed
  packet can be looked up. Duplicates are the only cause of violation 1.

`IngestProofs`, from `MaxSize \in Nat \ {0}`, bounds in `Nat`, `NULL` no value and
node ids that are no observers: `TypeOK` and the five other invariants of `ingest`, which
are nearly inductive together. What they need besides is `NothingIsLater`
(nothing in stores and tables is later than the clock, so that a new message is the
newest) and `SaidHasCount` (an observer that sent a status has a count in memory, so
that the row's count is not behind). The work is in how an upsert merges records:
`MergedOver`, `KnownAfterValue`, `StatusValue` and `HeardFromValue`.

`MqttClientProofs`, from `NoTimer \notin Nat`: `TypeOK`, `PendingIffIdle` and
`DelayFollowsFailures`, for any set of brokers. The strengthening is
`AttemptsAreFailures`: the counter that three handlers change is the number of
failures since the last connection.

`WsServerProofs`, from `0 < PongTimeout < HeartbeatEvery` and `MaxEvents \in Nat`:
`TypeOK`, `PromptIsKept`, `DeadIsDropped` and `OpenMissesNothing`. Their inductive
invariant follows the timers. `TimersFollowHeartbeat` says how far a pong timeout
and the interval are apart, so that no timeout survives into the next ping;
`DownMeansPinged` that a lowered flag has a ping and a timeout behind it;
`PromptAnswersAtOnce` that a prompt peer's flag is up again whenever a timeout runs;
`DeadSince` how long a peer can have been dead, by the flag. `UnopenedIsClean`,
`EndedIsNotOpen` and `SentIsBounded` keep the history variables in order.

`CoverageSyncProofs`, from `0 < FetchTimeout < SyncEvery`, `MaxVersion \in Nat` and
`Torn \notin 0 .. MaxVersion`:

- `SyncInvariant`: the inductive invariant `IInv`. Its heart is `OneFetch`: a fetch
  and the countdown of the interval age together, so that a fetch has ended when
  the interval fires again and there is never a second one. `RowIsCurrent` ties the
  row to the cache and to what was shown, and says that the file is written after
  the row; `NothingAhead` that an answer on its way is not older than the cache.
  None of `ServedIsKept` and `CacheNeverGoesBack` is inductive without them.
- `TypesAreKept`, `CoverageIsKept`, `IntactFileCounts`, `NoAnswerOvertakes`: `TypeOK`,
  `ServedIsKept`, `IntactFileIsUsed` and the action property `CacheNeverGoesBack`
  follow from `IInv`.

`MeshServerProofs`: the five invariants of `mesh_server`. The assumptions are those of
`MeshServer` and `Leaderboard`, which TLC evaluates on the run as well:
`ClockAssumption` (whole numbers for interval, age limit, zone and clock),
`StoreAssumption` (posted packets have a signal that is a number or missing, and a path
that is a list: `parseHopPath` makes one of any path), `HealthAssumption` (a low signal
is -5 dB, the default, or less), `BoardAssumption` (boards have a place, hours a
length), `GeneratorAssumption` (ids of four bytes, printable names and messages,
positions of 32 bits, a clock before 2038, and no key that authenticates a clear text
by chance) and `PositionAssumption` (what comes off the air is bytes, and two known
positions are a natural number apart).

- `CachedBoardsAreRecent`, whatever the packets, the zone and the age limit. The invariant `IInv` ties each row to
  the interval: `IntervalIsAhead` (it fires within its length), `RowsFollowInterval` (a
  refreshed row whose last write succeeded is as old as the interval has run, or
  younger), `RowsHoldTimes` and `DownIsForgetful`.
- `TypesHold`: `TypeOK` from `TInv`, that is `ListsTyped` (packets and what was meant
  by them side by side), `RegistriesTyped` and `ProcessTyped`. The other theorems start
  from it.
- `PacketsAreReadAsSent`: `ReadAsSent` for every fleet, message and route. `LaidOut`
  and `AdvertAt` say which byte is where in what the generator builds; `PacketRead`,
  `AdvertRead` and their like what the decoder finds in bytes laid out so: the header
  and path length taken apart again, hexadecimal text and back, four bytes to a number
  with its sign, zero-padded names, both directions of a trace. `BuiltRead` puts them
  together. What is in the list then never changes, it only moves.
- `ScoresAgreeWithAlerts`: every quotient is bounded on its own (`Math.round` of a part
  of a whole is a percentage, and a mean of low signals scores no more than the
  middle), and lists and statistics count the same sets. Two bounds are part of the
  property, since rounding makes it false beyond them: of 200 observers one that is
  offline costs nothing (`health-engine.js:44` rounds 199/200 to 100), and of more than
  20000 nodes a single active one is an uptime of 0 (`routes/stats.js:27`).
- `ViewsHold`: `ViewsAddUp`. On top of `TInv`, `VInv` says that packets can be dated
  and their paths followed, and that a node is nowhere or at a position of
  `Positions`. `RankedFacts`: a board holds everybody once and in order, since the
  places of its entries are counted in a strict order of a finite set. A streak is
  longest by an invariant of the one pass that `longestConsecutiveHours` makes; what a
  window counts injects into the whole; each link adds its weight at both ends
  (`SumOfCounts`); a direct message is one of the hops that are measured.

Nothing here is proved by induction over data with the theorems of the library: those
take an operator. Instead the sets of numbers for which a claim holds are closed under
successor, and `LeastNumber`, `SetInduction`, `BoundedInduction`, `Recursion` and
`FoldRecursion` are proved once from well-foundedness, the last two for the recursive
functions and folds the models are written with. For the same reason `Picked`, `Where`,
`Sorted` and `With` are written out in the models: the prover does not expand
`SelectSeq`, `SortSeq`, `@@` and `:>`.

`TInv` and `VInv` were checked by TLC on the states of `mesh_server` first, and
`Counted` below on those of `pages`.

`PacketFeedProofs`, from a page and a log of at least one packet and from `NoAnswer`
and `NoTable` being no lists: `TypeOK` and the three safety invariants of
`packet_feed`. `ScreenShowsList` needs `TableShowsList`, which also says that there is
no table on the screen before this mount's own unless an answer crossed.
`EventsSurvivePaging` is `HeardIsOnTop`. `NoGapBetweenPages` needs `OneAtATime` (a mount
has one request under way: its first page before there is a table, or the page after
it while the button says so), and is the long one. `LogIsContiguous`
and `AnswersAreRuns` say that log and answers are runs of numbers without a gap;
`RowsReach` that the rows reach without a gap from the top of the first page down to
some packet `lo`, below which the log holds nothing, or holds it at the offset of the
next page or further on. Evictions, arrivals and restarts only move packets further
on, so that the next answer overlaps the rows or follows them.

`PagesProofs`, from `Visited \subseteq Page`, `NULL` being none of the other values
and every page but the trace page starting with a request, and, for the types, natural
bounds (`BoundAssumption`): `TypesHold`, `LeavesNothingBehind` and
`ScreenFollowsChoice`. `TypesHold` counts: `PageCounted` says that a page's tally of
handlers and charts, its first requests under way and the imports that wait for it are
together as many as the navigations at most, since each of them turns into the next
and none into two. `LeavesNothingBehind` and `ScreenFollowsChoice` follow the page that
is shown. Until a navigation overtakes an
import (`Calm`), whoever waits for a module is the latest navigation
(`ImportIsLatest`), mounted is at most the current page, and none under an address that
cannot be decoded (`MountedIsCurrent`), a page
that was not left in a hurry has one request under way, and only while it is mounted
(`RequestIsLast`), only the page of the address writes into the screen
(`PlacesAreOwn`), and what it shows is what is chosen or waits for the answer to it
(`ScreenIsAsChosen`, the clauses of which are the pages' own). `Routed`, which holds
in any case, is what the router keeps by itself. A page that is not mounted is idle, but
for a choice made on the dead page of a malformed address. `ElsewhereKeeps` is the lemma on
which every step rests: a step of one page does not disturb the others. The history
variable `hasty` gives the exact conditions: the theorem holds for any order in which
answers and imports come as long as it stays empty.

Every safety invariant and action property of a passing run is a theorem.
Model-checked only: all liveness (`ReconnectsForGood`, `CloseEndsConnections`,
`CacheCatchesUp`, `LoadingEnds`, `SpinnerEnds`). Fairness and ENABLED are outside the
prover's reach.

## Not modelled

- `configuration`: read once at boot; defaults and validation, no state.
- `tools/seed-data.js`: fills the tables once.
- The lists of nodes, observers, channels and traces: reads of the stores without
  state. CORS, validation and errors of the routes are formatting.
- Posted packets without a time, or with fields of odd kinds: `Ingest` leaves their
  fields open, and `MeshServer` posts bodies with a time, a path and a signal that is a
  number or missing.
- The filters of `getAll` and the queries of `src/db` that nothing calls.
- The server never broadcasts `channel_message` and answers `/api/channels` and
  `/api/traces` from lists that stay empty: the live feed of the channel page and
  the hops of a trace are modelled from what the client does with any answer.
- Rendering, styling, charts, sorting and filtering inside a table, the detail pane
  of a packet, the statistics bar, the gauge, the live feed of the home page, and
  the search modal, which no page imports.
- The growing delays of the client's WebSocket reconnect: `SocketOpens` may take
  any time.
- mqtt.js, ws, better-sqlite3, Express, Chart.js and Leaflet are external and
  modelled by how the code uses them.
