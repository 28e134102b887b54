----------------------------- MODULE Leaderboard -----------------------------
(***************************************************************************)
(* The boards of the leaderboard engine (src/services/leaderboard-engine), *)
(* as functions of the listed packets, newest first, of the node registry  *)
(* and of the time.  How a board is cached is in module MeshServer.        *)
(*                                                                         *)
(* A board is a sequence of entries, best first, each with the id it is    *)
(* about and the value it is ranked by.  Names, miles, dates and the other *)
(* fields of an entry are only shown and left out.  The time of a packet   *)
(* is a text (ISO 8601), as the decoder makes it, or a number, as a client *)
(* of POST /api/packets may send it.                                       *)
(***************************************************************************)
EXTENDS Integers, Sequences, FiniteSets, SequencesExt

CONSTANTS
  NULL,
  Distance(_, _),  \* great-circle distance of two positions, rounded; a
                   \* position is a latitude and a longitude
  WindowLength,    \* window -> duration, for every window but "all"
  HOUR,            \* an hour
  TOP_N            \* entries of a board

ASSUME BoardAssumption == TOP_N \in Nat \ {0} /\ HOUR \in Nat \ {0}

CATEGORIES == {"distance", "activity", "fun"}
TIME_WINDOWS == DOMAIN WindowLength \cup {"all"}

\* Math.round(n / d), for d > 0: halves are rounded up.
Round(n, d) == (2 * n + d) \div (2 * d)

NodeOf(nodes, id) == IF id \in DOMAIN nodes THEN nodes[id] ELSE NULL

-----------------------------------------------------------------------------
(* Windows and ranking.                                                    *)

\* The elements of s at the places of I, in their order.
Picked(s, I) ==
  LET kept[n \in 0 .. Len(s)] ==
        IF n = 0 THEN << >>
        ELSE IF n \in I THEN Append(kept[n - 1], s[n]) ELSE kept[n - 1]
  IN  kept[Len(s)]

\* s.filter(P).
Where(s, P(_)) == Picked(s, {i \in DOMAIN s : P(s[i])})

\* Slip: the window is open at the far end of time.
WithinInverted(timestamp, window, now) ==
  window = "all" \/ (timestamp.ms /\ timestamp.at <= now - WindowLength[window])

\* A text compared with a number is NaN compared with it: false.
isWithinWindow(timestamp, window, now) ==
  window = "all" \/ (timestamp.ms /\ timestamp.at >= now - WindowLength[window])

Windowed(packets, window, now) ==
  Where(packets, LAMBDA p : isWithinWindow(p.timestamp, window, now))

\* The keys of a Map filled in the order of s: first occurrences; null is
\* skipped.
Keys(s) ==
  Picked(s, {i \in DOMAIN s : s[i] # NULL /\ \A j \in 1 .. i - 1 : s[j] # s[i]})

Sum(values) == FoldLeft(LAMBDA a, b : a + b, 0, values)

\* Sorted by value, best first, entries of one value in their old order, and
\* cut to the best TOP_N.
Ranked(entries) ==
  LET before(i, j) == \/ entries[i].value > entries[j].value
                      \/ entries[i].value = entries[j].value /\ i < j
      rank(i) == Cardinality({j \in DOMAIN entries : before(j, i)}) + 1
      size == IF Len(entries) < TOP_N THEN Len(entries) ELSE TOP_N
  IN  [r \in 1 .. size |-> entries[CHOOSE i \in DOMAIN entries : rank(i) = r]]

\* A board of one entry per key, with the value V gives the key.
BoardOf(keys, V(_)) ==
  Ranked([i \in DOMAIN keys |-> [id |-> keys[i], value |-> V(keys[i])]])

Sources(packets) == Keys([i \in DOMAIN packets |-> packets[i].sourceId])

\* How many packets satisfy P.
Count(packets, P(_)) == Len(Where(packets, P))

Sent(packets, id) == Where(packets, LAMBDA p : p.sourceId = id)

-----------------------------------------------------------------------------
(* Distance.                                                               *)

\* The distance of two known nodes, or null: the longitude is not asked for
\* before the distance is computed, which is null without it.
Between(nodes, a, b) ==
  LET src == NodeOf(nodes, a)
      dst == NodeOf(nodes, b)
      full(n) == n # NULL /\ n.latitude # NULL /\ n.longitude # NULL
  IN  IF full(src) /\ full(dst)
      THEN Distance(<< src.latitude, src.longitude >>, << dst.latitude, dst.longitude >>)
      ELSE NULL

\* An entry for each packet between two nodes that are some distance apart.
buildSingleHopEntries(packets, nodes) ==
  LET entry(p) == [id |-> << p.sourceId, p.destId >>,
                   value |-> Between(nodes, p.sourceId, p.destId)]
      far(p) == Between(nodes, p.sourceId, p.destId) \notin {NULL, 0}
      kept == Where(packets, far)
  IN  [i \in DOMAIN kept |-> entry(kept[i])]

longestSingleHop(packets, nodes) == Ranked(buildSingleHopEntries(packets, nodes))

longestDirectMessage(packets, nodes) ==
  longestSingleHop(
    Where(packets, LAMBDA p : p.type \in {"direct", "TEXT_MESSAGE_APP"}), nodes)

\* The sum over the hops of a path, null if one hop has no distance.
PathLength(path, nodes) ==
  LET hops == [i \in 1 .. Len(path) - 1 |-> Between(nodes, path[i], path[i + 1])]
  IN  IF \E i \in DOMAIN hops : hops[i] = NULL THEN NULL ELSE Sum(hops)

longestMultiHopPath(packets, nodes) ==
  LET far(p) == Len(p.hopPath) >= 2 /\ PathLength(p.hopPath, nodes) \notin {NULL, 0}
      kept == Where(packets, far)
  IN  Ranked([i \in DOMAIN kept |->
                [id |-> kept[i].hopPath, value |-> PathLength(kept[i].hopPath, nodes)]])

-----------------------------------------------------------------------------
(* Activity.                                                               *)

PacketCount(packets, id) == Len(Sent(packets, id))

Repeaters(packets, nodes) ==
  Where(Sources(packets),
        LAMBDA id : id \in DOMAIN nodes /\ nodes[id].role = "repeater")

mostActiveRepeater(packets, nodes) ==
  BoardOf(Repeaters(packets, nodes), LAMBDA id : PacketCount(packets, id))

\* Of the types the decoder knows none but "direct" counts: its "ack" is in
\* small letters.
isReliablePacket(p) == p.type \in {"ROUTING_APP", "direct", "ACK"}

\* In hundredths.
mostReliableRepeater(packets, nodes) ==
  BoardOf(Repeaters(packets, nodes), LAMBDA id :
    Round(100 * Count(Sent(packets, id), isReliablePacket), PacketCount(packets, id)))

SnrValues(packets) ==
  LET heard == Where(packets, LAMBDA p : p.snr # NULL)
  IN  [i \in DOMAIN heard |-> heard[i].snr]

\* In hundredths.
bestSnrChampion(packets) ==
  LET heard == Where(packets, LAMBDA p : p.snr # NULL)
  IN  BoardOf(Sources(heard), LAMBDA id :
        Round(100 * Sum(SnrValues(Sent(heard, id))), PacketCount(heard, id)))

Peers(packets, id) ==
  {packets[i].destId : i \in {k \in DOMAIN packets : packets[k].sourceId = id}}
    \cup {packets[i].sourceId : i \in {k \in DOMAIN packets : packets[k].destId = id}}

mostConnectedNode(packets) ==
  LET linked == Where(packets, LAMBDA p : p.sourceId # NULL /\ p.destId # NULL)
      ends == [k \in 1 .. 2 * Len(linked) |->
                 IF k % 2 = 1 THEN linked[(k + 1) \div 2].sourceId ELSE linked[k \div 2].destId]
  IN  BoardOf(Keys(ends), LAMBDA id : Cardinality(Peers(linked, id)))

busiestObserver(packets) ==
  BoardOf(Keys([i \in DOMAIN packets |-> packets[i].observerId]),
          LAMBDA o : Count(packets, LAMBDA p : p.observerId = o))

-----------------------------------------------------------------------------
(* Fun.                                                                    *)

toHourKey(timestamp) == timestamp.at \div HOUR

\* The hour of the day; local time is the time of the model.
getHours(timestamp) == toHourKey(timestamp) % 24

timeRangeLeaderboard(packets, startHour, endHour) ==
  LET inRange == Where(packets, LAMBDA p :
                   getHours(p.timestamp) >= startHour /\ getHours(p.timestamp) < endHour)
  IN  BoardOf(Sources(inRange), LAMBDA id : PacketCount(inRange, id))

nightOwl(packets) == timeRangeLeaderboard(packets, 0, 5)

earlyBird(packets) == timeRangeLeaderboard(packets, 5, 8)

\* Slip: a gap does not end the streak.
StreakOverGaps(hours) == Cardinality(hours)

Sorted(numbers) ==
  [k \in 1 .. Cardinality(numbers) |->
     CHOOSE n \in numbers : Cardinality({m \in numbers : m < n}) = k - 1]

\* The longest run of hours that follow one another: one pass over the hours
\* in order, with the length of the run at each.
longestConsecutiveStreak(hours) ==
  LET sorted == Sorted(hours)
      currentStreak[k \in 0 .. Len(sorted)] ==
        IF k = 0 THEN 0
        ELSE IF k > 1 /\ sorted[k] = sorted[k - 1] + 1 THEN currentStreak[k - 1] + 1 ELSE 1
  IN  Max({currentStreak[k] : k \in 0 .. Len(sorted)})

Hours(packets, id) == {toHourKey(p.timestamp) : p \in ToSet(Sent(packets, id))}

marathonRunner(packets) ==
  BoardOf(Sources(packets), LAMBDA id : longestConsecutiveStreak(Hours(packets, id)))

\* Nodes first seen in the last week.  No writer of the registry says when it
\* saw a node first.
NewNodes(nodes, now) ==
  {id \in DOMAIN nodes :
     "firstSeen" \in DOMAIN nodes[id] /\ nodes[id].firstSeen >= now - WindowLength["7d"]}

newKidOnTheBlock(packets, nodes, now) ==
  BoardOf(SetToSeq(NewNodes(nodes, now)), LAMBDA id : PacketCount(packets, id))

-----------------------------------------------------------------------------

\* The boards of a category over the packets of a window.
Boards(category, packets, nodes, now) ==
  CASE category = "distance" ->
         [singleHop |-> longestSingleHop(packets, nodes),
          multiHop |-> longestMultiHopPath(packets, nodes),
          directMessage |-> longestDirectMessage(packets, nodes)]
    [] category = "activity" ->
         [activeRepeater |-> mostActiveRepeater(packets, nodes),
          reliableRepeater |-> mostReliableRepeater(packets, nodes),
          bestSnr |-> bestSnrChampion(packets),
          connectedNode |-> mostConnectedNode(packets),
          observer |-> busiestObserver(packets)]
    [] category = "fun" ->
         [nightOwl |-> nightOwl(packets), earlyBird |-> earlyBird(packets),
          marathonRunner |-> marathonRunner(packets),
          newKid |-> newKidOnTheBlock(packets, nodes, now)]

getLeaderboard(category, window, packets, nodes, now) ==
  Boards(category, Windowed(packets, window, now), nodes, now)
=============================================================================
