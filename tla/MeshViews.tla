------------------------------ MODULE MeshViews ------------------------------
(***************************************************************************)
(* What the server computes for a reader out of its stores, without        *)
(* changing them: the health score and the alerts (services/health-engine, *)
(* routes/health), the network graph (services/topology), the statistics   *)
(* (routes/stats) and the lists of nodes and repeaters (routes/nodes,      *)
(* routes/repeaters).  packets is the listing, newest first; nodes and     *)
(* observers are the registries; now is the time of the request.           *)
(***************************************************************************)
EXTENDS Leaderboard

CONSTANTS
  DAY,            \* a day
  FIVE_MINUTES,   \* how long a node counts as active, or online
  SNR_THRESHOLD,  \* average signal-to-noise ratio below which to warn
  REPEATER_LIMIT, \* getRepeaters reads one page of the registry
  NODE_LIMIT,     \* and the topology one of another size
  LIST_MAX        \* most nodes GET /api/nodes lists at once

-----------------------------------------------------------------------------
(* Reads of the stores.                                                    *)

\* getPacketsSince: text is compared with text; a number is never later.
getPacketsSince(packets, time) ==
  Where(packets, LAMBDA p : ~p.timestamp.ms /\ p.timestamp.at > time)

\* At most n of the ids.  The order of the registry is not modelled: any.
FirstOf(ids, n) ==
  IF Cardinality(ids) <= n THEN ids
  ELSE CHOOSE S \in SUBSET ids : Cardinality(S) = n

WithRole(nodes, role) == {id \in DOMAIN nodes : nodes[id].role = role}

getRepeaters(nodes) == FirstOf(WithRole(nodes, "repeater"), REPEATER_LIMIT)

getRoomServers(nodes) == FirstOf(WithRole(nodes, "room_server"), REPEATER_LIMIT)

SeenSince(nodes, ids, time) == {id \in ids : nodes[id].lastSeen >= time}

getActive(nodes, within, now) == SeenSince(nodes, DOMAIN nodes, now - within)

getOnline(observers) == {o \in DOMAIN observers : observers[o].status = "online"}

-----------------------------------------------------------------------------
(* Health.                                                                 *)

Percent(part, whole) == Round(100 * part, whole)

Clamp(value) == IF value < 0 THEN 0 ELSE IF value > 100 THEN 100 ELSE value

Share(part, whole) ==
  IF whole = {} THEN 100 ELSE Clamp(Percent(Cardinality(part), Cardinality(whole)))

\* The types that count as delivered.  The decoder has names of its own.
NonFloodTypes ==
  {"TRACEROUTE_APP", "TEXT_MESSAGE_APP", "POSITION_APP", "NODEINFO_APP",
   "TELEMETRY_APP", "ROUTING_APP"}

computePacketDeliveryRate(recent) ==
  IF recent = << >> THEN 100
  ELSE Clamp(Percent(Count(recent, LAMBDA p : p.type \in NonFloodTypes), Len(recent)))

\* -20 dB maps to 0, +10 dB to 100; 75 if nothing was measured.
computeAverageSnr(recent) ==
  LET snr == SnrValues(recent)
  IN  IF snr = << >> THEN 75
      ELSE Clamp(Round(100 * (Sum(snr) + 20 * Len(snr)), 30 * Len(snr)))

\* Slip: a day is counted from one hour ago.
UpInLastHour(nodes, now) == SeenSince(nodes, getRepeaters(nodes), now - HOUR)

\* Repeaters seen within a day.
UpRepeaters(nodes, now) == SeenSince(nodes, getRepeaters(nodes), now - DAY)

healthComponents(packets, nodes, observers, now) ==
  LET recent == getPacketsSince(packets, now - HOUR)
  IN  [observerAvailability |-> Share(getOnline(observers), DOMAIN observers),
       packetDeliveryRate |-> computePacketDeliveryRate(recent),
       averageSnr |-> computeAverageSnr(recent),
       nodeChurnRate |-> Share(getActive(nodes, HOUR, now), DOMAIN nodes),
       repeaterUptime |-> Share(UpRepeaters(nodes, now), getRepeaters(nodes))]

\* The weighted mean.
HealthScore(c) ==
  Clamp(Round(25 * c.observerAvailability + 25 * c.packetDeliveryRate + 20 * c.averageSnr
                + 15 * c.nodeChurnRate + 15 * c.repeaterUptime, 100))

getStatus(score) ==
  IF score >= 80 THEN "healthy" ELSE IF score >= 50 THEN "degraded" ELSE "unhealthy"

getHealthScore(packets, nodes, observers, now) ==
  LET c == healthComponents(packets, nodes, observers, now)
  IN  [components |-> c, score |-> HealthScore(c), status |-> getStatus(HealthScore(c))]

\* An observer that said it is offline, or said nothing for good reason, is
\* reported an hour after its last heartbeat.
SilentObservers(observers, now) ==
  {o \in DOMAIN observers \ getOnline(observers) : now - observers[o].lastHeartbeat > HOUR}

SnrIsLow(recent) ==
  LET snr == SnrValues(recent)
  IN  snr # << >> /\ Sum(snr) < SNR_THRESHOLD * Len(snr)

\* total divided by the estimated hours, max(1, total / rate).
RollingAverage(total, rate) == IF total >= rate THEN rate ELSE total

\* More than twice, or less than half, of the rolling average.
VolumeAlert(total, rate) ==
  IF total = 0 \/ rate = 0 THEN {}
  ELSE IF rate > 2 * RollingAverage(total, rate) THEN {"high_packet_volume"}
  ELSE IF 2 * rate < RollingAverage(total, rate) THEN {"low_packet_volume"}
  ELSE {}

\* Repeaters not seen for more than a day.
LostRepeaters(nodes, now) ==
  {id \in getRepeaters(nodes) : nodes[id].lastSeen < now - DAY}

buildAlerts(packets, nodes, observers, now) ==
  LET recent == getPacketsSince(packets, now - HOUR)
  IN  {<< "observer_offline", o >> : o \in SilentObservers(observers, now)}
        \cup (IF SnrIsLow(recent) THEN {<< "snr_degradation" >>} ELSE {})
        \cup {<< a >> : a \in VolumeAlert(Len(packets), Len(recent))}
        \cup {<< "repeater_disappeared", id >> : id \in LostRepeaters(nodes, now)}

-----------------------------------------------------------------------------
(* Topology.                                                               *)

\* The end a packet goes to is read from a field that clients of the API may
\* send; the decoder has another name for it.
HasLink(p) == p.sourceId # NULL /\ p.destinationId # NULL

Link(p) == {p.sourceId, p.destinationId}

\* Slip: a packet is counted at its source alone.
EndsFromSource(p, id) == IF p.sourceId = id THEN 1 ELSE 0

\* How often a packet counts for a node: once as its source, once as its
\* destination.
Ends(p, id) ==
  (IF p.sourceId = id THEN 1 ELSE 0) + (IF p.destinationId = id THEN 1 ELSE 0)

\* Undirected links weighted by their packets; nodes the registry does not
\* know are added.
getTopology(packets, nodes) ==
  LET linked == Where(packets, HasLink)
      links == {Link(linked[i]) : i \in DOMAIN linked}
      ids == FirstOf(DOMAIN nodes, NODE_LIMIT) \cup UNION links
  IN  [weight |-> [l \in links |-> Count(linked, LAMBDA p : Link(p) = l)],
       packetCount |-> [id \in ids |->
         Sum([i \in DOMAIN linked |-> Ends(linked[i], id)])]]

-----------------------------------------------------------------------------
(* Statistics and lists.                                                   *)

getStats(packets, nodes, observers, now) ==
  LET day == getPacketsSince(packets, now - DAY)
      active == Cardinality(getActive(nodes, FIVE_MINUTES, now))
  IN  [totalNodes |-> Cardinality(DOMAIN nodes), totalPackets24h |-> Len(day),
       activeObservers |-> Cardinality(getOnline(observers)),
       activeRepeaters |-> Cardinality(getRepeaters(nodes)),
       activeChannels |-> Cardinality({p.channel : p \in ToSet(day)} \ {NULL}),
       uptimePercent |-> IF DOMAIN nodes = {} THEN 0   \* in hundredths
                         ELSE Percent(100 * active, Cardinality(DOMAIN nodes))]

\* GET /api/repeaters with a filter.
listRepeaters(nodes, filter, now) ==
  CASE filter = "repeaters" -> getRepeaters(nodes)
    [] filter = "room_servers" -> getRoomServers(nodes)
    [] filter = "offline" ->
         {id \in getRepeaters(nodes) : nodes[id].lastSeen < now - FIVE_MINUTES}
    [] filter = "all" -> getRepeaters(nodes) \cup getRoomServers(nodes)

\* GET /api/nodes: the asked limit, kept between 1 and LIST_MAX.
listNodes(nodes, role, limit) ==
  LET ids == IF role = NULL THEN DOMAIN nodes ELSE WithRole(nodes, role)
      clamped == IF limit < 1 THEN 1 ELSE IF limit > LIST_MAX THEN LIST_MAX ELSE limit
  IN  FirstOf(ids, clamped)
=============================================================================
