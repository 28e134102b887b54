----------------------------- MODULE IngestProofs -----------------------------
(***************************************************************************)
(* Theorems about the ingest pipeline, for every set of nodes, names and   *)
(* observers, every size of the packet store and every bound.              *)
(***************************************************************************)
EXTENDS Ingest, SequenceTheorems, TLAPS

-----------------------------------------------------------------------------
(* What the handler's operators return.                                    *)

\* A record with all fields of the one it is merged over replaces it.
LEMMA MergedOver ==
  ASSUME NEW known, NEW record, DOMAIN known \subseteq DOMAIN record,
         record = [f \in DOMAIN record |-> record[f]]
  PROVE  Merged(known, record) = record
BY DEF Merged

LEMMA SameLength ==
  ASSUME NEW a \in Nat, NEW b \in Nat, 1 .. a = 1 .. b
  PROVE  a = b
<1>1. CASE a < b
  BY <1>1, b \in 1 .. b
<1>2. CASE b < a
  BY <1>2, a \in 1 .. a
<1> QED BY <1>1, <1>2

LEMMA RawFields ==
  ASSUME NEW raw \in Raw
  PROVE  /\ raw.source \in NodeId \cup {NULL} /\ raw.name \in Name \cup {NULL}
         /\ NamesNode(raw) => raw.source \in NodeId
BY DEF Raw, NamesNode

\* A packet was heard or posted, never both.
LEMMA PacketFields ==
  ASSUME NEW p \in Packet
  PROVE  /\ p.via = "mqtt" => p \in Heard /\ p.raw \in Raw /\ p.at \in 0 .. MaxClock
                             /\ p.observer \in Observer \cup {NULL}
         /\ p.via = "mqtt" \/ p.via = "post"
BY DEF Packet, Heard, Posted

\* The log after a packet came: it is first, and the others move up by one.
LEMMA PushedValues ==
  ASSUME NEW l \in Seq(Packet), Len(l) <= MaxSize, NEW p \in Packet
  PROVE  /\ Log!Pushed(p, l) \in Seq(Packet)
         /\ Len(Log!Pushed(p, l)) \in 1 .. MaxSize
         /\ Len(Log!Pushed(p, l)) <= Len(l) + 1
         /\ Log!Pushed(p, l)[1] = p
         /\ \A i \in 2 .. Len(Log!Pushed(p, l)) : Log!Pushed(p, l)[i] = l[i - 1]
<1> USE MaxSizeAssumption
<1> DEFINE n == IF Len(l) < MaxSize THEN Len(l) + 1 ELSE MaxSize
           m == Log!Pushed(p, l)
<1>1. Len(l) \in Nat /\ \A i \in 1 .. Len(l) : l[i] \in Packet
  BY ElementOfSeq, LenProperties
<1>2. n \in 1 .. MaxSize /\ n <= Len(l) + 1
  BY <1>1
<1>3. m = [i \in 1 .. n |-> IF i = 1 THEN p ELSE l[i - 1]]
  BY DEF Log!Pushed
<1>4. \A i \in 1 .. n : m[i] \in Packet
  BY <1>1, <1>2, <1>3
<1>5. m \in [1 .. n -> Packet]
  BY <1>3, <1>4
<1>6. m \in Seq(Packet)
  BY <1>2, <1>5, SeqDef
<1>7. Len(m) = n
  <2>1. DOMAIN m = 1 .. Len(m) /\ Len(m) \in Nat
    BY <1>6, LenProperties
  <2>2. DOMAIN m = 1 .. n /\ n \in Nat
    BY <1>2, <1>5
  <2> HIDE DEF m, n
  <2> QED BY <2>1, <2>2, SameLength
<1> QED BY <1>2, <1>3, <1>6, <1>7

\* A node is registered as its advert describes it.
LEMMA KnownAfterValue ==
  ASSUME TypeOK, NEW p \in Heard
  PROVE  KnownAfter(p) = IF NamesNode(p.raw)
                         THEN Put(nodes, p.raw.source, NodeFromAdvert(p)) ELSE nodes
<1>1. \A n \in DOMAIN nodes : Merged(nodes[n], NodeFromAdvert(p)) = NodeFromAdvert(p)
  BY MergedOver DEF TypeOK, NodeRecord, NodeFromAdvert
<1> QED BY <1>1 DEF KnownAfter, Upserted

\* An observer is registered as its status message describes it.
LEMMA StatusValue ==
  ASSUME TypeOK, NEW o \in Observer, NEW status \in Status, NEW reported \in 0 .. 1
  PROVE  LET data == [status |-> status, beat |-> clock, count |-> reported]
         IN  Upserted(observers, o, data) = Put(observers, o, data)
<1> DEFINE data == [status |-> status, beat |-> clock, count |-> reported]
<1>1. \A x \in DOMAIN observers : Merged(observers[x], data) = data
  <2> SUFFICES ASSUME NEW x \in DOMAIN observers PROVE Merged(observers[x], data) = data
    OBVIOUS
  <2>1. DOMAIN observers[x] \subseteq DOMAIN data
    BY DEF TypeOK, ObserverRecord
  <2> QED BY <2>1, MergedOver
<1> QED BY <1>1 DEF Upserted

\* Who is heard of is known, with the time of the packet; nothing else of
\* its record changes.
LEMMA HeardFromValue ==
  ASSUME TypeOK, NEW o \in Observer
  PROVE  LET r == IF o \in DOMAIN observers THEN Heartbeat(o)
                  ELSE [status |-> "online", beat |-> clock]
         IN  /\ HeardFrom(o) = Put(observers, o, r)
             /\ r \in ObserverRecord
             /\ r.beat = clock
             /\ r.status = IF o \in DOMAIN observers THEN observers[o].status ELSE "online"
             /\ o \in DOMAIN observers /\ "count" \in DOMAIN observers[o] =>
                  "count" \in DOMAIN r /\ r.count = observers[o].count
<1> DEFINE r == IF o \in DOMAIN observers THEN Heartbeat(o)
                ELSE [status |-> "online", beat |-> clock]
<1>1. HeardFrom(o) = Put(observers, o, r)
  BY IdAssumption DEF HeardFrom, Upserted
<1>2. clock \in 0 .. MaxClock
  BY DEF TypeOK
<1>3. CASE o \in DOMAIN observers
  <2>1. observers[o] \in ObserverRecord /\ r = [observers[o] EXCEPT !.beat = clock]
    BY <1>3 DEF TypeOK, Heartbeat
  <2>2. CASE observers[o] \in [status : Status, beat : 0 .. MaxClock]
    BY <1>1, <1>2, <1>3, <2>1, <2>2 DEF ObserverRecord
  <2>3. CASE observers[o] \in [status : Status, beat : 0 .. MaxClock, count : Nat]
    BY <1>1, <1>2, <1>3, <2>1, <2>3 DEF ObserverRecord
  <2> QED BY <2>1, <2>2, <2>3 DEF ObserverRecord
<1>4. CASE o \notin DOMAIN observers
  BY <1>1, <1>2, <1>4 DEF ObserverRecord, Status
<1> QED BY <1>3, <1>4

-----------------------------------------------------------------------------
(* The inductive invariant: the properties, and that nothing is later than *)
(* the clock and a status message leaves a count in memory.                *)

NothingIsLater ==
  /\ log \in Seq(Packet)
  /\ \A i \in 1 .. Len(log) : log[i].via = "mqtt" => log[i].at <= clock
  /\ \A o \in DOMAIN observers : observers[o].beat <= clock
  /\ \A o \in DOMAIN observerRows : observerRows[o].beat <= clock

SaidHasCount ==
  \A o \in Observer : said[o] # NULL =>
    o \in DOMAIN observers /\ "count" \in DOMAIN observers[o]

IInv ==
  /\ TypeOK /\ NothingIsLater /\ SaidHasCount
  /\ HeardIsKnown /\ NewestAdvertWins /\ NodeRowKeepsUp
  /\ StatusIsLastSaid /\ ObserverRowKeepsUp

LEMMA InitInv == Init => IInv
<1> SUFFICES ASSUME Init PROVE IInv
  OBVIOUS
<1> USE MaxSizeAssumption, BoundsAssumption DEF Init, Empty
<1>1. log \in Seq(Packet) /\ Len(log) = 0 /\ DOMAIN log = {}
  BY EmptySeq
<1>2. TypeOK /\ NothingIsLater
  BY <1>1 DEF TypeOK, NothingIsLater
<1>3. SaidHasCount /\ HeardIsKnown /\ NewestAdvertWins
  BY <1>1 DEF SaidHasCount, HeardIsKnown, NewestAdvertWins
<1>4. NodeRowKeepsUp /\ StatusIsLastSaid /\ ObserverRowKeepsUp
  BY DEF NodeRowKeepsUp, StatusIsLastSaid, ObserverRowKeepsUp
<1> QED BY <1>2, <1>3, <1>4 DEF IInv

-----------------------------------------------------------------------------
(* A packet.                                                               *)

LEMMA PacketKeeps ==
  ASSUME IInv, NEW o \in Observer \cup {NULL}, NEW raw \in Raw, NEW written \in BOOLEAN,
         HandlePacket(o, raw, written)
  PROVE  IInv'
<1> USE MaxSizeAssumption, IdAssumption
<1> DEFINE p == [via |-> "mqtt", raw |-> raw, observer |-> o, at |-> clock]
           s == raw.source
           ad == NamesNode(raw)
<1>t. /\ clock \in 0 .. MaxClock /\ clock' = clock
      /\ said' = said /\ observerRows' = observerRows
      /\ TypeOK /\ log \in Seq(Packet) /\ Len(log) <= MaxSize /\ Len(log) \in Nat
  BY LenProperties DEF IInv, TypeOK, NothingIsLater, HandlePacket
<1>p. /\ p \in Packet /\ p \in Heard
      /\ p.via = "mqtt" /\ p.raw = raw /\ p.observer = o /\ p.at = clock
      /\ raw.name \in Name \cup {NULL} /\ ad \in BOOLEAN
      /\ ad => s \in NodeId
  BY <1>t, RawFields DEF Packet, Heard, NamesNode
<1>l. /\ log' \in Seq(Packet) /\ Len(log') \in 1 .. MaxSize /\ Len(log') <= Len(log) + 1
      /\ log'[1] = p
      /\ \A i \in 2 .. Len(log') : i - 1 \in 1 .. Len(log) /\ log'[i] = log[i - 1]
      /\ DOMAIN log' = 1 .. Len(log') /\ DOMAIN log = 1 .. Len(log)
  <2>1. log' = Log!Pushed(p, log)
    BY DEF HandlePacket
  <2>2. p \in Packet
    BY <1>p
  <2> HIDE DEF p
  <2>3. log' \in Seq(Packet) /\ Len(log') \in 1 .. MaxSize /\ Len(log') <= Len(log) + 1
        /\ log'[1] = p /\ \A i \in 2 .. Len(log') : log'[i] = log[i - 1]
    BY <1>t, <2>1, <2>2, PushedValues
  <2> QED BY <1>t, <2>3, LenProperties
<1>n. /\ ~ad => nodes' = nodes
      /\ ad => /\ DOMAIN nodes' = DOMAIN nodes \cup {s}
               /\ nodes'[s] = [name |-> raw.name, lastSeen |-> clock]
               /\ \A x \in DOMAIN nodes : x # s => nodes'[x] = nodes[x]
  <2>1. nodes' = KnownAfter(p)
    BY DEF HandlePacket
  <2>2. NodeFromAdvert(p) = [name |-> raw.name, lastSeen |-> clock]
    BY DEF NodeFromAdvert
  <2>3. p.raw.source = s /\ (NamesNode(p.raw) <=> ad)
    OBVIOUS
  <2> HIDE DEF p, s, ad
  <2>4. KnownAfter(p) = IF ad THEN Put(nodes, s, NodeFromAdvert(p)) ELSE nodes
    BY <1>t, <1>p, <2>3, KnownAfterValue
  <2>5. /\ DOMAIN Put(nodes, s, NodeFromAdvert(p)) = DOMAIN nodes \cup {s}
        /\ Put(nodes, s, NodeFromAdvert(p))[s] = NodeFromAdvert(p)
        /\ \A x \in DOMAIN nodes : x # s => Put(nodes, s, NodeFromAdvert(p))[x] = nodes[x]
    BY DEF Put
  <2> QED BY <2>1, <2>2, <2>4, <2>5
<1>o. /\ o = NULL => observers' = observers
      /\ o # NULL =>
           /\ o \in Observer
           /\ DOMAIN observers' = DOMAIN observers \cup {o}
           /\ observers'[o] \in ObserverRecord
           /\ observers'[o].beat = clock
           /\ observers'[o].status = IF o \in DOMAIN observers
                                     THEN observers[o].status ELSE "online"
           /\ o \in DOMAIN observers /\ "count" \in DOMAIN observers[o] =>
                "count" \in DOMAIN observers'[o] /\ observers'[o].count = observers[o].count
           /\ \A x \in DOMAIN observers : x # o => observers'[x] = observers[x]
  <2>1. observers' = HeardFrom(o)
    BY DEF HandlePacket
  <2>2. CASE o = NULL
    BY <2>1, <2>2 DEF HeardFrom
  <2>3. CASE o # NULL
    <3> DEFINE r == IF o \in DOMAIN observers THEN Heartbeat(o)
                    ELSE [status |-> "online", beat |-> clock]
    <3>1. o \in Observer
      BY <2>3
    <3>2. /\ HeardFrom(o) = Put(observers, o, r)
          /\ r \in ObserverRecord
          /\ r.beat = clock
          /\ r.status = IF o \in DOMAIN observers THEN observers[o].status ELSE "online"
          /\ o \in DOMAIN observers /\ "count" \in DOMAIN observers[o] =>
               "count" \in DOMAIN r /\ r.count = observers[o].count
      BY <1>t, <3>1, HeardFromValue
    <3> HIDE DEF r
    <3>3. /\ DOMAIN Put(observers, o, r) = DOMAIN observers \cup {o}
          /\ Put(observers, o, r)[o] = r
          /\ \A x \in DOMAIN observers : x # o => Put(observers, o, r)[x] = observers[x]
      BY DEF Put
    <3> QED BY <2>1, <2>3, <3>1, <3>2, <3>3
  <2> QED BY <2>2, <2>3
<1>r. /\ ~ad \/ ~written => nodeRows' = nodeRows
      /\ ad /\ written =>
           /\ DOMAIN nodeRows' = DOMAIN nodeRows \cup {s}
           /\ nodeRows'[s] \in NodeRecord
           /\ nodeRows'[s].lastSeen = clock
           /\ raw.name # NULL => nodeRows'[s].name = raw.name
           /\ \A x \in DOMAIN nodeRows : x # s => nodeRows'[x] = nodeRows[x]
  <2> DEFINE row == NodeRowAfter(s, NodeFromAdvert(p))
  <2>1. nodeRows' = IF ad /\ written THEN Put(nodeRows, s, row) ELSE nodeRows
    BY <1>p DEF HandlePacket
  <2>2. /\ row \in NodeRecord /\ row.lastSeen = clock
        /\ raw.name # NULL => row.name = raw.name
    <3>1. CASE s \in DOMAIN nodeRows
      <4>1. nodeRows[s].name \in Name \cup {NULL}
        BY <1>t, <3>1 DEF TypeOK, NodeRecord
      <4>2. row = [name |-> Coalesce(raw.name, nodeRows[s].name), lastSeen |-> clock]
        BY <1>p, <3>1 DEF NodeRowAfter, NodeFromAdvert
      <4> QED BY <1>p, <1>t, <4>1, <4>2 DEF Coalesce, NodeRecord
    <3>2. CASE s \notin DOMAIN nodeRows
      BY <1>p, <1>t, <3>2 DEF NodeRowAfter, NodeFromAdvert, NodeRecord
    <3> QED BY <3>1, <3>2
  <2> HIDE DEF row, s, ad
  <2>3. /\ DOMAIN Put(nodeRows, s, row) = DOMAIN nodeRows \cup {s}
        /\ Put(nodeRows, s, row)[s] = row
        /\ \A x \in DOMAIN nodeRows : x # s => Put(nodeRows, s, row)[x] = nodeRows[x]
    BY DEF Put
  <2> QED BY <2>1, <2>2, <2>3
<1>g. /\ ~ad => lagging' = lagging
      /\ ad /\ written => lagging' = lagging \ {s}
      /\ ad /\ ~written => lagging' = lagging \cup {s}
      /\ packetRows' = packetRows \/ packetRows' = packetRows \cup {p}
      /\ published' = [event |-> "packet", data |-> p]
  BY <1>p DEF HandlePacket
<1> HIDE DEF p, s, ad
<1>1. TypeOK'
  <2>1. \A i \in DOMAIN log' : log'[i] \in Packet
    BY <1>l, ElementOfSeq
  <2>2. DOMAIN nodes' \subseteq NodeId /\ \A n \in DOMAIN nodes' : nodes'[n] \in NodeRecord
    BY <1>t, <1>p, <1>n DEF TypeOK, NodeRecord
  <2>3. DOMAIN nodeRows' \subseteq NodeId /\ \A n \in DOMAIN nodeRows' : nodeRows'[n] \in NodeRecord
    BY <1>t, <1>p, <1>r DEF TypeOK
  <2>4. DOMAIN observers' \subseteq Observer
        /\ \A x \in DOMAIN observers' : observers'[x] \in ObserverRecord
    BY <1>t, <1>o DEF TypeOK
  <2>5. /\ packetRows' \subseteq Packet /\ lagging' \subseteq NodeId \cup Observer
        /\ published' \in Event \cup {NULL}
    BY <1>t, <1>p, <1>g DEF TypeOK, Event
  <2> QED BY <1>t, <1>l, <2>1, <2>2, <2>3, <2>4, <2>5 DEF TypeOK
<1>2. NothingIsLater'
  <2>1. \A i \in 1 .. Len(log') : log'[i].via = "mqtt" => log'[i].at <= clock
    <3>1. \A i \in 1 .. Len(log') : i = 1 \/ i \in 2 .. Len(log')
      BY <1>l
    <3> QED BY <1>t, <1>p, <1>l, <3>1 DEF IInv, NothingIsLater
  <2>2. \A x \in DOMAIN observers' : observers'[x].beat <= clock
    BY <1>t, <1>o DEF IInv, NothingIsLater
  <2> QED BY <1>t, <1>l, <2>1, <2>2 DEF IInv, NothingIsLater
<1>3. SaidHasCount'
  BY <1>t, <1>o DEF IInv, SaidHasCount
<1>4. HeardIsKnown'
  <2> SUFFICES ASSUME NEW i \in 1 .. Len(log'), log'[i].via = "mqtt"
               PROVE  /\ log'[i].observer # NULL =>
                           /\ log'[i].observer \in DOMAIN observers'
                           /\ observers'[log'[i].observer].beat >= log'[i].at
                      /\ NamesNode(log'[i].raw) =>
                           /\ log'[i].raw.source \in DOMAIN nodes'
                           /\ nodes'[log'[i].raw.source].lastSeen >= log'[i].at
    BY <1>l DEF HeardIsKnown
  <2>1. CASE i = 1
    <3>1. log'[i].observer = o /\ log'[i].at = clock /\ log'[i].raw = raw
      BY <1>l, <1>p, <2>1
    <3> QED BY <1>o, <1>n, <1>t, <3>1 DEF s, ad
  <2>2. CASE i # 1
    <3> DEFINE q == log[i - 1]
    <3>1. i - 1 \in DOMAIN log /\ log'[i] = q /\ q \in Packet
      BY <1>l, <1>t, <2>2, ElementOfSeq
    <3>2. q.at \in 0 .. MaxClock /\ q.at <= clock /\ q.via = "mqtt"
      BY <1>l, <3>1, PacketFields DEF IInv, NothingIsLater
    <3>3. /\ q.observer # NULL =>
               q.observer \in DOMAIN observers /\ observers[q.observer].beat >= q.at
          /\ NamesNode(q.raw) =>
               q.raw.source \in DOMAIN nodes /\ nodes[q.raw.source].lastSeen >= q.at
      BY <3>1, <3>2 DEF IInv, HeardIsKnown
    <3> HIDE DEF q
    <3>4. q.observer # NULL =>
            q.observer \in DOMAIN observers' /\ observers'[q.observer].beat >= q.at
      BY <1>t, <1>o, <3>2, <3>3
    <3>5. NamesNode(q.raw) =>
            q.raw.source \in DOMAIN nodes' /\ nodes'[q.raw.source].lastSeen >= q.at
      BY <1>t, <1>n, <3>2, <3>3
    <3> QED BY <3>1, <3>4, <3>5
  <2> QED BY <2>1, <2>2
<1>5. NewestAdvertWins'
  <2> SUFFICES ASSUME NEW i \in 1 .. Len(log'), NEW n \in NodeId, IsAdvertOf(log'[i], n),
                      \A j \in 1 .. i - 1 : ~IsAdvertOf(log'[j], n)
               PROVE  nodes'[n] = NodeFromAdvert(log'[i])
    BY <1>l DEF NewestAdvertWins
  <2>1. CASE i = 1
    BY <1>l, <1>p, <1>n, <2>1 DEF NodeFromAdvert, IsAdvertOf, s, ad
  <2>2. CASE i # 1
    <3>1. i - 1 \in 1 .. Len(log) /\ log'[i] = log[i - 1] /\ 1 \in 1 .. i - 1
      BY <1>l, <2>2
    <3>2. ~(ad /\ s = n)
      BY <1>l, <1>p, <3>1 DEF s, ad, IsAdvertOf
    <3>3. \A j \in 1 .. (i - 1) - 1 : ~IsAdvertOf(log[j], n)
      <4> SUFFICES ASSUME NEW j \in 1 .. (i - 1) - 1
                   PROVE  ~IsAdvertOf(log[j], n)
        OBVIOUS
      <4>1. j + 1 \in 1 .. i - 1 /\ j + 1 \in 2 .. Len(log') /\ (j + 1) - 1 = j
        BY <1>l
      <4> QED BY <1>l, <4>1
    <3>4. nodes[n] = NodeFromAdvert(log[i - 1])
      BY <1>l, <3>1, <3>3 DEF IInv, NewestAdvertWins
    <3>5. n \in DOMAIN nodes
      BY <1>l, <3>1 DEF IInv, HeardIsKnown, IsAdvertOf
    <3> QED BY <1>n, <3>1, <3>2, <3>4, <3>5
  <2> QED BY <2>1, <2>2
<1>6. NodeRowKeepsUp'
  <2> SUFFICES ASSUME NEW n \in DOMAIN nodes', n \notin lagging'
               PROVE  /\ n \in DOMAIN nodeRows'
                      /\ nodeRows'[n].lastSeen = nodes'[n].lastSeen
                      /\ nodes'[n].name # NULL => nodeRows'[n].name = nodes'[n].name
    BY DEF NodeRowKeepsUp
  <2>1. CASE n = s /\ ad
    BY <1>n, <1>r, <1>g, <2>1
  <2>2. CASE ~(n = s /\ ad)
    <3>1. n \in DOMAIN nodes \ lagging /\ nodes'[n] = nodes[n]
      BY <1>n, <1>g, <2>2
    <3>2. n \in DOMAIN nodeRows
      BY <3>1 DEF IInv, NodeRowKeepsUp
    <3>3. n \in DOMAIN nodeRows' /\ nodeRows'[n] = nodeRows[n]
      BY <1>r, <2>2, <3>2
    <3> QED BY <3>1, <3>3 DEF IInv, NodeRowKeepsUp
  <2> QED BY <2>1, <2>2
<1>7. StatusIsLastSaid'
  BY <1>t, <1>o DEF IInv, StatusIsLastSaid
<1>8. ObserverRowKeepsUp'
  <2> SUFFICES ASSUME NEW x \in Observer, x \notin lagging', said[x] # NULL
               PROVE  /\ x \in DOMAIN observerRows
                      /\ observerRows[x].status = observers'[x].status
                      /\ observerRows[x].beat <= observers'[x].beat
                      /\ observerRows[x].count >= observers'[x].count
    BY <1>t DEF ObserverRowKeepsUp
  <2>1. x \notin lagging
    BY <1>g, <1>p
  <2>2. /\ x \in DOMAIN observerRows
        /\ observerRows[x].status = observers[x].status
        /\ observerRows[x].beat <= observers[x].beat
        /\ observerRows[x].count >= observers[x].count
        /\ observerRows[x].beat <= clock
        /\ x \in DOMAIN observers /\ "count" \in DOMAIN observers[x]
    BY <2>1 DEF IInv, ObserverRowKeepsUp, SaidHasCount, NothingIsLater
  <2> QED BY <1>o, <2>2
<1> QED BY <1>1, <1>2, <1>3, <1>4, <1>5, <1>6, <1>7, <1>8 DEF IInv

-----------------------------------------------------------------------------
(* The other steps.                                                        *)

\* A status message: registry and row of its observer change together.
LEMMA StatusKeeps ==
  ASSUME IInv, NEW o \in Observer, NEW status \in Status, NEW reported \in 0 .. 1,
         NEW written \in BOOLEAN, HandleStatus(o, status, reported, written)
  PROVE  IInv'
<1> USE IdAssumption
<1> DEFINE data == [status |-> status, beat |-> clock, count |-> reported]
           row == ObserverRowAfter(o, status, reported)
<1>t. /\ TypeOK /\ clock \in 0 .. MaxClock
      /\ UNCHANGED << clock, log, nodes, packetRows, nodeRows >>
  BY DEF IInv, TypeOK, HandleStatus
<1>o. /\ DOMAIN observers' = DOMAIN observers \cup {o}
      /\ observers'[o] = data
      /\ \A x \in DOMAIN observers : x # o => observers'[x] = observers[x]
  <2>1. observers' = Upserted(observers, o, data)
    BY DEF HandleStatus
  <2>2. Upserted(observers, o, data) = Put(observers, o, data)
    BY <1>t, StatusValue
  <2> HIDE DEF data
  <2> QED BY <2>1, <2>2 DEF Put
<1>r. /\ ~written => observerRows' = observerRows
      /\ written => /\ DOMAIN observerRows' = DOMAIN observerRows \cup {o}
                    /\ observerRows'[o] = row
                    /\ \A x \in DOMAIN observerRows : x # o => observerRows'[x] = observerRows[x]
  <2>1. observerRows' = IF written THEN Put(observerRows, o, row) ELSE observerRows
    BY DEF HandleStatus
  <2> HIDE DEF row
  <2> QED BY <2>1 DEF Put
<1>w. /\ row \in [status : Status, beat : 0 .. MaxClock, count : Nat]
      /\ row.status = status /\ row.beat = clock /\ row.count >= reported
  <2>1. o \in DOMAIN observerRows => observerRows[o].count \in Nat
    BY <1>t DEF TypeOK
  <2> QED BY <1>t, <2>1 DEF ObserverRowAfter
<1>g. /\ said' = [said EXCEPT ![o] = status]
      /\ lagging' = IF written THEN lagging \ {o} ELSE lagging \cup {o}
      /\ published' = [event |-> "observer_status", id |-> o, data |-> data]
  BY DEF HandleStatus
<1>d. /\ data \in ObserverRecord /\ data.status = status /\ data.beat = clock
      /\ data.count = reported /\ "count" \in DOMAIN data
  BY <1>t DEF ObserverRecord
<1> HIDE DEF data, row
<1>1. TypeOK'
  <2>1. DOMAIN observers' \subseteq Observer
        /\ \A x \in DOMAIN observers' : observers'[x] \in ObserverRecord
    BY <1>t, <1>o, <1>d DEF TypeOK
  <2>2. /\ DOMAIN observerRows' \subseteq Observer
        /\ \A x \in DOMAIN observerRows' :
             observerRows'[x] \in [status : Status, beat : 0 .. MaxClock, count : Nat]
    BY <1>t, <1>r, <1>w DEF TypeOK
  <2>3. said' \in [Observer -> Status \cup {NULL}] /\ lagging' \subseteq NodeId \cup Observer
    BY <1>t, <1>g DEF TypeOK
  <2>4. published' \in Event
    BY <1>t, <1>g DEF Event, data
  <2> QED BY <1>t, <2>1, <2>2, <2>3, <2>4 DEF TypeOK
<1>2. NothingIsLater'
  BY <1>t, <1>o, <1>r, <1>w, <1>d DEF IInv, NothingIsLater
<1>3. SaidHasCount'
  BY <1>t, <1>o, <1>d, <1>g DEF IInv, SaidHasCount, TypeOK
<1>4. HeardIsKnown'
  <2> SUFFICES ASSUME NEW i \in DOMAIN log, log[i].via = "mqtt"
               PROVE  /\ log[i].observer # NULL =>
                           /\ log[i].observer \in DOMAIN observers'
                           /\ observers'[log[i].observer].beat >= log[i].at
                      /\ NamesNode(log[i].raw) =>
                           /\ log[i].raw.source \in DOMAIN nodes
                           /\ nodes[log[i].raw.source].lastSeen >= log[i].at
    BY <1>t DEF HeardIsKnown
  <2>1. log[i].at \in 0 .. MaxClock /\ log[i].at <= clock
    BY <1>t, PacketFields DEF IInv, NothingIsLater, TypeOK
  <2>2. /\ log[i].observer # NULL =>
             /\ log[i].observer \in DOMAIN observers
             /\ observers[log[i].observer].beat >= log[i].at
        /\ NamesNode(log[i].raw) =>
             /\ log[i].raw.source \in DOMAIN nodes
             /\ nodes[log[i].raw.source].lastSeen >= log[i].at
    BY DEF IInv, HeardIsKnown
  <2> QED BY <1>t, <1>o, <1>d, <2>1, <2>2
<1>5. NewestAdvertWins'
  BY <1>t DEF IInv, NewestAdvertWins, NodeFromAdvert
<1>6. NodeRowKeepsUp'
  <2>1. \A n \in DOMAIN nodes \ lagging' : n \in DOMAIN nodes \ lagging
    BY <1>t, <1>g DEF TypeOK
  <2> QED BY <1>t, <2>1 DEF IInv, NodeRowKeepsUp
<1>7. StatusIsLastSaid'
  <2> SUFFICES ASSUME NEW x \in Observer
               PROVE  /\ x \in DOMAIN observers' =>
                           observers'[x].status = IF said'[x] = NULL THEN "online" ELSE said'[x]
                      /\ said'[x] # NULL => x \in DOMAIN observers'
    BY DEF StatusIsLastSaid
  <2>1. CASE x = o
    BY <1>t, <1>o, <1>d, <1>g, <2>1 DEF TypeOK
  <2>2. CASE x # o
    BY <1>t, <1>o, <1>g, <2>2 DEF TypeOK, IInv, StatusIsLastSaid
  <2> QED BY <2>1, <2>2
<1>8. ObserverRowKeepsUp'
  <2> SUFFICES ASSUME NEW x \in Observer, x \notin lagging', said'[x] # NULL
               PROVE  /\ x \in DOMAIN observerRows'
                      /\ observerRows'[x].status = observers'[x].status
                      /\ observerRows'[x].beat <= observers'[x].beat
                      /\ observerRows'[x].count >= observers'[x].count
    BY DEF ObserverRowKeepsUp
  <2>1. CASE x = o
    BY <1>t, <1>o, <1>r, <1>w, <1>d, <1>g, <2>1
  <2>2. CASE x # o
    <3>1. x \notin lagging /\ said[x] # NULL
      BY <1>t, <1>g, <2>2 DEF TypeOK
    <3>2. /\ x \in DOMAIN observerRows /\ x \in DOMAIN observers
          /\ observerRows[x].status = observers[x].status
          /\ observerRows[x].beat <= observers[x].beat
          /\ observerRows[x].count >= observers[x].count
      BY <3>1 DEF IInv, ObserverRowKeepsUp, SaidHasCount
    <3> QED BY <1>o, <1>r, <2>2, <3>2
  <2> QED BY <2>1, <2>2
<1> QED BY <1>1, <1>2, <1>3, <1>4, <1>5, <1>6, <1>7, <1>8 DEF IInv

\* A posted packet moves the others up and evicts the oldest one.
LEMMA PostKeeps ==
  ASSUME IInv, NEW body \in Body, Post(body)
  PROVE  IInv'
<1> USE MaxSizeAssumption
<1> DEFINE p == [via |-> "post", body |-> body]
<1>t. /\ TypeOK /\ log \in Seq(Packet) /\ Len(log) <= MaxSize /\ Len(log) \in Nat
      /\ DOMAIN log = 1 .. Len(log)
      /\ UNCHANGED << clock, nodes, observers, tables, published, said, lagging >>
  BY LenProperties DEF IInv, TypeOK, NothingIsLater, Post
<1>p. p \in Packet /\ p.via = "post"
  BY DEF Packet, Posted
<1>l. /\ log' \in Seq(Packet) /\ Len(log') \in 1 .. MaxSize /\ log'[1] = p
      /\ \A i \in 2 .. Len(log') : i - 1 \in 1 .. Len(log) /\ log'[i] = log[i - 1]
      /\ DOMAIN log' = 1 .. Len(log')
  <2>1. log' = Log!Pushed(p, log)
    BY DEF Post
  <2> HIDE DEF p
  <2>2. log' \in Seq(Packet) /\ Len(log') \in 1 .. MaxSize /\ Len(log') <= Len(log) + 1
        /\ log'[1] = p /\ \A i \in 2 .. Len(log') : log'[i] = log[i - 1]
    BY <1>t, <1>p, <2>1, PushedValues
  <2> QED BY <1>t, <2>2, LenProperties
\* Whatever was heard and is listed now was listed before, one place earlier.
<1>h. \A i \in 1 .. Len(log') : log'[i].via = "mqtt" =>
        i - 1 \in 1 .. Len(log) /\ log'[i] = log[i - 1]
  <2>1. \A i \in 1 .. Len(log') : i = 1 \/ i \in 2 .. Len(log')
    BY <1>l
  <2> QED BY <1>l, <1>p, <2>1
<1> HIDE DEF p
<1> USE DEF tables
<1>1. TypeOK'
  <2>1. \A i \in DOMAIN log' : log'[i] \in Packet
    BY <1>l, ElementOfSeq
  <2> QED BY <1>t, <1>l, <2>1 DEF TypeOK
<1>2. NothingIsLater'
  BY <1>t, <1>l, <1>h DEF IInv, NothingIsLater
<1>3. SaidHasCount' /\ NodeRowKeepsUp' /\ StatusIsLastSaid' /\ ObserverRowKeepsUp'
  BY <1>t DEF IInv, SaidHasCount, NodeRowKeepsUp, StatusIsLastSaid, ObserverRowKeepsUp
<1>4. HeardIsKnown'
  BY <1>t, <1>l, <1>h DEF IInv, HeardIsKnown
<1>5. NewestAdvertWins'
  <2> SUFFICES ASSUME NEW i \in 1 .. Len(log'), NEW n \in NodeId, IsAdvertOf(log'[i], n),
                      \A j \in 1 .. i - 1 : ~IsAdvertOf(log'[j], n)
               PROVE  nodes[n] = NodeFromAdvert(log'[i])
    BY <1>t, <1>l DEF NewestAdvertWins, NodeFromAdvert
  <2>1. i - 1 \in 1 .. Len(log) /\ log'[i] = log[i - 1]
    BY <1>h DEF IsAdvertOf
  <2>2. \A j \in 1 .. (i - 1) - 1 : ~IsAdvertOf(log[j], n)
    <3> SUFFICES ASSUME NEW j \in 1 .. (i - 1) - 1
                 PROVE  ~IsAdvertOf(log[j], n)
      OBVIOUS
    <3>1. j + 1 \in 1 .. i - 1 /\ j + 1 \in 2 .. Len(log') /\ (j + 1) - 1 = j
      BY <1>l
    <3> QED BY <1>l, <3>1
  <2> QED BY <1>t, <2>1, <2>2 DEF IInv, NewestAdvertWins
<1> QED BY <1>1, <1>2, <1>3, <1>4, <1>5 DEF IInv

\* A boot finds the rows and knows nobody.
LEMMA RestartKeeps ==
  ASSUME IInv, Restart
  PROVE  IInv'
<1> USE MaxSizeAssumption, IdAssumption DEF Restart, Empty, tables
<1>1. log' \in Seq(Packet) /\ Len(log') = 0 /\ DOMAIN log' = {}
  BY EmptySeq
<1>2. TypeOK'
  BY <1>1 DEF IInv, TypeOK
<1>3. NothingIsLater'
  BY <1>1 DEF IInv, NothingIsLater
<1>4. SaidHasCount' /\ HeardIsKnown' /\ NewestAdvertWins' /\ NodeRowKeepsUp'
  BY <1>1 DEF SaidHasCount, HeardIsKnown, NewestAdvertWins, NodeRowKeepsUp
<1>5. StatusIsLastSaid' /\ ObserverRowKeepsUp'
  BY DEF StatusIsLastSaid, ObserverRowKeepsUp
<1> QED BY <1>2, <1>3, <1>4, <1>5 DEF IInv

\* Time passes, or nothing happens.
LEMMA TickKeeps ==
  ASSUME IInv, Tick \/ UNCHANGED vars
  PROVE  IInv'
<1> USE DEF IInv
<1>1. /\ clock \in 0 .. MaxClock /\ clock' \in 0 .. MaxClock /\ clock <= clock'
      /\ UNCHANGED << log, nodes, observers, tables, published, said, lagging >>
  BY BoundsAssumption DEF Tick, vars, memory, tables, TypeOK
<1> USE DEF tables
<1>2. TypeOK'
  BY <1>1 DEF TypeOK
<1>3. NothingIsLater'
  <2>1. \A i \in 1 .. Len(log) : log[i].via = "mqtt" => log[i].at \in 0 .. MaxClock
    BY PacketFields DEF TypeOK
  <2>2. /\ \A o \in DOMAIN observers : observers[o].beat \in 0 .. MaxClock
        /\ \A o \in DOMAIN observerRows : observerRows[o].beat \in 0 .. MaxClock
    BY DEF TypeOK, ObserverRecord
  <2> QED BY <1>1, <2>1, <2>2 DEF NothingIsLater
<1>4. SaidHasCount' /\ HeardIsKnown' /\ NewestAdvertWins' /\ NodeRowKeepsUp'
  BY <1>1 DEF SaidHasCount, HeardIsKnown, NewestAdvertWins, NodeRowKeepsUp, NodeFromAdvert
<1>5. StatusIsLastSaid' /\ ObserverRowKeepsUp'
  BY <1>1 DEF StatusIsLastSaid, ObserverRowKeepsUp
<1> QED BY <1>2, <1>3, <1>4, <1>5

LEMMA Invariant == Spec => []IInv
<1>1. IInv /\ [Next]_vars => IInv'
  BY PacketKeeps, StatusKeeps, PostKeeps, RestartKeeps, TickKeeps DEF Next
<1> QED BY InitInv, <1>1, PTL DEF Spec

-----------------------------------------------------------------------------
(* The theorems.                                                           *)

\* Stores, registries and tables keep their types (handler.js, stores/).
THEOREM TypesAreKept == Spec => []TypeOK
<1>1. IInv => TypeOK
  BY DEF IInv
<1> QED BY <1>1, Invariant, PTL

\* The registries know the observer of every packet that was heard and is
\* listed, and the node of every such advert, as of the packet's time or later.
THEOREM RegistriesKnowTheHeard == Spec => []HeardIsKnown
<1>1. IInv => HeardIsKnown
  BY DEF IInv
<1> QED BY <1>1, Invariant, PTL

\* A node is shown as the last listed advert that arrived describes it.
THEOREM NodesFollowNewestAdvert == Spec => []NewestAdvertWins
<1>1. IInv => NewestAdvertWins
  BY DEF IInv
<1> QED BY <1>1, Invariant, PTL

\* The rows of nodes keep up with the registry, but for failed writes and
\* forgotten names (upsertNode).
THEOREM NodeRowsKeepUp == Spec => []NodeRowKeepsUp
<1>1. IInv => NodeRowKeepsUp
  BY DEF IInv
<1> QED BY <1>1, Invariant, PTL

\* Only its own status messages decide whether an observer is online.
THEOREM OnlyStatusDecides == Spec => []StatusIsLastSaid
<1>1. IInv => StatusIsLastSaid
  BY DEF IInv
<1> QED BY <1>1, Invariant, PTL

\* The rows of observers agree with the registry on the status and are
\* behind on heartbeats only (upsertObserver).
THEOREM ObserverRowsKeepUp == Spec => []ObserverRowKeepsUp
<1>1. IInv => ObserverRowKeepsUp
  BY DEF IInv
<1> QED BY <1>1, Invariant, PTL
=============================================================================
