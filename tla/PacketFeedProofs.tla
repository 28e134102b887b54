--------------------------- MODULE PacketFeedProofs ---------------------------
(***************************************************************************)
(* Theorems about the packet page, for every size of the server's log and  *)
(* of a page, any number of packets, mounts and requests under way.        *)
(***************************************************************************)
EXTENDS PacketFeed, SequenceTheorems, TLAPS

-----------------------------------------------------------------------------
(* What the operators of the server and the page return.                   *)

Packets == 1 .. MaxPackets

\* A list of packets: its length, its places and what is at them.
LEMMA ListFacts ==
  ASSUME NEW s \in Numbers
  PROVE  /\ Len(s) \in Nat /\ DOMAIN s = 1 .. Len(s)
         /\ \A i \in 1 .. Len(s) : s[i] \in Packets
         /\ s # << >> <=> Len(s) > 0
<1>1. Len(s) \in Nat /\ DOMAIN s = 1 .. Len(s)
  BY LenProperties DEF Numbers
<1>2. \A i \in 1 .. Len(s) : s[i] \in Packets
  BY ElementOfSeq DEF Numbers, Packets
<1>3. s # << >> <=> Len(s) > 0
  BY <1>1, EmptySeq DEF Numbers
<1> QED BY <1>1, <1>2, <1>3

\* Sequences with the same places are equally long.
LEMMA SameLength ==
  ASSUME NEW a \in Nat, NEW b \in Nat, 1 .. a = 1 .. b
  PROVE  a = b
<1>1. CASE a < b
  BY <1>1, b \in 1 .. b
<1>2. CASE b < a
  BY <1>2, a \in 1 .. a
<1> QED BY <1>1, <1>2

\* The log after a packet came: it is first, the others move up by one, and
\* at most the last one is gone.
LEMMA PushedList ==
  ASSUME NEW l \in Numbers, Len(l) <= MaxSize, NEW p \in Packets
  PROVE  /\ Log!Pushed(p, l) \in Numbers
         /\ Len(Log!Pushed(p, l)) \in 1 .. MaxSize
         /\ Len(Log!Pushed(p, l)) <= Len(l) + 1
         /\ Log!Pushed(p, l)[1] = p
         /\ \A i \in 2 .. Len(Log!Pushed(p, l)) : Log!Pushed(p, l)[i] = l[i - 1]
<1> USE BoundsAssumption
<1> DEFINE n == IF Len(l) < MaxSize THEN Len(l) + 1 ELSE MaxSize
           m == Log!Pushed(p, l)
<1>1. Len(l) \in Nat /\ \A i \in 1 .. Len(l) : l[i] \in Packets
  BY ListFacts
<1>2. n \in 1 .. MaxSize /\ n <= Len(l) + 1
  BY <1>1
<1>3. m = [i \in 1 .. n |-> IF i = 1 THEN p ELSE l[i - 1]]
  BY DEF Log!Pushed
<1>4. \A i \in 1 .. n : m[i] \in Packets
  BY <1>1, <1>2, <1>3
<1>5. m \in [1 .. n -> Packets]
  BY <1>3, <1>4
<1>6. m \in Numbers
  <2> HIDE DEF m, n
  <2>1. n \in Nat
    BY <1>2
  <2> QED BY <1>5, <2>1, SeqDef DEF Numbers, Packets
<1>7. Len(m) = n
  BY <1>2, <1>3, <1>6, ListFacts, SameLength
<1> QED BY <1>1, <1>2, <1>3, <1>6, <1>7

\* The slice at an offset: at most a page, in the order of the log; shorter
\* than a page only where the log ends.
LEMMA SliceList ==
  ASSUME log \in Numbers, NEW offset \in Nat
  PROVE  /\ Slice(offset) \in Numbers
         /\ Len(Slice(offset)) <= PageSize
         /\ \A j \in 1 .. Len(Slice(offset)) :
              /\ offset + j \in 1 .. Len(log)
              /\ Slice(offset)[j] = log[offset + j]
         /\ Len(Slice(offset)) \in 1 .. PageSize - 1 =>
              offset + Len(Slice(offset)) = Len(log)
<1> USE PageSizeAssumption
<1> DEFINE last == IF offset + PageSize < Len(log) THEN offset + PageSize ELSE Len(log)
           m == SubSeq(log, offset + 1, last)
<1>1. Len(log) \in Nat /\ \A i \in 1 .. Len(log) : log[i] \in Packets
  BY ListFacts
<1>2. \A i \in offset + 1 .. last : log[i] \in Packets
  BY <1>1
<1>3. /\ m \in Seq(Packets)
      /\ Len(m) = IF offset + 1 <= last THEN last - offset ELSE 0
      /\ \A j \in 1 .. last - offset : m[j] = log[offset + j]
  <2> HIDE DEF m
  <2>1. /\ SubSeq(log, offset + 1, last) \in Seq(Packets)
        /\ Len(SubSeq(log, offset + 1, last))
             = IF offset + 1 <= last THEN last - (offset + 1) + 1 ELSE 0
        /\ \A i \in 1 .. last - (offset + 1) + 1 :
             SubSeq(log, offset + 1, last)[i] = log[offset + 1 + i - 1]
    <3> HIDE DEF last
    <3>1. offset + 1 \in Int /\ last \in Int
      BY <1>1 DEF last
    <3> QED BY <1>2, <3>1, SubSeqProperties
  <2> QED BY <1>1, <2>1 DEF m
<1>4. Slice(offset) = m
  BY DEF Slice
<1> HIDE DEF m
<1> QED BY <1>1, <1>3, <1>4 DEF Numbers, Packets

\* The requests without the one at i: each of them was at another place.
LEMMA RemovedAt ==
  ASSUME NEW S, NEW s \in Seq(S), NEW i \in DOMAIN s
  PROVE  /\ RemoveAt(s, i) \in Seq(S)
         /\ DOMAIN RemoveAt(s, i) = 1 .. Len(s) - 1
         /\ \A j \in 1 .. Len(s) - 1 :
              RemoveAt(s, i)[j] = s[IF j < i THEN j ELSE j + 1]
<1> DEFINE a == SubSeq(s, 1, i - 1)
           b == SubSeq(s, i + 1, Len(s))
<1>1. Len(s) \in Nat /\ i \in 1 .. Len(s) /\ \A k \in 1 .. Len(s) : s[k] \in S
  BY LenProperties, ElementOfSeq
<1>2. a \in Seq(S) /\ Len(a) = i - 1 /\ \A k \in 1 .. i - 1 : a[k] = s[k]
  <2>1. \A k \in 1 .. i - 1 : s[k] \in S
    BY <1>1
  <2> QED BY <1>1, <2>1, SubSeqProperties
<1>3. b \in Seq(S) /\ Len(b) = Len(s) - i /\ \A k \in 1 .. Len(s) - i : b[k] = s[i + k]
  <2>1. \A k \in i + 1 .. Len(s) : s[k] \in S
    BY <1>1
  <2> QED BY <1>1, <2>1, SubSeqProperties
<1>4. RemoveAt(s, i) = a \o b
  BY DEF RemoveAt
<1> HIDE DEF a, b
<1>5. /\ a \o b \in Seq(S) /\ Len(a \o b) = Len(a) + Len(b)
      /\ \A k \in 1 .. Len(a) + Len(b) :
           (a \o b)[k] = IF k <= Len(a) THEN a[k] ELSE b[k - Len(a)]
  BY <1>2, <1>3, ConcatProperties
<1>6. DOMAIN (a \o b) = 1 .. Len(s) - 1
  BY <1>1, <1>2, <1>3, <1>5, LenProperties
<1>7. ASSUME NEW j \in 1 .. Len(s) - 1
      PROVE  (a \o b)[j] = s[IF j < i THEN j ELSE j + 1]
  <2>1. CASE j < i
    BY <1>1, <1>2, <1>3, <1>5, <2>1
  <2>2. CASE ~(j < i)
    <3>1. j \in 1 .. Len(a) + Len(b) /\ ~(j <= Len(a))
      BY <1>1, <1>2, <1>3, <2>2
    <3>2. (a \o b)[j] = b[j - Len(a)]
      BY <1>5, <3>1
    <3>3. j - (i - 1) \in 1 .. Len(s) - i
      BY <1>1, <2>2
    <3>4. b[j - (i - 1)] = s[i + (j - (i - 1))]
      BY <1>3, <3>3
    <3>5. i + (j - (i - 1)) = j + 1
      BY <1>1
    <3> QED BY <1>2, <2>2, <3>2, <3>4, <3>5
  <2> QED BY <2>1, <2>2
<1> QED BY <1>4, <1>5, <1>6, <1>7
-----------------------------------------------------------------------------
(* The inductive invariant.  What the list holds is said while no answer   *)
(* crossed; that the table shows it is said whatever crossed.              *)

Live == mount # 0 /\ ~crossed

\* Requests, with an answer or without.
RequestsAreTyped ==
  requests \in Seq([kind : {"first", "more"}, mount : 1 .. MaxMounts, offset : Nat,
                    answer : Numbers \cup {NoAnswer}])

\* Where nobody looks, nothing was heard and nothing can have crossed.
LeftIsQuiet == mount = 0 => heard = << >> /\ ~crossed

\* The events heard are the first entries of the list.
HeardIsOnTop ==
  ~crossed =>
    Len(heard) <= Len(allPackets) /\ \A i \in 1 .. Len(heard) : heard[i] = allPackets[i]

\* A table of this mount shows the list; if it is not there yet, and nothing
\* crossed, none is on the screen.
TableShowsList ==
  /\ mount # 0 /\ dataTable = mount => screen = allPackets
  /\ Live /\ dataTable # mount => screen = NoTable

\* A mount has one request under way: its first page, before there is a
\* table, or the page that follows, while the button says so.
OneAtATime ==
  Live =>
    \A i \in DOMAIN requests :
      requests[i].mount = mount =>
        /\ \A j \in DOMAIN requests : requests[j].mount = mount => i = j
        /\ IF requests[i].kind = "first"
           THEN dataTable # mount /\ requests[i].offset = 0
           ELSE dataTable = mount /\ button = "loading" /\ requests[i].offset = NextOffset

\* The log holds the packets down to some number, without a gap.
Floor == born + 1 - Len(log)

LogIsContiguous == \A i \in 1 .. Len(log) : log[i] = born + 1 - i

\* An answer is a run of numbers.  It began at its offset then, and has moved
\* down since; if it is not a full page, the log had nothing below it.
RunAt(a, offset) ==
  /\ \A j \in 1 .. Len(a) : a[j] = a[1] + 1 - j
  /\ Len(a) > 0 => a[1] + offset <= born
  /\ Len(a) \in 1 .. PageSize - 1 => a[Len(a)] <= Floor

AnswersAreRuns ==
  \A i \in DOMAIN requests :
    requests[i].answer # NoAnswer => RunAt(requests[i].answer, requests[i].offset)

\* The rows that pages brought.
Rows == {allPackets[i] : i \in Len(heard) + 1 .. Len(allPackets)}

\* They reach from top down to lo.  What the log still holds below lo is at
\* the offset of the next page or after it, so that an answer to a request
\* for that page does not begin below what follows.
ReachDownTo(lo) ==
  /\ lo .. top \subseteq Rows
  /\ \A q \in Rows : q >= lo
  /\ Floor < lo => lo - 1 <= born - NextOffset
  /\ \A i \in DOMAIN requests :
       LET a == requests[i].answer
       IN  requests[i].mount = mount /\ a # NoAnswer =>
             (Len(a) > 0 => a[1] >= lo - 1)

RowsReach ==
  Live /\ dataTable = mount /\ top > 0 => \E lo \in 1 .. top : ReachDownTo(lo)

Typed == TypeOK /\ RequestsAreTyped

IInv ==
  /\ Typed
  /\ LeftIsQuiet
  /\ HeardIsOnTop
  /\ TableShowsList
  /\ OneAtATime
  /\ LogIsContiguous
  /\ AnswersAreRuns
  /\ RowsReach
-----------------------------------------------------------------------------
(* Requests come and go.                                                   *)

\* What is known of a request under way.
LEMMA RequestFacts ==
  ASSUME Typed, NEW i \in DOMAIN requests
  PROVE  /\ requests[i] \in [kind : {"first", "more"}, mount : 1 .. MaxMounts,
                             offset : Nat, answer : Numbers \cup {NoAnswer}]
         /\ requests[i].mount \in 1 .. mounts /\ requests[i].mount # 0
         /\ requests[i].answer # NoAnswer =>
              requests[i].answer \in Numbers /\ Len(requests[i].answer) <= PageSize
<1>1. requests[i] \in [kind : {"first", "more"}, mount : 1 .. MaxMounts,
                       offset : Nat, answer : Numbers \cup {NoAnswer}]
  BY LenProperties, ElementOfSeq DEF Typed, RequestsAreTyped
<1> QED BY <1>1, BoundsAssumption DEF Typed, TypeOK

\* A request that goes on is taken out, the others stay.
LEMMA RequestEnds ==
  ASSUME Typed, NEW i \in DOMAIN requests, requests' = RemoveAt(requests, i)
  PROVE  /\ RequestsAreTyped'
         /\ \A j \in DOMAIN requests' : \E k \in DOMAIN requests \ {i} :
              requests'[j] = requests[k]
<1>1. /\ requests' \in Seq([kind : {"first", "more"}, mount : 1 .. MaxMounts,
                            offset : Nat, answer : Numbers \cup {NoAnswer}])
      /\ DOMAIN requests' = 1 .. Len(requests) - 1
      /\ \A j \in 1 .. Len(requests) - 1 :
           requests'[j] = requests[IF j < i THEN j ELSE j + 1]
  BY RemovedAt DEF Typed, RequestsAreTyped
<1>2. DOMAIN requests = 1 .. Len(requests) /\ Len(requests) \in Nat
  BY LenProperties DEF Typed, RequestsAreTyped
<1>3. RequestsAreTyped'
  BY <1>1 DEF RequestsAreTyped, Numbers
<1>4. ASSUME NEW j \in DOMAIN requests'
      PROVE  \E k \in DOMAIN requests \ {i} : requests'[j] = requests[k]
  <2> DEFINE k == IF j < i THEN j ELSE j + 1
  <2>1. k \in DOMAIN requests \ {i} /\ requests'[j] = requests[k]
    BY <1>1, <1>2
  <2> QED BY <2>1
<1> QED BY <1>3, <1>4

\* A request is made: it is the last one, and has no answer yet.
LEMMA RequestMade ==
  ASSUME Typed, NEW kind \in {"first", "more"}, NEW m \in 1 .. MaxMounts,
         NEW offset \in Nat, requests' = Append(requests, Request(kind, m, offset))
  PROVE  /\ RequestsAreTyped'
         /\ DOMAIN requests' = 1 .. Len(requests) + 1
         /\ DOMAIN requests = 1 .. Len(requests) /\ Len(requests) \in Nat
         /\ \A j \in DOMAIN requests : requests'[j] = requests[j]
         /\ requests'[Len(requests) + 1] = Request(kind, m, offset)
<1> DEFINE R == [kind : {"first", "more"}, mount : 1 .. MaxMounts,
                 offset : Nat, answer : Numbers \cup {NoAnswer}]
<1>1. Request(kind, m, offset) \in R
  BY DEF Request
<1>2. requests \in Seq(R)
  BY DEF Typed, RequestsAreTyped
<1>3. DOMAIN requests = 1 .. Len(requests) /\ Len(requests) \in Nat
  BY <1>2, LenProperties
<1> HIDE DEF R
<1>4. /\ requests' \in Seq(R) /\ Len(requests') = Len(requests) + 1
      /\ \A j \in 1 .. Len(requests) : requests'[j] = requests[j]
      /\ requests'[Len(requests) + 1] = Request(kind, m, offset)
  BY <1>1, <1>2, AppendProperties
<1>5. DOMAIN requests' = 1 .. Len(requests) + 1
  BY <1>4, LenProperties
<1>6. RequestsAreTyped'
  BY <1>4 DEF R, RequestsAreTyped, Numbers
<1> QED BY <1>3, <1>4, <1>5, <1>6

\* The server answers a request with what it lists.
LEMMA RequestServed ==
  ASSUME Typed, NEW i \in DOMAIN requests, Served(i)
  PROVE  /\ RequestsAreTyped'
         /\ DOMAIN requests' = DOMAIN requests
         /\ \A j \in DOMAIN requests :
              requests'[j] = IF j = i THEN [requests[i] EXCEPT
                                              !.answer = Slice(requests[i].offset)]
                             ELSE requests[j]
<1> DEFINE R == [kind : {"first", "more"}, mount : 1 .. MaxMounts,
                 offset : Nat, answer : Numbers \cup {NoAnswer}]
           r == [requests[i] EXCEPT !.answer = Slice(requests[i].offset)]
<1>1. requests \in Seq(R) /\ DOMAIN requests = 1 .. Len(requests) /\ Len(requests) \in Nat
  BY LenProperties DEF Typed, RequestsAreTyped
<1>2. r \in R
  BY RequestFacts, SliceList DEF Typed, TypeOK
<1>3. requests' = [requests EXCEPT ![i] = r]
  BY DEF Served
<1> HIDE DEF R, r
<1>4. /\ requests' \in Seq(R) /\ Len(requests') = Len(requests)
      /\ \A j \in 1 .. Len(requests) : requests'[j] = IF j = i THEN r ELSE requests[j]
  BY <1>1, <1>2, <1>3, ExceptSeq
<1>5. DOMAIN requests' = DOMAIN requests
  BY <1>1, <1>4, LenProperties
<1>6. RequestsAreTyped'
  BY <1>4 DEF R, RequestsAreTyped, Numbers
<1> QED BY <1>1, <1>4, <1>5, <1>6 DEF r
-----------------------------------------------------------------------------
(* The server and the connection.                                          *)

\* The page is not open and nothing is asked for.
LEMMA InitInv == Init => IInv
<1> SUFFICES ASSUME Init PROVE IInv
  OBVIOUS
<1> USE BoundsAssumption DEF Init
<1> DEFINE l == [k \in 1 .. born |-> k]
<1>1. l \in Numbers /\ Len(l) = born
  <2>1. l \in [1 .. born -> Packets]
    BY DEF Packets
  <2>2. l \in Numbers
    BY <2>1, SeqDef DEF Numbers, Packets
  <2> QED BY <2>1, <2>2, ListFacts, SameLength
<1>2. log = [k \in 1 .. born |-> born - k + 1]
  BY <1>1 DEF Reverse
<1>3. log \in Numbers /\ Len(log) = born
  <2>1. log \in [1 .. born -> Packets]
    BY <1>2 DEF Packets
  <2>2. log \in Numbers
    BY <2>1, SeqDef DEF Numbers, Packets
  <2> QED BY <2>1, <2>2, ListFacts, SameLength
<1>4. << >> \in Numbers /\ Len(<< >>) = 0
  BY EmptySeq DEF Numbers
<1>5. RequestsAreTyped /\ DOMAIN requests = {}
  <2>1. RequestsAreTyped
    BY EmptySeq DEF RequestsAreTyped
  <2> QED BY <2>1, <1>4, LenProperties DEF RequestsAreTyped
<1>6. Typed
  <2>1. born \in 0 .. MaxPackets /\ log \in Numbers /\ Len(log) <= MaxSize
    BY <1>3
  <2>2. {channel, allPackets, heard} \subseteq Numbers
    BY <1>4
  <2>3. mounts \in 0 .. MaxMounts /\ mount \in {0, mounts} /\ dataTable \in 0 .. mounts
    OBVIOUS
  <2>4. \A i \in DOMAIN requests :
          /\ requests[i].kind \in {"first", "more"} /\ requests[i].mount \in 1 .. mounts
          /\ requests[i].answer = NoAnswer \/ Len(requests[i].answer) <= PageSize
    BY <1>5
  <2>5. currentOffset \in Nat /\ top \in 0 .. MaxPackets
    OBVIOUS
  <2>6. /\ button \in {"ready", "loading", "end"} /\ screen = NoTable
        /\ connected \in BOOLEAN /\ crossed \in BOOLEAN
    OBVIOUS
  <2> HIDE DEF Init
  <2> QED BY <1>5, <2>1, <2>2, <2>3, <2>4, <2>5, <2>6 DEF Typed, TypeOK
<1>7. LogIsContiguous
  BY <1>2, <1>3 DEF LogIsContiguous
<1>8. LeftIsQuiet /\ HeardIsOnTop /\ TableShowsList /\ OneAtATime /\ AnswersAreRuns
      /\ RowsReach
  BY <1>4, <1>5 DEF LeftIsQuiet, HeardIsOnTop, TableShowsList, OneAtATime, AnswersAreRuns,
                    RowsReach, Live
<1> QED BY <1>6, <1>7, <1>8 DEF IInv

\* The distance to a bound that grows stays large enough.
LEMMA MoreRoom == \A a, b, n, m \in Int : m <= a - n /\ b >= a => m <= b - n
OBVIOUS

\* While the page stands still, the log may grow and lose what is below.
LEMMA LogMovesOn ==
  ASSUME IInv, Typed', LogIsContiguous', UNCHANGED << page, requests, history >>,
         born' >= born, Floor' >= Floor
  PROVE  IInv'
<1>1. born \in Int /\ born' \in Int /\ Floor \in Int /\ Floor' \in Int /\ NextOffset \in Int
  <2>1. Len(log) \in Nat /\ Len(log') \in Nat
    BY ListFacts DEF IInv, Typed, TypeOK
  <2> QED BY <2>1, PageSizeAssumption DEF IInv, Typed, TypeOK, Floor, NextOffset
<1>2. LeftIsQuiet' /\ HeardIsOnTop' /\ TableShowsList' /\ OneAtATime'
  BY DEF IInv, LeftIsQuiet, HeardIsOnTop, TableShowsList, OneAtATime, Live, page, history,
         NextOffset
<1>3. AnswersAreRuns'
  <2> SUFFICES ASSUME NEW i \in DOMAIN requests, requests[i].answer # NoAnswer
               PROVE  RunAt(requests[i].answer, requests[i].offset)'
    BY DEF AnswersAreRuns
  <2> DEFINE a == requests[i].answer
  <2>1. a \in Numbers /\ requests[i].offset \in Nat
    BY RequestFacts DEF IInv
  <2>2. Len(a) \in Nat /\ \A j \in 1 .. Len(a) : a[j] \in Nat
    BY <2>1, ListFacts DEF Packets
  <2>3. RunAt(a, requests[i].offset)
    BY DEF IInv, AnswersAreRuns
  <2> HIDE DEF a
  <2>4. \A j \in 1 .. Len(a) : a[j] = a[1] + 1 - j
    BY <2>3 DEF RunAt
  <2>5. Len(a) > 0 => a[1] + requests[i].offset <= born'
    BY <1>1, <2>1, <2>2, <2>3 DEF RunAt
  <2>6. Len(a) \in 1 .. PageSize - 1 => a[Len(a)] <= Floor'
    BY <1>1, <2>2, <2>3 DEF RunAt
  <2> QED BY <2>4, <2>5, <2>6 DEF RunAt, a
<1>4. RowsReach'
  <2> SUFFICES ASSUME Live, dataTable = mount, top > 0
               PROVE  \E lo \in 1 .. top : ReachDownTo(lo)'
    BY DEF RowsReach, Live, page, history
  <2>1. PICK lo \in 1 .. top : ReachDownTo(lo)
    BY DEF IInv, RowsReach
  <2>2. top \in Nat /\ lo \in Int
    BY DEF IInv, Typed, TypeOK
  <2>3. Rows' = Rows /\ NextOffset' = NextOffset
    BY DEF Rows, NextOffset, page, history
  <2>4. Floor < lo => lo - 1 <= born - NextOffset
    BY <2>1 DEF ReachDownTo
  <2>5. Floor' < lo => lo - 1 <= born' - NextOffset
    <3> SUFFICES ASSUME Floor' < lo PROVE lo - 1 <= born' - NextOffset
      OBVIOUS
    <3>1. Floor < lo
      BY <1>1, <2>2
    <3>2. lo - 1 <= born - NextOffset
      BY <2>4, <3>1
    <3>3. lo - 1 \in Int
      BY <2>2
    <3> QED BY <1>1, <3>2, <3>3, MoreRoom
  <2> QED BY <2>1, <2>3, <2>5 DEF ReachDownTo, page, history
<1> QED BY <1>2, <1>3, <1>4 DEF IInv

\* A packet goes in front of the log.
LEMMA PacketArrivesKeeps == IInv /\ PacketArrives => IInv'
<1> SUFFICES ASSUME IInv, PacketArrives PROVE IInv'
  OBVIOUS
<1> USE BoundsAssumption DEF PacketArrives
<1>1. born \in Nat /\ born + 1 \in Packets /\ log \in Numbers /\ Len(log) <= MaxSize
  BY DEF IInv, Typed, TypeOK, Packets
<1>2. /\ log' \in Numbers /\ Len(log') \in 1 .. MaxSize /\ Len(log') <= Len(log) + 1
      /\ log'[1] = born + 1
      /\ \A i \in 2 .. Len(log') : log'[i] = log[i - 1]
  BY <1>1, PushedList
<1>3. channel' \in Numbers
  BY <1>1, AppendProperties DEF IInv, Typed, TypeOK, Numbers, Packets
<1>4. Typed'
  BY <1>1, <1>2, <1>3 DEF IInv, Typed, TypeOK, RequestsAreTyped, Numbers, page, history
<1>5. LogIsContiguous'
  <2> SUFFICES ASSUME NEW i \in 1 .. Len(log') PROVE log'[i] = born' + 1 - i
    BY DEF LogIsContiguous
  <2>1. CASE i = 1
    BY <1>1, <1>2, <2>1
  <2>2. CASE i # 1
    <3>1. Len(log) \in Nat
      BY <1>1, ListFacts
    <3>2. log'[i] = log[i - 1] /\ i - 1 \in 1 .. Len(log)
      BY <1>2, <2>2, <3>1
    <3> QED BY <1>1, <3>2 DEF IInv, LogIsContiguous
  <2> QED BY <2>1, <2>2
<1>6. Floor' >= Floor /\ born' >= born
  BY <1>1, <1>2, ListFacts DEF Floor
<1> QED BY <1>4, <1>5, <1>6, LogMovesOn

\* The connection opens, closes or dies with the server.
LEMMA ConnectionKeeps == IInv /\ (SocketOpens \/ SocketCloses \/ ServerRestarts) => IInv'
<1> SUFFICES ASSUME IInv, SocketOpens \/ SocketCloses \/ ServerRestarts PROVE IInv'
  OBVIOUS
<1>1. << >> \in Numbers /\ Len(<< >>) = 0
  BY EmptySeq DEF Numbers
<1>2. UNCHANGED << page, requests, history >> /\ born' = born
  BY DEF SocketOpens, SocketCloses, ServerRestarts, server
<1>3. log' \in {log, << >>} /\ channel' \in {channel, << >>} /\ connected' \in BOOLEAN
  BY DEF SocketOpens, SocketCloses, ServerRestarts, server
<1>4. born \in Nat /\ Len(log) \in Nat /\ Len(log) <= MaxSize
  BY ListFacts DEF IInv, Typed, TypeOK
<1>5. Typed'
  <2>1. log' \in Numbers /\ Len(log') <= MaxSize /\ channel' \in Numbers
    BY <1>1, <1>3, <1>4, BoundsAssumption DEF IInv, Typed, TypeOK
  <2>2. RequestsAreTyped'
    BY <1>2 DEF IInv, Typed, RequestsAreTyped, Numbers
  <2> QED BY <1>2, <1>3, <2>1, <2>2 DEF IInv, Typed, TypeOK, Numbers, page, history
<1>6. LogIsContiguous'
  BY <1>1, <1>2, <1>3 DEF IInv, LogIsContiguous
<1>7. Floor' >= Floor /\ born' >= born
  BY <1>1, <1>2, <1>3, <1>4 DEF Floor
<1> QED BY <1>2, <1>5, <1>6, <1>7, LogMovesOn

\* An answer to the page that follows does not begin below what follows.
LEMMA ServedKeeps ==
  ASSUME IInv, NEW i \in DOMAIN requests, Served(i)
  PROVE  IInv'
<1> DEFINE off == requests[i].offset
           a == Slice(off)
<1>1. /\ RequestsAreTyped'
      /\ DOMAIN requests' = DOMAIN requests
      /\ \A j \in DOMAIN requests :
           requests'[j] = IF j = i THEN [requests[i] EXCEPT !.answer = a] ELSE requests[j]
  BY RequestServed DEF IInv
<1>2. UNCHANGED << server, socket, page, history >>
  BY DEF Served
<1>3. /\ requests[i].mount \in 1 .. mounts /\ off \in Nat
      /\ requests[i] \in [kind : {"first", "more"}, mount : 1 .. MaxMounts,
                          offset : Nat, answer : Numbers \cup {NoAnswer}]
  BY RequestFacts DEF IInv
<1>4. log \in Numbers /\ born \in Nat /\ Len(log) \in Nat
  BY ListFacts DEF IInv, Typed, TypeOK
<1>5. /\ a \in Numbers /\ Len(a) <= PageSize
      /\ \A j \in 1 .. Len(a) : off + j \in 1 .. Len(log) /\ a[j] = log[off + j]
      /\ Len(a) \in 1 .. PageSize - 1 => off + Len(a) = Len(log)
  BY <1>3, <1>4, SliceList
<1>l. Len(a) \in Nat
  BY <1>5, ListFacts
<1> HIDE DEF a
<1>6. \A j \in DOMAIN requests :
        /\ requests'[j].kind = requests[j].kind /\ requests'[j].mount = requests[j].mount
        /\ requests'[j].offset = requests[j].offset
        /\ requests'[j].answer = IF j = i THEN a ELSE requests[j].answer
  BY <1>1, <1>3
<1>7. \A j \in 1 .. Len(a) : a[j] = born + 1 - off - j
  <2> SUFFICES ASSUME NEW j \in 1 .. Len(a) PROVE a[j] = born + 1 - off - j
    OBVIOUS
  <2>1. off + j \in 1 .. Len(log) /\ a[j] = log[off + j]
    BY <1>5
  <2>2. log[off + j] = born + 1 - (off + j)
    BY <2>1 DEF IInv, LogIsContiguous
  <2> QED BY <1>3, <1>4, <1>l, <2>1, <2>2
<1>8. Typed'
  BY <1>1, <1>2, <1>5, <1>6 DEF IInv, Typed, TypeOK, server, socket, page, history, Numbers
<1>9. LeftIsQuiet' /\ HeardIsOnTop' /\ TableShowsList' /\ LogIsContiguous'
  BY <1>2 DEF IInv, LeftIsQuiet, HeardIsOnTop, TableShowsList, LogIsContiguous, Live,
              server, page, history
<1>10. OneAtATime'
  BY <1>1, <1>2, <1>6 DEF IInv, OneAtATime, Live, NextOffset, page, history
<1>11. Floor' = Floor /\ NextOffset' = NextOffset /\ Rows' = Rows
  BY <1>2 DEF Floor, NextOffset, Rows, server, page, history
<1>12. AnswersAreRuns'
  <2> SUFFICES ASSUME NEW j \in DOMAIN requests, requests'[j].answer # NoAnswer
               PROVE  RunAt(requests[j].answer, requests[j].offset)'
    BY <1>1 DEF AnswersAreRuns
  <2>1. CASE j # i
    BY <1>2, <1>6, <1>11, <2>1 DEF IInv, AnswersAreRuns, RunAt, server
  <2>2. CASE j = i
    <3>1. \A k \in 1 .. Len(a) : a[k] = a[1] + 1 - k
      <4> SUFFICES ASSUME NEW k \in 1 .. Len(a) PROVE a[k] = a[1] + 1 - k
        OBVIOUS
      <4>1. a[k] = born + 1 - off - k /\ a[1] = born + 1 - off - 1
        BY <1>7, <1>l
      <4> QED BY <1>3, <1>4, <1>l, <4>1
    <3>2. Len(a) > 0 => a[1] + off <= born
      BY <1>3, <1>4, <1>7, <1>l
    <3>3. Len(a) \in 1 .. PageSize - 1 => a[Len(a)] <= Floor
      BY <1>3, <1>4, <1>5, <1>7, <1>l DEF Floor
    <3> QED BY <1>2, <1>6, <1>11, <2>2, <3>1, <3>2, <3>3 DEF RunAt, server
  <2> QED BY <2>1, <2>2
<1>13. RowsReach'
  <2> SUFFICES ASSUME Live, dataTable = mount, top > 0
               PROVE  \E lo \in 1 .. top : ReachDownTo(lo)'
    BY <1>2 DEF RowsReach, Live, page, history
  <2>1. PICK lo \in 1 .. top : ReachDownTo(lo)
    BY DEF IInv, RowsReach
  <2>2. lo \in Int /\ NextOffset \in Int /\ Floor \in Int
    BY <1>4, PageSizeAssumption DEF IInv, Typed, TypeOK, NextOffset, Floor
  <2>3. requests[i].mount = mount /\ Len(a) > 0 => a[1] >= lo - 1
    <3> SUFFICES ASSUME requests[i].mount = mount, Len(a) > 0
                 PROVE  a[1] >= lo - 1
      OBVIOUS
    <3>1. off = NextOffset
      BY DEF IInv, OneAtATime
    <3>2. a[1] = born - NextOffset
      BY <1>3, <1>4, <1>7, <1>l, <3>1
    <3>3. a[1] >= Floor
      BY <1>3, <1>4, <1>5, <1>7, <1>l DEF Floor
    <3> QED BY <1>4, <2>1, <2>2, <3>2, <3>3 DEF ReachDownTo
  <2> QED BY <1>1, <1>2, <1>6, <1>11, <2>1, <2>3 DEF ReachDownTo, server, page, history
<1> QED BY <1>8, <1>9, <1>10, <1>12, <1>13 DEF IInv
-----------------------------------------------------------------------------
(* The page.                                                               *)

\* A list behind an entry put in front of it.
LEMMA InFront ==
  ASSUME NEW s \in Numbers, NEW p \in Packets
  PROVE  /\ << p >> \o s \in Numbers
         /\ Len(<< p >> \o s) = Len(s) + 1
         /\ (<< p >> \o s)[1] = p
         /\ \A i \in 2 .. Len(s) + 1 : (<< p >> \o s)[i] = s[i - 1]
<1>1. << p >> \in Numbers /\ Len(<< p >>) = 1 /\ << p >>[1] = p
  BY DEF Numbers, Packets
<1>2. Len(s) \in Nat
  BY ListFacts
<1> QED BY <1>1, <1>2, ConcatProperties DEF Numbers

\* An event is heard: it goes on top of the list, the rows stay.
LEMMA EventArrivesKeeps == IInv /\ EventArrives => IInv'
<1> SUFFICES ASSUME IInv, EventArrives PROVE IInv'
  OBVIOUS
<1> DEFINE p == Head(channel)
<1>1. /\ channel \in Numbers /\ allPackets \in Numbers /\ heard \in Numbers
      /\ Len(allPackets) \in Nat /\ Len(heard) \in Nat
  BY ListFacts DEF IInv, Typed, TypeOK
<1>2. p \in Packets /\ channel' \in Numbers
  BY <1>1, HeadTailProperties DEF EventArrives, Numbers, Packets
<1>3. UNCHANGED << server, connected, requests, top, crossed, mount, mounts, currentOffset,
                   dataTable, button >>
  BY DEF EventArrives, page
<1>4. Floor' = Floor /\ NextOffset' = NextOffset
  BY <1>3 DEF Floor, NextOffset, server
<1>5. LogIsContiguous' /\ OneAtATime' /\ AnswersAreRuns'
  BY <1>3, <1>4 DEF IInv, LogIsContiguous, OneAtATime, AnswersAreRuns, RunAt, Live, server
<1>6. CASE mount = 0
  <2>1. UNCHANGED << page, heard >>
    BY <1>6 DEF EventArrives
  <2>2. Typed'
    BY <1>2, <1>3, <2>1 DEF IInv, Typed, TypeOK, RequestsAreTyped, Numbers, server, page
  <2> QED BY <1>3, <1>5, <1>6, <2>1, <2>2
          DEF IInv, LeftIsQuiet, HeardIsOnTop, TableShowsList, RowsReach, Live, page
<1>7. CASE mount # 0
  <2>1. /\ allPackets' = << p >> \o allPackets
        /\ heard' = << p >> \o heard
        /\ screen' = IF dataTable = mount THEN allPackets' ELSE screen
    BY <1>7 DEF EventArrives, ScreenAfter
  <2> HIDE DEF p
  <2>2. /\ allPackets' \in Numbers /\ Len(allPackets') = Len(allPackets) + 1
        /\ allPackets'[1] = p
        /\ \A i \in 2 .. Len(allPackets) + 1 : allPackets'[i] = allPackets[i - 1]
    BY <1>1, <1>2, <2>1, InFront
  <2>3. /\ heard' \in Numbers /\ Len(heard') = Len(heard) + 1
        /\ heard'[1] = p
        /\ \A i \in 2 .. Len(heard) + 1 : heard'[i] = heard[i - 1]
    BY <1>1, <1>2, <2>1, InFront
  <2>4. Typed'
    BY <1>2, <1>3, <2>1, <2>2, <2>3
    DEF IInv, Typed, TypeOK, RequestsAreTyped, Numbers, server
  <2>5. HeardIsOnTop'
    <3> SUFFICES ASSUME ~crossed
                 PROVE  /\ Len(heard') <= Len(allPackets')
                        /\ \A i \in 1 .. Len(heard') : heard'[i] = allPackets'[i]
      BY <1>3 DEF HeardIsOnTop
    <3>1. Len(heard) <= Len(allPackets) /\ \A i \in 1 .. Len(heard) : heard[i] = allPackets[i]
      BY DEF IInv, HeardIsOnTop
    <3>2. ASSUME NEW i \in 1 .. Len(heard') PROVE heard'[i] = allPackets'[i]
      <4>1. CASE i = 1
        BY <2>2, <2>3, <4>1
      <4>2. CASE i # 1
        <5>1. i \in 2 .. Len(heard) + 1 /\ i \in 2 .. Len(allPackets) + 1
              /\ i - 1 \in 1 .. Len(heard)
          BY <1>1, <2>3, <3>1, <3>2, <4>2
        <5> QED BY <2>2, <2>3, <3>1, <5>1
      <4> QED BY <4>1, <4>2
    <3> QED BY <1>1, <2>2, <2>3, <3>1, <3>2
  <2>6. LeftIsQuiet' /\ TableShowsList'
    BY <1>3, <1>7, <2>1 DEF IInv, LeftIsQuiet, TableShowsList, Live
  <2>7. RowsReach'
    <3> SUFFICES ASSUME Live, dataTable = mount, top > 0
                 PROVE  \E lo \in 1 .. top : ReachDownTo(lo)'
      BY <1>3 DEF RowsReach, Live
    <3>1. PICK lo \in 1 .. top : ReachDownTo(lo)
      BY DEF IInv, RowsReach
    <3>2. Len(heard) <= Len(allPackets)
      BY DEF IInv, HeardIsOnTop, Live
    <3>3. Rows' = Rows
      <4>1. ASSUME NEW i \in Len(heard) + 1 .. Len(allPackets)
            PROVE  /\ i + 1 \in Len(heard') + 1 .. Len(allPackets')
                   /\ allPackets'[i + 1] = allPackets[i]
        <5>1. i + 1 \in 2 .. Len(allPackets) + 1 /\ i + 1 - 1 = i
          BY <1>1
        <5> QED BY <1>1, <2>2, <2>3, <5>1
      <4>2. ASSUME NEW i \in Len(heard') + 1 .. Len(allPackets')
            PROVE  /\ i - 1 \in Len(heard) + 1 .. Len(allPackets)
                   /\ allPackets'[i] = allPackets[i - 1]
        <5>1. i \in 2 .. Len(allPackets) + 1
          BY <1>1, <2>2, <2>3
        <5> QED BY <1>1, <2>2, <2>3, <5>1
      <4>3. Rows \subseteq Rows'
        BY <4>1 DEF Rows
      <4>4. Rows' \subseteq Rows
        BY <4>2 DEF Rows
      <4> QED BY <4>3, <4>4
    <3> QED BY <1>3, <1>4, <3>1, <3>3 DEF ReachDownTo, server
  <2> QED BY <1>5, <2>4, <2>5, <2>6, <2>7 DEF IInv
<1> QED BY <1>6, <1>7

\* The page is opened: its first page is the only request of the mount.
LEMMA MountKeeps == IInv /\ Mount => IInv'
<1> SUFFICES ASSUME IInv, Mount PROVE IInv'
  OBVIOUS
<1> USE BoundsAssumption
<1>1. /\ mount = 0 /\ mounts + 1 \in 1 .. MaxMounts /\ mount' = mounts + 1
      /\ mounts' = mounts + 1 /\ button' = "ready" /\ screen' = NoTable
      /\ requests' = Append(requests, Request("first", mounts + 1, 0))
      /\ UNCHANGED << server, socket, allPackets, currentOffset, dataTable, history >>
      /\ mounts \in Nat /\ dataTable \in 0 .. mounts
  BY DEF Mount, IInv, Typed, TypeOK
<1>2. /\ RequestsAreTyped'
      /\ DOMAIN requests' = 1 .. Len(requests) + 1
      /\ DOMAIN requests = 1 .. Len(requests) /\ Len(requests) \in Nat
      /\ \A j \in DOMAIN requests : requests'[j] = requests[j]
      /\ requests'[Len(requests) + 1] = Request("first", mounts + 1, 0)
  <2>1. 0 \in Nat /\ Typed
    BY DEF IInv
  <2> QED BY <1>1, <2>1, RequestMade
<1>3. \A j \in DOMAIN requests : requests[j].mount \in 1 .. mounts
  BY RequestFacts DEF IInv
<1>4. \A j \in DOMAIN requests' : j \in DOMAIN requests \/ j = Len(requests) + 1
  BY <1>2
<1>5. Typed'
  BY <1>1, <1>2, <1>3, <1>4
  DEF IInv, Typed, TypeOK, Numbers, Request, server, socket, history
<1>6. LeftIsQuiet' /\ HeardIsOnTop' /\ TableShowsList' /\ RowsReach' /\ LogIsContiguous'
  BY <1>1 DEF IInv, LeftIsQuiet, HeardIsOnTop, TableShowsList, RowsReach, Live,
              LogIsContiguous, server, history
<1>7. OneAtATime'
  BY <1>1, <1>2, <1>3, <1>4 DEF OneAtATime, Request
<1>8. AnswersAreRuns'
  BY <1>1, <1>2, <1>4 DEF IInv, AnswersAreRuns, RunAt, Floor, Request, server
<1> QED BY <1>5, <1>6, <1>7, <1>8 DEF IInv

\* The page is left.
LEMMA UnmountKeeps == IInv /\ Unmount => IInv'
<1> SUFFICES ASSUME IInv, Unmount PROVE IInv'
  OBVIOUS
<1>1. << >> \in Numbers /\ Len(<< >>) = 0
  BY EmptySeq DEF Numbers
<1>2. Typed'
  <2>1. /\ mount' = 0 /\ dataTable' = 0 /\ currentOffset' = 0 /\ top' = 0
        /\ allPackets' = << >> /\ heard' = << >> /\ button' = "ready"
        /\ screen' = NoTable /\ crossed' = FALSE
        /\ UNCHANGED << born, log, connected, channel, mounts, requests >>
    BY DEF Unmount, server, socket
  <2>2. TypeOK'
    <3>1. {channel', allPackets', heard'} \subseteq Numbers /\ channel' \in Numbers
      BY <1>1, <2>1 DEF IInv, Typed, TypeOK
    <3>2. /\ mounts' \in 0 .. MaxMounts /\ mount' \in {0, mounts'}
          /\ dataTable' \in 0 .. mounts' /\ currentOffset' \in Nat /\ top' \in 0 .. MaxPackets
      BY <2>1, BoundsAssumption DEF IInv, Typed, TypeOK
    <3>3. \A i \in DOMAIN requests' :
            /\ requests'[i].kind \in {"first", "more"}
            /\ requests'[i].mount \in 1 .. mounts'
            /\ requests'[i].answer = NoAnswer \/ Len(requests'[i].answer) <= PageSize
      BY <2>1 DEF IInv, Typed, TypeOK
    <3>4. /\ button' \in {"ready", "loading", "end"} /\ screen' = NoTable
          /\ connected' \in BOOLEAN /\ crossed' \in BOOLEAN
          /\ born' \in 0 .. MaxPackets /\ log' \in Numbers /\ Len(log') <= MaxSize
      BY <2>1 DEF IInv, Typed, TypeOK
    <3> QED BY <3>1, <3>2, <3>3, <3>4 DEF TypeOK, Numbers
  <2>3. RequestsAreTyped'
    BY <2>1 DEF IInv, Typed, RequestsAreTyped, Numbers
  <2> QED BY <2>2, <2>3 DEF Typed
<1> QED BY <1>1, <1>2
        DEF Unmount, IInv, LeftIsQuiet, HeardIsOnTop, TableShowsList, OneAtATime, RowsReach,
            Live, LogIsContiguous, AnswersAreRuns, RunAt, Floor, server
-----------------------------------------------------------------------------
(* Paging.                                                                 *)

\* The button is clicked: there was no request of this mount, or it crosses.
LEMMA LoadMoreKeeps == IInv /\ LoadMore => IInv'
<1> SUFFICES ASSUME IInv, LoadMore PROVE IInv'
  OBVIOUS
<1>1. /\ mount # 0 /\ button = "ready" /\ button' = "loading"
      /\ requests' = Append(requests, Request("more", mount, NextOffset))
      /\ crossed' = (crossed \/ dataTable # mount)
      /\ UNCHANGED << server, socket, mount, mounts, allPackets, currentOffset, dataTable,
                      screen, heard, top >>
  BY DEF LoadMore
<1>2. mount \in 1 .. MaxMounts /\ mount \in 1 .. mounts /\ NextOffset \in Nat
  BY <1>1, BoundsAssumption, PageSizeAssumption DEF IInv, Typed, TypeOK, NextOffset
<1>3. /\ RequestsAreTyped'
      /\ DOMAIN requests' = 1 .. Len(requests) + 1
      /\ DOMAIN requests = 1 .. Len(requests) /\ Len(requests) \in Nat
      /\ \A j \in DOMAIN requests : requests'[j] = requests[j]
      /\ requests'[Len(requests) + 1] = Request("more", mount, NextOffset)
  BY <1>1, <1>2, RequestMade DEF IInv
<1>4. \A j \in DOMAIN requests' : j \in DOMAIN requests \/ j = Len(requests) + 1
  BY <1>3
<1>5. Typed'
  <2>1. crossed' \in BOOLEAN
    BY <1>1 DEF IInv, Typed, TypeOK
  <2> QED BY <1>1, <1>2, <1>3, <1>4, <2>1
          DEF IInv, Typed, TypeOK, Numbers, Request, server, socket
<1>6. LeftIsQuiet' /\ HeardIsOnTop' /\ TableShowsList' /\ LogIsContiguous'
  BY <1>1 DEF IInv, LeftIsQuiet, HeardIsOnTop, TableShowsList, Live, LogIsContiguous, server
<1>7. AnswersAreRuns'
  BY <1>1, <1>3, <1>4 DEF IInv, AnswersAreRuns, RunAt, Floor, Request, server
<1>8. NextOffset' = NextOffset /\ Floor' = Floor /\ Rows' = Rows
  BY <1>1 DEF NextOffset, Floor, Rows, server
<1>9. ASSUME Live'
      PROVE  /\ Live /\ dataTable = mount
             /\ \A j \in DOMAIN requests : requests[j].mount # mount
  <2>1. Live /\ dataTable = mount
    BY <1>1, <1>9 DEF Live
  <2> QED BY <1>1, <2>1 DEF IInv, OneAtATime
<1>10. OneAtATime'
  BY <1>1, <1>3, <1>4, <1>8, <1>9 DEF OneAtATime, Request
<1>11. RowsReach'
  <2> SUFFICES ASSUME Live', top > 0
               PROVE  \E lo \in 1 .. top : ReachDownTo(lo)'
    BY <1>1 DEF RowsReach
  <2>1. PICK lo \in 1 .. top : ReachDownTo(lo)
    BY <1>9 DEF IInv, RowsReach
  <2> QED BY <1>1, <1>3, <1>4, <1>8, <2>1 DEF ReachDownTo, Request, server
<1> QED BY <1>5, <1>6, <1>7, <1>10, <1>11 DEF IInv

\* A request that goes on was the only one of a mount that stays live.
LEMMA NoneLeft ==
  ASSUME IInv, NEW i \in DOMAIN requests, requests' = RemoveAt(requests, i),
         mount' = mount, crossed' = Crossing(requests[i]), Live'
  PROVE  /\ Live /\ requests[i].mount = mount
         /\ \A j \in DOMAIN requests' : requests'[j].mount # mount
<1>1. Live /\ requests[i].mount = mount
  BY DEF Live, Crossing
<1>2. ASSUME NEW j \in DOMAIN requests' PROVE requests'[j].mount # mount
  <2>1. PICK k \in DOMAIN requests \ {i} : requests'[j] = requests[k]
    BY RequestEnds DEF IInv
  <2> QED BY <1>1, <2>1 DEF IInv, OneAtATime
<1> QED BY <1>1, <1>2

\* What the others say of requests and log stays true without it.
LEMMA OthersStay ==
  ASSUME IInv, NEW i \in DOMAIN requests, requests' = RemoveAt(requests, i),
         UNCHANGED << server, socket, mount, mounts >>, crossed' = Crossing(requests[i])
  PROVE  /\ RequestsAreTyped' /\ LogIsContiguous' /\ AnswersAreRuns' /\ OneAtATime'
         /\ crossed' \in BOOLEAN
         /\ \A j \in DOMAIN requests' :
              /\ requests'[j].kind \in {"first", "more"}
              /\ requests'[j].mount \in 1 .. mounts
              /\ requests'[j].answer = NoAnswer \/ Len(requests'[j].answer) <= PageSize
         /\ mount = 0 => ~crossed'
<1>1. RequestsAreTyped' /\ \A j \in DOMAIN requests' : \E k \in DOMAIN requests \ {i} :
                             requests'[j] = requests[k]
  BY RequestEnds DEF IInv
<1>2. LogIsContiguous' /\ AnswersAreRuns'
  BY <1>1 DEF IInv, LogIsContiguous, AnswersAreRuns, RunAt, Floor, server
<1>3. OneAtATime'
  BY NoneLeft DEF OneAtATime
<1>4. \A j \in DOMAIN requests' :
        /\ requests'[j].kind \in {"first", "more"}
        /\ requests'[j].mount \in 1 .. mounts
        /\ requests'[j].answer = NoAnswer \/ Len(requests'[j].answer) <= PageSize
  BY <1>1 DEF IInv, Typed, TypeOK
<1>5. crossed' \in BOOLEAN /\ (mount = 0 => ~crossed')
  BY DEF Crossing, IInv, Typed, TypeOK, LeftIsQuiet
<1> QED BY <1>1, <1>2, <1>3, <1>4, <1>5

\* A request for more fails: the button can be clicked again.
LEMMA MoreFailsKeeps ==
  ASSUME IInv, NEW i \in DOMAIN requests, MoreFails(i)
  PROVE  IInv'
<1>1. /\ requests' = RemoveAt(requests, i)
      /\ button' \in {button, "ready"}
      /\ crossed' = Crossing(requests[i])
      /\ UNCHANGED << server, socket, mount, mounts, allPackets, currentOffset, dataTable,
                      screen, heard, top >>
  BY DEF MoreFails
<1>2. /\ RequestsAreTyped' /\ LogIsContiguous' /\ AnswersAreRuns' /\ OneAtATime'
      /\ crossed' \in BOOLEAN
      /\ \A j \in DOMAIN requests' :
           /\ requests'[j].kind \in {"first", "more"}
           /\ requests'[j].mount \in 1 .. mounts
           /\ requests'[j].answer = NoAnswer \/ Len(requests'[j].answer) <= PageSize
      /\ mount = 0 => ~crossed'
  BY <1>1, OthersStay
<1>3. Typed'
  BY <1>1, <1>2 DEF IInv, Typed, TypeOK, Numbers, server, socket
<1>4. crossed => crossed'
  BY <1>1 DEF Crossing
<1>5. LeftIsQuiet' /\ HeardIsOnTop' /\ TableShowsList'
  BY <1>1, <1>2, <1>4 DEF IInv, LeftIsQuiet, HeardIsOnTop, TableShowsList, Live
<1>6. RowsReach'
  <2> SUFFICES ASSUME Live', dataTable = mount, top > 0
               PROVE  \E lo \in 1 .. top : ReachDownTo(lo)'
    BY <1>1 DEF RowsReach
  <2>1. Live /\ \A j \in DOMAIN requests' : requests'[j].mount # mount
    BY <1>1, NoneLeft
  <2>2. PICK lo \in 1 .. top : ReachDownTo(lo)
    BY <2>1 DEF IInv, RowsReach
  <2> QED BY <1>1, <2>1, <2>2 DEF ReachDownTo, Rows, Floor, NextOffset, server
<1> QED BY <1>2, <1>3, <1>5, <1>6 DEF IInv
\* What a first page brings: nothing, or a run of numbers from offset 0.
LEMMA FirstPageKeeps ==
  ASSUME IInv, NEW i \in DOMAIN requests, NEW list \in Numbers, NEW offset \in Nat,
         FirstPage(i, list, offset),
         requests[i].mount = mount /\ Live /\ list # << >> =>
           offset = 0 /\ Len(list) <= PageSize /\ RunAt(list, 0)
  PROVE  IInv'
<1> DEFINE ours == requests[i].mount = mount
<1>1. /\ requests' = RemoveAt(requests, i) /\ requests[i].kind = "first"
      /\ allPackets' = list /\ currentOffset' = offset
      /\ dataTable' = requests[i].mount
      /\ screen' = IF ours THEN list ELSE screen
      /\ crossed' = Crossing(requests[i])
      /\ ours => heard' = << >> /\ top' = IF list = << >> THEN 0 ELSE list[1]
      /\ ~ours => UNCHANGED << heard, top >>
      /\ UNCHANGED << server, socket, mount, mounts, button >>
  BY DEF FirstPage
<1>2. /\ RequestsAreTyped' /\ LogIsContiguous' /\ AnswersAreRuns' /\ OneAtATime'
      /\ crossed' \in BOOLEAN
      /\ \A j \in DOMAIN requests' :
           /\ requests'[j].kind \in {"first", "more"}
           /\ requests'[j].mount \in 1 .. mounts
           /\ requests'[j].answer = NoAnswer \/ Len(requests'[j].answer) <= PageSize
      /\ mount = 0 => ~crossed'
  BY <1>1, OthersStay
<1>3. requests[i].mount \in 1 .. mounts /\ requests[i].mount # 0 /\ mounts \in Nat
  BY RequestFacts, BoundsAssumption DEF IInv, Typed, TypeOK
<1>4. /\ Len(list) \in Nat /\ \A j \in 1 .. Len(list) : list[j] \in Packets
      /\ list # << >> <=> Len(list) > 0
  BY ListFacts
<1>5. << >> \in Numbers /\ Len(<< >>) = 0
  BY EmptySeq DEF Numbers
<1>6. heard' \in Numbers /\ top' \in 0 .. MaxPackets /\ (screen' = NoTable \/ screen' \in Numbers)
  <2>1. heard' \in Numbers
    BY <1>1, <1>5 DEF IInv, Typed, TypeOK
  <2>2. top' \in 0 .. MaxPackets
    <3>1. CASE ours /\ list # << >>
      BY <1>1, <1>4, <3>1 DEF Packets
    <3>2. CASE ~(ours /\ list # << >>)
      BY <1>1, <3>2, BoundsAssumption DEF IInv, Typed, TypeOK
    <3> QED BY <3>1, <3>2
  <2>3. screen' = NoTable \/ screen' \in Numbers
    BY <1>1 DEF IInv, Typed, TypeOK
  <2> QED BY <2>1, <2>2, <2>3
<1>7. Typed'
  <2>1. dataTable' \in 0 .. mounts
    BY <1>1, <1>3
  <2>2. {channel', allPackets', heard'} \subseteq Numbers
    BY <1>1, <1>6 DEF IInv, Typed, TypeOK, socket
  <2>3. /\ born' \in 0 .. MaxPackets /\ log' \in Numbers /\ Len(log') <= MaxSize
        /\ connected' \in BOOLEAN /\ mounts' \in 0 .. MaxMounts /\ mount' \in {0, mounts'}
        /\ button' \in {"ready", "loading", "end"} /\ currentOffset' \in Nat
    BY <1>1 DEF IInv, Typed, TypeOK, server, socket
  <2> HIDE DEF ours
  <2> QED BY <1>1, <1>2, <1>6, <2>1, <2>2, <2>3 DEF Typed, TypeOK, Numbers
<1>8. Live' => Live /\ ours /\ \A j \in DOMAIN requests' : requests'[j].mount # mount
  BY <1>1, NoneLeft
<1>9. mount = 0 => heard' = << >>
  BY <1>1, <1>3 DEF IInv, LeftIsQuiet
<1>10. LeftIsQuiet' /\ HeardIsOnTop' /\ TableShowsList'
  <2>1. ~crossed' => heard' = << >>
    BY <1>1, <1>8, <1>9 DEF Live
  <2>2. HeardIsOnTop'
    BY <1>1, <1>4, <1>5, <2>1 DEF HeardIsOnTop
  <2>3. TableShowsList'
    BY <1>1, <1>8 DEF TableShowsList
  <2> QED BY <1>1, <1>2, <1>9, <2>2, <2>3 DEF LeftIsQuiet
<1>11. RowsReach'
  <2> SUFFICES ASSUME Live', top' > 0
               PROVE  \E lo \in 1 .. top' : ReachDownTo(lo)'
    BY DEF RowsReach
  <2>1. /\ Live /\ ours /\ list # << >> /\ top' = list[1] /\ heard' = << >>
        /\ \A j \in DOMAIN requests' : requests'[j].mount # mount'
    BY <1>1, <1>8
  <2>2. offset = 0 /\ Len(list) <= PageSize /\ RunAt(list, 0)
    BY <2>1
  <2> DEFINE n == Len(list)
             lo == list[n]
  <2>3. n \in Nat /\ n > 0 /\ lo \in Packets /\ list[1] \in Packets
    BY <1>4, <2>1
  <2>4. \A j \in 1 .. n : list[j] = list[1] + 1 - j
    BY <2>2 DEF RunAt
  <2>5. list[1] + 0 <= born /\ (n \in 1 .. PageSize - 1 => list[n] <= Floor)
    BY <2>2, <2>3 DEF RunAt
  <2>6. /\ born \in Nat /\ Floor \in Int /\ Floor' = Floor /\ born' = born
    <3>1. Len(log) \in Nat
      BY ListFacts DEF IInv, Typed, TypeOK
    <3> QED BY <1>1, <3>1 DEF IInv, Typed, TypeOK, Floor, server
  <2>7. Rows' = {list[j] : j \in 1 .. n}
    BY <1>1, <1>5, <2>1 DEF Rows
  <2> HIDE DEF n
  <2>8. lo = list[1] + 1 - n /\ lo \in 1 .. list[1]
    BY <2>3, <2>4 DEF Packets
  <2>9. lo .. list[1] \subseteq Rows'
    <3> SUFFICES ASSUME NEW q \in lo .. list[1] PROVE q \in Rows'
      OBVIOUS
    <3>1. list[1] + 1 - q \in 1 .. n /\ list[1] + 1 - (list[1] + 1 - q) = q
      BY <2>3, <2>8 DEF Packets
    <3>2. list[list[1] + 1 - q] = q
      BY <2>4, <3>1
    <3> QED BY <2>7, <3>1, <3>2
  <2>10. \A q \in Rows' : q >= lo
    BY <2>3, <2>4, <2>7, <2>8 DEF Packets
  <2>11. Floor < lo => lo - 1 <= born - (0 + PageSize)
    <3>1. n = PageSize \/ n \in 1 .. PageSize - 1
      BY <2>2, <2>3, PageSizeAssumption DEF n
    <3>2. CASE n = PageSize
      BY <2>3, <2>5, <2>6, <2>8, <3>2, PageSizeAssumption DEF Packets
    <3>3. CASE n \in 1 .. PageSize - 1
      BY <2>3, <2>5, <2>6, <3>3 DEF Packets
    <3> QED BY <3>1, <3>2, <3>3
  <2>12. NextOffset' = 0 + PageSize
    BY <1>1, <2>2 DEF NextOffset
  <2>13. ReachDownTo(lo)'
    BY <2>1, <2>6, <2>9, <2>10, <2>11, <2>12 DEF ReachDownTo
  <2> QED BY <2>1, <2>8, <2>13
<1> QED BY <1>2, <1>7, <1>10, <1>11 DEF IInv

\* The first page comes or fails: its answer is a run that began at offset 0.
LEMMA FirstKeeps ==
  ASSUME IInv, NEW i \in DOMAIN requests, FirstArrives(i) \/ FirstFails(i)
  PROVE  IInv'
<1>1. CASE FirstFails(i)
  <2>1. << >> \in Numbers /\ currentOffset \in Nat
    BY EmptySeq DEF Numbers, IInv, Typed, TypeOK
  <2> QED BY <1>1, <2>1, FirstPageKeeps DEF FirstFails
<1>2. CASE FirstArrives(i)
  <2> DEFINE a == requests[i].answer
  <2>1. a # NoAnswer /\ FirstPage(i, a, 0) /\ requests[i].kind = "first"
    BY <1>2 DEF FirstArrives, FirstPage
  <2>2. a \in Numbers /\ Len(a) <= PageSize
    BY <2>1, RequestFacts DEF IInv
  <2>3. RunAt(a, requests[i].offset)
    BY <2>1 DEF IInv, AnswersAreRuns
  <2>4. requests[i].mount = mount /\ Live => requests[i].offset = 0
    BY <2>1 DEF IInv, OneAtATime
  <2> QED BY <2>1, <2>2, <2>3, <2>4, FirstPageKeeps
<1> QED BY <1>1, <1>2

\* The page that follows: it begins at most one below the last row, because
\* packets have only moved down since it was asked for.
LEMMA MoreArrivesKeeps ==
  ASSUME IInv, NEW i \in DOMAIN requests, MoreArrives(i)
  PROVE  IInv'
<1> DEFINE rows == requests[i].answer
<1>1. /\ requests[i].kind = "more" /\ rows # NoAnswer
      /\ requests' = RemoveAt(requests, i)
      /\ allPackets' = allPackets \o rows
      /\ currentOffset' = IF rows # << >> THEN currentOffset + PageSize ELSE currentOffset
      /\ screen' = IF rows # << >> THEN ScreenAfter(allPackets') ELSE screen
      /\ button' \in {button, "end", "ready"}
      /\ crossed' = Crossing(requests[i])
      /\ UNCHANGED << server, socket, mount, mounts, dataTable, heard, top >>
  BY DEF MoreArrives, Extended
<1>2. /\ RequestsAreTyped' /\ LogIsContiguous' /\ AnswersAreRuns' /\ OneAtATime'
      /\ crossed' \in BOOLEAN
      /\ \A j \in DOMAIN requests' :
           /\ requests'[j].kind \in {"first", "more"}
           /\ requests'[j].mount \in 1 .. mounts
           /\ requests'[j].answer = NoAnswer \/ Len(requests'[j].answer) <= PageSize
      /\ mount = 0 => ~crossed'
  BY <1>1, OthersStay
<1>3. rows \in Numbers /\ Len(rows) <= PageSize
  BY <1>1, RequestFacts DEF IInv
<1>4. RunAt(rows, requests[i].offset)
  BY <1>1 DEF IInv, AnswersAreRuns
<1>m. requests[i].mount = mount /\ Live => dataTable = mount /\ requests[i].offset = NextOffset
  BY <1>1 DEF IInv, OneAtATime
<1> HIDE DEF rows
<1>5. /\ Len(rows) \in Nat /\ \A j \in 1 .. Len(rows) : rows[j] \in Packets
      /\ rows # << >> <=> Len(rows) > 0
  BY <1>3, ListFacts
<1>6. /\ allPackets \in Numbers /\ Len(allPackets) \in Nat
      /\ \A j \in 1 .. Len(allPackets) : allPackets[j] \in Packets
      /\ heard \in Numbers /\ Len(heard) \in Nat
  BY ListFacts DEF IInv, Typed, TypeOK
<1>7. /\ allPackets' \in Numbers /\ Len(allPackets') = Len(allPackets) + Len(rows)
      /\ \A j \in 1 .. Len(allPackets) + Len(rows) :
           allPackets'[j] = IF j <= Len(allPackets) THEN allPackets[j]
                            ELSE rows[j - Len(allPackets)]
  BY <1>1, <1>3, <1>6, ConcatProperties DEF Numbers
<1>8. rows = << >> => allPackets' = allPackets
  BY <1>1, <1>6, ConcatEmptySeq DEF Numbers
<1>9. Typed'
  <2>1. currentOffset' \in Nat
    BY <1>1, PageSizeAssumption DEF IInv, Typed, TypeOK
  <2>2. screen' = NoTable \/ screen' \in Numbers
    BY <1>1, <1>7 DEF ScreenAfter, IInv, Typed, TypeOK
  <2>3. button' \in {"ready", "loading", "end"}
    BY <1>1 DEF IInv, Typed, TypeOK
  <2> QED BY <1>1, <1>2, <1>7, <2>1, <2>2, <2>3
          DEF IInv, Typed, TypeOK, Numbers, server, socket
<1>10. crossed => crossed'
  BY <1>1 DEF Crossing
<1>11. LeftIsQuiet'
  BY <1>1, <1>2 DEF IInv, LeftIsQuiet
<1>12. HeardIsOnTop'
  <2> SUFFICES ASSUME ~crossed
               PROVE  /\ Len(heard) <= Len(allPackets')
                      /\ \A j \in 1 .. Len(heard) : heard[j] = allPackets'[j]
    BY <1>1, <1>10 DEF HeardIsOnTop
  <2>1. Len(heard) <= Len(allPackets) /\ \A j \in 1 .. Len(heard) : heard[j] = allPackets[j]
    BY DEF IInv, HeardIsOnTop
  <2>2. ASSUME NEW j \in 1 .. Len(heard) PROVE heard[j] = allPackets'[j]
    <3>1. j \in 1 .. Len(allPackets) + Len(rows) /\ j <= Len(allPackets)
      BY <1>5, <1>6, <2>1
    <3> QED BY <1>7, <2>1, <3>1
  <2> QED BY <1>5, <1>6, <1>7, <2>1, <2>2
<1>13. Live' => Live /\ requests[i].mount = mount
                /\ \A j \in DOMAIN requests' : requests'[j].mount # mount
  BY <1>1, NoneLeft
<1>14. TableShowsList'
  <2>1. ASSUME mount # 0, dataTable = mount PROVE screen' = allPackets'
    <3>1. screen = allPackets
      BY <2>1 DEF IInv, TableShowsList
    <3> QED BY <1>1, <1>8, <2>1, <3>1 DEF ScreenAfter
  <2>2. Live' => dataTable = mount
    BY <1>13, <1>m
  <2> QED BY <1>1, <2>1, <2>2 DEF TableShowsList
<1>15. RowsReach'
  <2> SUFFICES ASSUME Live', top > 0
               PROVE  \E lo \in 1 .. top : ReachDownTo(lo)'
    BY <1>1 DEF RowsReach
  <2>1. /\ Live /\ dataTable = mount /\ requests[i].mount = mount
        /\ requests[i].offset = NextOffset
        /\ \A j \in DOMAIN requests' : requests'[j].mount # mount'
    BY <1>1, <1>13, <1>m
  <2>2. PICK lo \in 1 .. top : ReachDownTo(lo)
    BY <2>1 DEF IInv, RowsReach
  <2>3. /\ born \in Nat /\ Floor \in Int /\ Floor' = Floor /\ born' = born /\ top' = top
        /\ top \in Nat /\ lo \in Nat /\ NextOffset \in Nat
    <3>1. Len(log) \in Nat
      BY ListFacts DEF IInv, Typed, TypeOK
    <3> QED BY <1>1, <3>1, PageSizeAssumption
            DEF IInv, Typed, TypeOK, Floor, server, NextOffset
  <2>4. lo .. top \subseteq Rows /\ \A q \in Rows : q >= lo
    BY <2>2 DEF ReachDownTo
  <2>5. Floor < lo => lo - 1 <= born - NextOffset
    BY <2>2 DEF ReachDownTo
  <2>6. CASE rows = << >>
    <3>1. Rows' = Rows /\ NextOffset' = NextOffset
      BY <1>1, <1>8, <2>6 DEF Rows, NextOffset
    <3> QED BY <2>1, <2>2, <2>3, <2>4, <2>5, <3>1 DEF ReachDownTo
  <2>7. CASE rows # << >>
    <3> DEFINE n == Len(rows)
               down == IF rows[n] < lo THEN rows[n] ELSE lo
    <3>1. n \in Nat /\ n > 0 /\ n <= PageSize /\ rows[n] \in Packets /\ rows[1] \in Packets
      BY <1>3, <1>5, <2>7
    <3>2. \A j \in 1 .. n : rows[j] = rows[1] + 1 - j
      BY <1>4 DEF RunAt
    <3>3. /\ rows[1] + NextOffset <= born
          /\ n \in 1 .. PageSize - 1 => rows[n] <= Floor
      BY <1>4, <2>1, <3>1 DEF RunAt
    <3>4. rows[1] >= lo - 1
      BY <1>1, <2>1, <2>2, <3>1 DEF ReachDownTo, rows
    <3>5. Rows' = Rows \cup {rows[j] : j \in 1 .. n}
      <4>h. Len(heard) <= Len(allPackets)
        BY <2>1 DEF IInv, HeardIsOnTop, Live
      <4>1. ASSUME NEW j \in Len(heard) + 1 .. Len(allPackets)
            PROVE  /\ j \in Len(heard) + 1 .. Len(allPackets')
                   /\ allPackets'[j] = allPackets[j]
        BY <1>5, <1>6, <1>7
      <4>2. ASSUME NEW j \in 1 .. n
            PROVE  /\ Len(allPackets) + j \in Len(heard) + 1 .. Len(allPackets')
                   /\ allPackets'[Len(allPackets) + j] = rows[j]
        <5>1. /\ Len(allPackets) + j \in 1 .. Len(allPackets) + Len(rows)
              /\ ~(Len(allPackets) + j <= Len(allPackets))
              /\ Len(allPackets) + j - Len(allPackets) = j
          BY <1>5, <1>6
        <5>2. Len(allPackets) + j \in Len(heard) + 1 .. Len(allPackets')
          BY <1>5, <1>6, <1>7, <4>h
        <5> QED BY <1>7, <5>1, <5>2
      <4>3. ASSUME NEW j \in Len(heard) + 1 .. Len(allPackets')
            PROVE  \/ j \in Len(heard) + 1 .. Len(allPackets) /\ allPackets'[j] = allPackets[j]
                   \/ j - Len(allPackets) \in 1 .. n /\ allPackets'[j] = rows[j - Len(allPackets)]
        BY <1>5, <1>6, <1>7
      <4>4. Rows \subseteq Rows'
        <5>1. heard' = heard
          BY <1>1
        <5> QED BY <4>1, <5>1 DEF Rows
      <4>5. {rows[j] : j \in 1 .. n} \subseteq Rows'
        <5> SUFFICES ASSUME NEW j \in 1 .. n PROVE rows[j] \in Rows'
          OBVIOUS
        <5>1. \E k \in Len(heard') + 1 .. Len(allPackets') : rows[j] = allPackets'[k]
          BY <1>1, <4>2
        <5> QED BY <5>1 DEF Rows
      <4>6. Rows' \subseteq Rows \cup {rows[j] : j \in 1 .. n}
        <5> SUFFICES ASSUME NEW j \in Len(heard) + 1 .. Len(allPackets')
                     PROVE  allPackets'[j] \in Rows \cup {rows[k] : k \in 1 .. n}
          BY <1>1 DEF Rows
        <5> QED BY <4>3 DEF Rows
      <4> QED BY <4>4, <4>5, <4>6
    <3> HIDE DEF n
    <3>6. rows[n] = rows[1] + 1 - n
      BY <3>1, <3>2
    <3>7. down \in 1 .. top /\ down <= lo /\ down <= rows[n] /\ down \in Nat
      BY <2>3, <3>1 DEF Packets
    <3>8. down .. top \subseteq Rows'
      <4> SUFFICES ASSUME NEW q \in down .. top PROVE q \in Rows'
        OBVIOUS
      <4>1. CASE q >= lo
        BY <2>3, <2>4, <3>5, <3>7, <4>1
      <4>2. CASE ~(q >= lo)
        <5>1. rows[n] <= q /\ q <= rows[1]
          BY <2>3, <3>1, <3>4, <3>7, <4>2 DEF Packets
        <5>2. rows[1] + 1 - q \in 1 .. n /\ rows[1] + 1 - (rows[1] + 1 - q) = q
          BY <2>3, <3>1, <3>6, <3>7, <5>1 DEF Packets
        <5>3. rows[rows[1] + 1 - q] = q
          BY <3>2, <5>2
        <5> QED BY <3>5, <5>2, <5>3
      <4> QED BY <4>1, <4>2
    <3>9. \A q \in Rows' : q >= down
      <4>1. \A j \in 1 .. n : rows[j] \in Packets /\ rows[j] >= rows[n]
        BY <3>1, <3>2, <3>6, <1>5 DEF n, Packets
      <4>2. ASSUME NEW q \in Rows PROVE q >= down
        <5>1. q \in Packets
          <6>1. PICK j \in Len(heard) + 1 .. Len(allPackets) : q = allPackets[j]
            BY DEF Rows
          <6> QED BY <1>6, <6>1
        <5>2. q >= lo
          BY <2>4
        <5> QED BY <2>3, <3>7, <5>1, <5>2 DEF Packets
      <4>3. ASSUME NEW j \in 1 .. n PROVE rows[j] >= down
        <5>1. rows[j] \in Packets /\ rows[j] >= rows[n]
          BY <4>1
        <5> QED BY <3>1, <3>7, <5>1 DEF Packets
      <4> QED BY <3>5, <4>2, <4>3
    <3>10. NextOffset' = NextOffset + PageSize
      BY <1>1, <2>7, PageSizeAssumption DEF NextOffset, IInv, Typed, TypeOK
    <3>11. Floor < down => down - 1 <= born - (NextOffset + PageSize)
      <4>1. n = PageSize \/ n \in 1 .. PageSize - 1
        BY <3>1, PageSizeAssumption
      <4>2. CASE n = PageSize
        BY <2>3, <3>1, <3>3, <3>6, <3>7, <4>2, PageSizeAssumption DEF Packets
      <4>3. CASE n \in 1 .. PageSize - 1
        BY <2>3, <3>1, <3>3, <3>7, <4>3 DEF Packets
      <4> QED BY <4>1, <4>2, <4>3
    <3>12. PICK d \in 1 .. top : d = down
      BY <3>7
    <3> HIDE DEF down
    <3>13. ReachDownTo(d)'
      BY <2>1, <2>3, <3>8, <3>9, <3>10, <3>11, <3>12 DEF ReachDownTo
    <3> QED BY <3>13
  <2> QED BY <2>6, <2>7
<1> QED BY <1>2, <1>9, <1>11, <1>12, <1>14, <1>15 DEF IInv
-----------------------------------------------------------------------------
(* The theorems.                                                           *)

\* Every step keeps the invariant.
LEMMA StepKeeps == IInv /\ [Next]_vars => IInv'
<1> SUFFICES ASSUME IInv, [Next]_vars PROVE IInv'
  OBVIOUS
<1>1. CASE UNCHANGED vars
  <2>1. /\ UNCHANGED << page, requests, history >>
        /\ UNCHANGED << born, log, connected, channel >>
    BY <1>1 DEF vars, server, socket
  <2>2. TypeOK'
    BY <2>1 DEF IInv, Typed, TypeOK, Numbers, page, history
  <2>3. RequestsAreTyped'
    BY <2>1 DEF IInv, Typed, RequestsAreTyped, Numbers
  <2>4. LogIsContiguous'
    BY <2>1 DEF IInv, LogIsContiguous
  <2>5. Floor' >= Floor /\ born' >= born
    BY <2>1, ListFacts DEF Floor, IInv, Typed, TypeOK
  <2> QED BY <2>1, <2>2, <2>3, <2>4, <2>5, LogMovesOn DEF Typed
<1>2. ASSUME NEW i \in DOMAIN requests, Served(i) \/ Answered(i) PROVE IInv'
  BY <1>2, ServedKeeps, FirstKeeps, MoreArrivesKeeps, MoreFailsKeeps DEF Answered
<1> QED BY <1>1, <1>2, PacketArrivesKeeps, ConnectionKeeps, EventArrivesKeeps, MountKeeps,
           UnmountKeeps, LoadMoreKeeps DEF Next

\* In every behaviour the list, the rows pages brought and the requests under
\* way fit together as IInv says.
THEOREM FeedInvariant == Spec => []IInv
BY InitInv, StepKeeps, PTL DEF Spec

\* The page's variables keep their types through every order of answers.
THEOREM TypesAreKept == Spec => []TypeOK
<1>1. IInv => TypeOK
  BY DEF IInv, Typed
<1> QED BY <1>1, FeedInvariant, PTL

\* Once the first page is there, every event heard is at the top of the
\* list, newest first, and stays there while loadMore extends the list;
\* unless in this mount an answer crossed.
THEOREM EventsStayOnTop == Spec => []EventsSurvivePaging
<1>1. IInv => EventsSurvivePaging
  <2> SUFFICES ASSUME IInv, OnDisplay PROVE IsPrefix(heard, allPackets)
    BY DEF EventsSurvivePaging
  <2>1. Len(heard) <= Len(allPackets) /\ \A i \in 1 .. Len(heard) : heard[i] = allPackets[i]
    BY DEF IInv, HeardIsOnTop, OnDisplay
  <2>2. /\ Len(heard) \in Nat /\ \A i \in 1 .. Len(heard) : heard[i] \in Packets
        /\ Len(allPackets) \in Nat
    BY ListFacts DEF IInv, Typed, TypeOK
  <2> DEFINE s == SubSeq(heard, 1, Len(heard))
             t == SubSeq(allPackets, 1, Len(heard))
  <2>3. /\ s \in Seq(Packets) /\ Len(s) = Len(heard)
        /\ \A i \in 1 .. Len(heard) : s[i] = heard[i]
    <3>1. 1 \in Int /\ Len(heard) \in Int /\ \A i \in 1 .. Len(heard) : heard[i] \in Packets
      BY <2>2
    <3>2. /\ s \in Seq(Packets)
          /\ Len(s) = IF 1 <= Len(heard) THEN Len(heard) - 1 + 1 ELSE 0
          /\ \A i \in 1 .. Len(heard) - 1 + 1 : s[i] = heard[1 + i - 1]
      BY <3>1, SubSeqProperties
    <3> HIDE DEF s
    <3> QED BY <2>2, <3>2
  <2>4. /\ t \in Seq(Packets) /\ Len(t) = Len(heard)
        /\ \A i \in 1 .. Len(heard) : t[i] = allPackets[i]
    <3>1. /\ 1 \in Int /\ Len(heard) \in Int
          /\ \A i \in 1 .. Len(heard) : allPackets[i] \in Packets
      BY <2>1, <2>2
    <3>2. /\ t \in Seq(Packets)
          /\ Len(t) = IF 1 <= Len(heard) THEN Len(heard) - 1 + 1 ELSE 0
          /\ \A i \in 1 .. Len(heard) - 1 + 1 : t[i] = allPackets[1 + i - 1]
      BY <3>1, SubSeqProperties
    <3> HIDE DEF t
    <3> QED BY <2>2, <3>2
  <2> HIDE DEF s, t
  <2>5. s = t
    BY <2>1, <2>3, <2>4, SeqEqual
  <2> QED BY <2>1, <2>5 DEF IsPrefix, s, t
<1> QED BY <1>1, FeedInvariant, PTL

\* As long as the table is the current mount's, it shows the list, whatever
\* events, answers and failures came, in whatever order and of whatever mount.
THEOREM TableIsTheList == Spec => []ScreenShowsList
<1>1. IInv => ScreenShowsList
  BY DEF IInv, TableShowsList, ScreenShowsList
<1> QED BY <1>1, FeedInvariant, PTL

\* Pages leave no gap: from the newest packet of the first page down, no
\* packet is missing between two rows, however many packets arrive, are
\* evicted, or are lost in restarts between two requests; unless in this
\* mount an answer crossed.
THEOREM NoGapBetweenPages == Spec => []PagesLeaveNoGap
<1>1. IInv => PagesLeaveNoGap
  <2> DEFINE n == Len(allPackets)
             m == Len(heard) + 1
             rows == ToSet(SubSeq(allPackets, m, n))
  <2> SUFFICES ASSUME IInv, OnDisplay, NEW p \in 1 .. top, NEW q \in rows, q <= p
               PROVE  p \in rows
    BY DEF PagesLeaveNoGap
  <2>1. /\ n \in Nat /\ m \in Nat /\ m > 0 /\ n + 1 >= m
        /\ \A i \in 1 .. n : allPackets[i] \in Packets
    <3>1. Len(heard) \in Nat /\ Len(heard) <= Len(allPackets)
      BY ListFacts DEF IInv, Typed, TypeOK, HeardIsOnTop, OnDisplay
    <3> QED BY <3>1, ListFacts DEF IInv, Typed, TypeOK
  <2>2. rows = Rows
    <3> DEFINE s == SubSeq(allPackets, m, n)
    <3>0. rows = {s[i] : i \in DOMAIN s}
      BY DEF ToSet
    <3> HIDE DEF n, m, rows
    <3>1. /\ s \in Seq(Packets) /\ Len(s) = IF m <= n THEN n - m + 1 ELSE 0
          /\ \A i \in 1 .. n - m + 1 : s[i] = allPackets[m + i - 1]
      BY <2>1, SubSeqProperties
    <3> HIDE DEF s
    <3>2. DOMAIN s = 1 .. n - m + 1
      BY <2>1, <3>1, LenProperties
    <3>3. ASSUME NEW i \in DOMAIN s PROVE s[i] = allPackets[m + i - 1] /\ m + i - 1 \in m .. n
      BY <2>1, <3>1, <3>2
    <3>4. ASSUME NEW i \in m .. n
          PROVE  i - m + 1 \in DOMAIN s /\ s[i - m + 1] = allPackets[i]
      <4>1. i - m + 1 \in 1 .. n - m + 1 /\ m + (i - m + 1) - 1 = i
        BY <2>1
      <4> QED BY <3>1, <3>2, <4>1
    <3>5. Rows = {allPackets[i] : i \in m .. n}
      BY DEF Rows, m, n
    <3> QED BY <3>0, <3>3, <3>4, <3>5
  <2> HIDE DEF rows
  <2>3. Live /\ dataTable = mount /\ top > 0 /\ top \in Nat
    BY DEF IInv, TableShowsList, OnDisplay, Live, Typed, TypeOK
  <2>4. PICK lo \in 1 .. top : ReachDownTo(lo)
    BY <2>3 DEF IInv, RowsReach
  <2>5. q >= lo /\ lo .. top \subseteq rows
    BY <2>2, <2>4 DEF ReachDownTo
  <2>6. q \in Packets
    <3>1. PICK i \in Len(heard) + 1 .. Len(allPackets) : q = allPackets[i]
      BY <2>2 DEF Rows
    <3> QED BY <2>1, <3>1
  <2>7. p \in lo .. top
    BY <2>3, <2>5, <2>6 DEF Packets
  <2> QED BY <2>5, <2>7
<1> QED BY <1>1, FeedInvariant, PTL
=============================================================================
