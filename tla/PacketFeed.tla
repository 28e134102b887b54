------------------------------ MODULE PacketFeed ------------------------------
(***************************************************************************)
(* The packet page of the dashboard (public/js/pages/packets.js) over the  *)
(* client's WebSocket manager and router (public/js/app.js), against the   *)
(* server's packet log and its GET /api/packets (src/routes/packets.js).   *)
(*                                                                         *)
(* Packets are numbered in the order in which the server receives them.    *)
(* What the page keeps lives in variables of its JavaScript module, which  *)
(* outlive a mount: an answer may come when the page was left, or mounted  *)
(* again.  The WebSocket delivers in order, answers come in any order.     *)
(* Sorting and filtering in the table are left out.                        *)
(***************************************************************************)
EXTENDS Naturals, Sequences, SequencesExt

CONSTANTS
  MaxSize,     \* size of the server's packet log
  PageSize,    \* PAGE_SIZE
  MaxPackets,  \* bound: packets the server receives
  MaxMounts,   \* bound: how often the page is opened
  MaxOffset,   \* bound: the largest offset asked for
  MaxRequests, \* bound: requests under way at once
  NoAnswer,    \* a request the server has not answered yet
  NoTable      \* no table is on the screen yet

ASSUME PageSizeAssumption == PageSize \in Nat \ {0}
ASSUME BoundsAssumption == MaxSize \in Nat \ {0} /\ MaxPackets \in Nat /\ MaxMounts \in Nat
ASSUME NoneAssumption == NoAnswer \notin Seq(Nat) /\ NoTable \notin Seq(Nat)

VARIABLES
  born,           \* packets received so far
  log,            \* listing of the server's packet store
  connected,      \* is the client's WebSocket open?
  channel,        \* events sent on the WebSocket and not yet delivered
  mount,          \* number of the current mount of the page, 0 if it is left
  mounts,         \* mounts so far
  allPackets,     \* the page's list
  currentOffset,
  dataTable,      \* the mount in whose container the table was made, or 0
  button,         \* "ready", "loading" or "end" (loadMoreBtn)
  requests,       \* requests under way
  screen,         \* what the table on the screen shows
  heard,          \* history: events heard since the first page came, newest first
  top,            \* history: the newest packet of the mount's first page
  crossed         \* history: in this mount, a page was asked for before the
                  \* first one came, or an answer to an earlier mount arrived

server == << born, log >>
socket == << connected, channel >>
page == << mount, mounts, allPackets, currentOffset, dataTable, button, screen >>
history == << heard, top, crossed >>
vars == << server, socket, page, requests, history >>

Log == INSTANCE PacketLog WITH Packet <- 1 .. MaxPackets

Request(kind, m, offset) ==
  [kind |-> kind, mount |-> m, offset |-> offset, answer |-> NoAnswer]

\* Slip: the table is made once and not updated.
ScreenKept(list) == screen

\* dataTable.update(list): seen only if the table is that of this mount.
ScreenAfter(list) ==
  IF mount # 0 /\ dataTable = mount THEN list ELSE screen

-----------------------------------------------------------------------------
(* The server.                                                             *)

\* A packet arrives: the handler adds it to the store and broadcasts it.
PacketArrives ==
  /\ born < MaxPackets
  /\ born' = born + 1
  /\ log' = Log!Pushed(born + 1, log)
  /\ channel' = IF connected THEN Append(channel, born + 1) ELSE channel
  /\ UNCHANGED << connected, page, requests, history >>

\* Slip: the end of the slice is included.
SliceIncluded(offset) ==
  SubSeq(log, offset + 1,
         IF offset + PageSize < Len(log) THEN offset + PageSize + 1 ELSE Len(log))

\* The slice of GET /api/packets: items.slice(offset, offset + limit).
Slice(offset) ==
  SubSeq(log, offset + 1,
         IF offset + PageSize < Len(log) THEN offset + PageSize ELSE Len(log))

\* The server answers request i with what it lists now.
Served(i) ==
  /\ requests[i].answer = NoAnswer
  /\ requests' = [requests EXCEPT ![i].answer = Slice(requests[i].offset)]
  /\ UNCHANGED << server, socket, page, history >>

-----------------------------------------------------------------------------
(* The client's WebSocket manager.                                         *)

\* A connection ends; what was under way on it is lost.
SocketCloses ==
  /\ connected
  /\ connected' = FALSE
  /\ channel' = << >>
  /\ UNCHANGED << server, page, requests, history >>

\* The manager's reconnect timer calls connect() until it succeeds.  Nothing
\* tells the page: what it missed stays missed.
SocketOpens ==
  /\ ~connected
  /\ connected' = TRUE
  /\ UNCHANGED << server, channel, page, requests, history >>

\* The server restarts: its stores are empty and its connections end.
ServerRestarts ==
  /\ log # << >>
  /\ log' = << >>
  /\ connected' = FALSE
  /\ channel' = << >>
  /\ UNCHANGED << born, page, requests, history >>

\* A message event: the bus calls the page's handler while it is mounted.
EventArrives ==
  /\ channel # << >>
  /\ channel' = Tail(channel)
  /\ IF mount = 0 THEN UNCHANGED << page, heard >>
     ELSE /\ allPackets' = << Head(channel) >> \o allPackets
          /\ screen' = ScreenAfter(allPackets')
          /\ heard' = << Head(channel) >> \o heard
          /\ UNCHANGED << mount, mounts, currentOffset, dataTable, button >>
  /\ UNCHANGED << server, connected, requests, top, crossed >>

-----------------------------------------------------------------------------
(* The page.                                                               *)

\* navigate() to the page, whose module is loaded, and mount().  The list
\* of an earlier mount is not touched: unmount emptied it.
Mount ==
  /\ mount = 0 /\ mounts < MaxMounts /\ Len(requests) < MaxRequests
  /\ mount' = mounts + 1
  /\ mounts' = mounts + 1
  /\ button' = "ready"
  /\ screen' = NoTable
  /\ requests' = Append(requests, Request("first", mounts + 1, 0))
  /\ UNCHANGED << server, socket, allPackets, currentOffset, dataTable, history >>

\* navigate() to another page: unmount() resets the module's variables.
\* Requests go on.
Unmount ==
  /\ mount # 0
  /\ mount' = 0
  /\ dataTable' = 0
  /\ allPackets' = << >>
  /\ currentOffset' = 0
  /\ button' = "ready"
  /\ screen' = NoTable
  /\ heard' = << >> /\ top' = 0 /\ crossed' = FALSE
  /\ UNCHANGED << server, socket, mounts, requests >>

Crossing(r) == crossed \/ (mount # 0 /\ r.mount # mount)

\* loadInitialData goes on after its request, with the answer or, if the
\* request failed, with no packets: the list starts anew.
FirstPage(i, list, offset) ==
  /\ requests[i].kind = "first"
  /\ requests' = RemoveAt(requests, i)
  /\ allPackets' = list
  /\ currentOffset' = offset
  /\ dataTable' = requests[i].mount
  /\ screen' = IF requests[i].mount = mount THEN list ELSE screen
  /\ crossed' = Crossing(requests[i])
  /\ IF requests[i].mount = mount
     THEN heard' = << >> /\ top' = IF list = << >> THEN 0 ELSE list[1]
     ELSE UNCHANGED << heard, top >>
  /\ UNCHANGED << server, socket, mount, mounts, button >>

FirstArrives(i) ==
  requests[i].answer # NoAnswer /\ FirstPage(i, requests[i].answer, 0)

FirstFails(i) == FirstPage(i, << >>, currentOffset)

\* Slip: ask for what follows the rows on display.
OffsetOfRows == Len(allPackets)

NextOffset == currentOffset + PageSize

\* loadMore(): the button is clicked.
LoadMore ==
  /\ mount # 0 /\ button = "ready"
  /\ NextOffset <= MaxOffset /\ Len(requests) < MaxRequests
  /\ button' = "loading"
  /\ requests' = Append(requests, Request("more", mount, NextOffset))
  /\ crossed' = (crossed \/ dataTable # mount)
  /\ UNCHANGED << server, socket, mount, mounts, allPackets, currentOffset, dataTable,
                  screen, heard, top >>

\* Slip: the rows go to the front.
ExtendedInFront(rows) == rows \o allPackets

Extended(rows) == allPackets \o rows

\* loadMore() goes on: whichever mount asked, the rows go to the end of the
\* list and the button of the current mount is set.
MoreArrives(i) ==
  LET rows == requests[i].answer
  IN  /\ requests[i].kind = "more" /\ rows # NoAnswer
      /\ requests' = RemoveAt(requests, i)
      /\ allPackets' = Extended(rows)
      /\ currentOffset' = IF rows # << >> THEN currentOffset + PageSize ELSE currentOffset
      /\ screen' = IF rows # << >> THEN ScreenAfter(allPackets') ELSE screen
      /\ button' = IF mount = 0 THEN button
                   ELSE IF Len(rows) < PageSize THEN "end" ELSE "ready"
      /\ crossed' = Crossing(requests[i])
      /\ UNCHANGED << server, socket, mount, mounts, dataTable, heard, top >>

\* Slip: the button is left as it is.
MoreFailsSilently(i) ==
  /\ requests[i].kind = "more"
  /\ requests' = RemoveAt(requests, i)
  /\ crossed' = Crossing(requests[i])
  /\ UNCHANGED << server, socket, page, heard, top >>

\* loadMore() with a failed request: the button can be clicked again.
MoreFails(i) ==
  /\ requests[i].kind = "more"
  /\ requests' = RemoveAt(requests, i)
  /\ button' = IF mount = 0 THEN button ELSE "ready"
  /\ crossed' = Crossing(requests[i])
  /\ UNCHANGED << server, socket, mount, mounts, allPackets, currentOffset, dataTable,
                  screen, heard, top >>

-----------------------------------------------------------------------------
Init ==
  /\ born \in 0 .. MaxPackets
  /\ log = Reverse([i \in 1 .. born |-> i])
  /\ Len(log) <= MaxSize
  /\ connected = FALSE /\ channel = << >>
  /\ mount = 0 /\ mounts = 0
  /\ allPackets = << >> /\ currentOffset = 0 /\ dataTable = 0
  /\ button = "ready" /\ screen = NoTable
  /\ requests = << >>
  /\ heard = << >> /\ top = 0 /\ crossed = FALSE

Answered(i) ==
  \/ FirstArrives(i)
  \/ FirstFails(i)
  \/ MoreArrives(i)
  \/ MoreFails(i)

Next ==
  \/ PacketArrives
  \/ \E i \in DOMAIN requests : Served(i) \/ Answered(i)
  \/ SocketOpens
  \/ SocketCloses
  \/ ServerRestarts
  \/ EventArrives
  \/ Mount
  \/ Unmount
  \/ LoadMore

\* A browser ends every request with an answer or an error.
Fairness ==
  \A kind \in {"first", "more"}, m \in 1 .. MaxMounts :
    WF_vars(\E i \in DOMAIN requests :
              requests[i].kind = kind /\ requests[i].mount = m /\ Answered(i))

Spec == Init /\ [][Next]_vars /\ Fairness

-----------------------------------------------------------------------------
(* Properties.                                                             *)

Numbers == Seq(1 .. MaxPackets)

TypeOK ==
  /\ born \in 0 .. MaxPackets
  /\ log \in Numbers /\ Len(log) <= MaxSize
  /\ connected \in BOOLEAN
  /\ {channel, allPackets, heard} \subseteq Numbers
  /\ mounts \in 0 .. MaxMounts /\ mount \in {0, mounts} /\ dataTable \in 0 .. mounts
  /\ currentOffset \in Nat
  /\ button \in {"ready", "loading", "end"}
  /\ \A i \in DOMAIN requests :
       /\ requests[i].kind \in {"first", "more"} /\ requests[i].mount \in 1 .. mounts
       /\ requests[i].answer = NoAnswer \/ Len(requests[i].answer) <= PageSize
  /\ screen = NoTable \/ screen \in Numbers
  /\ top \in 0 .. MaxPackets /\ crossed \in BOOLEAN

OnDisplay == mount # 0 /\ screen # NoTable /\ ~crossed

\* From the newest packet of the first page down, no packet is missing
\* between two rows that pages brought, although packets arrive, are
\* evicted, and are missed on the WebSocket while pages are turned.  (A row
\* may be there twice.)  Not so once an answer crossed: one to an earlier
\* mount came in, or a page was asked for before the first one was there.
PagesLeaveNoGap ==
  LET rows == ToSet(SubSeq(allPackets, Len(heard) + 1, Len(allPackets)))
  IN  OnDisplay =>
        \A p \in 1 .. top : (\E q \in rows : q <= p) => p \in rows

\* Once the first page is there, every event heard is at the top of the
\* list, newest first, and stays there while pages are fetched, unless an
\* answer crossed (the first page of an earlier mount starts the list anew).
EventsSurvivePaging ==
  OnDisplay => IsPrefix(heard, allPackets)

\* The table on the screen shows the page's list, although answers come when
\* events have made it longer, in the wrong order, or from mounts that were
\* left.  Exempted is only the mount whose table an earlier mount's first
\* page has taken the place of: see ScreenIsLive.
ScreenShowsList == mount # 0 /\ dataTable = mount => screen = allPackets

\* The same without that exemption: a page that was left and opened again
\* goes on scrolling with the packets that arrive.
ScreenIsLive == mount # 0 /\ screen # NoTable => screen = allPackets

\* Loading ends: again and again the page is left, or has its table and a
\* button that does not say Loading, even if every request fails.
LoadingEnds ==
  []<>(mount = 0 \/ (screen # NoTable /\ button # "loading"))
=============================================================================
