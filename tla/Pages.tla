-------------------------------- MODULE Pages --------------------------------
(***************************************************************************)
(* The dashboard in the browser (src/public/js/app.js, pages/): the router *)
(* imports page modules, mounts and unmounts them in one element; pages    *)
(* request data when they are mounted or something is chosen on them,      *)
(* write the answers into the screen, register handlers and create charts  *)
(* and maps, which somebody must destroy.  Page modules are singletons:    *)
(* what one mount leaves in their variables, the next one finds, and no    *)
(* page asks, when an answer comes, whether it is still the one shown.     *)
(*                                                                         *)
(* Requests are answered in any order, with data, with nothing to show, or *)
(* with a failure.  The packet page has module PacketFeed; what is drawn   *)
(* from an answer is told apart by what was asked for alone.               *)
(***************************************************************************)
EXTENDS Integers, FiniteSets, FiniteSetsExt

CONSTANTS
  NULL,
  Visited,   \* pages the user goes to
  Id,        \* ids of nodes and observers in addresses
  Hash,      \* packet hashes to search for
  Channel,   \* names of channels
  MaxNavs,   \* bound: navigations
  MaxInputs  \* bound: navigations and choices of a tab, a filter, a channel, a hash

VARIABLES
  address,    \* [page, id] of location.hash
  navs,       \* navigations so far
  current,    \* currentModule: the page to unmount next, or NULL
  imported,   \* pages whose modules are loaded
  importing,  \* navigations that wait for their module: [page, id, nav]
  view,       \* what #app shows: [page, nav that mounted it, shown]
  loads,      \* requests in flight: [page, nav, pick, step, arg]
  mod,        \* page -> the variables of its module
  handlers,   \* page -> its handlers on the event bus
  lost,       \* pages of which a chart or map is left that nobody can destroy
  picks,      \* choices so far
  hasty       \* history: see "Hurry" below

vars == << address, navs, current, imported, importing, view, loads, mod, handlers,
           lost, picks, hasty >>

-----------------------------------------------------------------------------
(* The pages.  What a mount does: the request it starts with (asks), a     *)
(* handler it registers (subscribes), what it shows at first and what is   *)
(* chosen at first (sel); inPlace: answers are written into an element a   *)
(* module variable refers to (area), not into one kept by the request.     *)

Plain == [asks |-> NULL, subscribes |-> FALSE, shows |-> "frame", sel |-> NULL,
          inPlace |-> FALSE]

HomePage == [Plain EXCEPT !.asks = "stats", !.subscribes = TRUE]
HealthPage == [Plain EXCEPT !.asks = "health"]
MapPage == [Plain EXCEPT !.asks = "nodes", !.sel = "off"]
ChannelsPage == [Plain EXCEPT !.asks = "channels"]
RepeatersPage == [Plain EXCEPT !.asks = "repeaters", !.sel = "all"]
ObserversPage == [Plain EXCEPT !.asks = "observers"]
TracesPage == [Plain EXCEPT !.inPlace = TRUE]
LeaderboardsPage ==
  [Plain EXCEPT !.asks = "boards", !.shows = "spinner", !.sel = "all", !.inPlace = TRUE]
RepeaterPage == [Plain EXCEPT !.asks = "detail", !.shows = "spinner"]
NodePage == [Plain EXCEPT !.asks = "detail", !.shows = "spinner"]
ObserverPage == [Plain EXCEPT !.asks = "detail", !.shows = "spinner"]

routes ==
  [home |-> HomePage, health |-> HealthPage, map |-> MapPage, channels |-> ChannelsPage,
   repeaters |-> RepeatersPage, observers |-> ObserversPage, traces |-> TracesPage,
   leaderboards |-> LeaderboardsPage, repeater |-> RepeaterPage, node |-> NodePage,
   observer |-> ObserverPage]

Page == DOMAIN routes

\* NULL is no page, no choice and no request.
ASSUME PageAssumption ==
  /\ Visited \subseteq Page
  /\ NULL \notin Page \cup {"unknown", "malformed"} \cup Hash \cup Channel
  /\ \A p \in Page \ {"traces"} : routes[p].asks # NULL

ASSUME BoundAssumption == MaxNavs \in Nat /\ MaxInputs \in Nat

Detail == {"repeater", "node", "observer"}
Window == {"24h", "all"}
Filters == {"all", "offline"}

\* Addresses no page has: one that no route matches, and one of a detail page
\* with an escape in its id that cannot be decoded.
NoPage == {"unknown", "malformed"}

\* The addresses: a page, with an id where its route has one, or none.
Target == [page : Visited \ Detail, id : {NULL}] \cup [page : Visited \cap Detail, id : Id]
            \cup [page : NoPage, id : {NULL}]

Request(p, nav, step, arg) ==
  [page |-> p, nav |-> nav, pick |-> picks, step |-> step, arg |-> arg]

Waits(p) == \E l \in loads : l.page = p

-----------------------------------------------------------------------------
(* Mounting.                                                               *)

\* Slip: a chart or map is forgotten instead of destroyed.
IdleKeeping(p) ==
  [mounted |-> 0, area |-> 0, sel |-> routes[p].sel, handle |-> FALSE,
   objects |-> mod[p].objects, marks |-> FALSE]

\* The variables of an unmounted page: the navigation that mounted it, the
\* one whose element area refers to, what is chosen, whether a handler is
\* remembered, how many charts or maps are, and whether coverage is drawn.
Idle(p) ==
  [mounted |-> 0, area |-> 0, sel |-> routes[p].sel, handle |-> FALSE,
   objects |-> 0, marks |-> FALSE]

\* currentModule.unmount(): it stays the current module meanwhile.
Unmounted == IF current = NULL THEN mod ELSE [mod EXCEPT ![current] = Idle(current)]

Unsubscribed ==
  IF current # NULL /\ mod[current].handle
  THEN [handlers EXCEPT ![current] = @ - 1] ELSE handlers

\* The mounts of page p by the navigations of M, in their order, on top of
\* variables m and handlers h: each registers and requests, the last one is
\* seen.  A handler registered before is no longer remembered.
Mount(p, M, m, h) ==
  LET last == Max({w.nav : w \in M})
      fresh == p \in {"repeaters", "traces"}
      sel == IF fresh THEN routes[p].sel ELSE m[p].sel
      arg(w) == IF p \in Detail THEN w.id ELSE IF p = "leaderboards" THEN sel ELSE NULL
  IN  /\ current' = p
      /\ view' = [page |-> p, nav |-> last, shown |-> routes[p].shows]
      /\ mod' = [m EXCEPT ![p].mounted = last, ![p].sel = sel,
                          ![p].area = IF routes[p].inPlace THEN last ELSE @,
                          ![p].handle = @ \/ routes[p].subscribes]
      /\ handlers' = [h EXCEPT ![p] = @ + IF routes[p].subscribes
                                          THEN Cardinality(M) ELSE 0]
      /\ loads' = loads \cup IF routes[p].asks = NULL THEN {}
                             ELSE {Request(p, w.nav, routes[p].asks, arg(w)) : w \in M}

\* Hurry: a navigation while another waits for its module, a page left or
\* changed while an answer to it is under way.
Hurry(p) ==
  hasty' = hasty \cup (IF p # NULL /\ Waits(p) THEN {p} ELSE {})

-----------------------------------------------------------------------------
(* The router.                                                             *)

\* navigate: the current page is unmounted; the module of the next is
\* imported, unless it is there, and then mounted.  For a malformed address
\* matchRoute throws: the page that was unmounted stays on the screen and
\* remains the current one.  Two addresses without a page may differ.
Navigate(target) ==
  /\ navs < MaxNavs /\ navs + picks < MaxInputs
  /\ target # address \/ target.page \in NoPage
  /\ navs' = navs + 1
  /\ address' = target
  /\ hasty' = hasty \cup (IF importing # {} THEN {"overlap"} ELSE {})
                    \cup (IF current # NULL /\ Waits(current) THEN {current} ELSE {})
  /\ LET w == [page |-> target.page, id |-> target.id, nav |-> navs + 1]
     IN  IF target.page \in imported
         THEN /\ Mount(target.page, {w}, Unmounted, Unsubscribed)
              /\ UNCHANGED importing
         ELSE /\ mod' = Unmounted
              /\ handlers' = Unsubscribed
              /\ CASE target.page = "malformed" -> UNCHANGED << current, view, importing >>
                   [] target.page = "unknown" ->
                        /\ current' = NULL
                        /\ view' = [page |-> "unknown", nav |-> w.nav, shown |-> "not found"]
                        /\ UNCHANGED importing
                   [] OTHER ->
                        /\ importing' = importing \cup {w}
                        /\ view' = [page |-> w.page, nav |-> w.nav, shown |-> "spinner"]
                        /\ UNCHANGED current
              /\ UNCHANGED loads
  /\ UNCHANGED << imported, lost, picks >>

\* Slip: the latest navigation alone.
WaitingLatest(p) ==
  LET all == {w \in importing : w.page = p}
  IN  {w \in all : \A v \in all : v.nav <= w.nav}

\* The navigations that wait for the module of p.
Waiting(p) == {w \in importing : w.page = p}

\* The module comes: all that wait for it go on, one right after the other,
\* and whatever was mounted meanwhile is not unmounted.
ImportArrives(p) ==
  /\ Waiting(p) # {}
  /\ importing' = importing \ Waiting(p)
  /\ imported' = imported \cup {p}
  /\ Mount(p, Waiting(p), mod, handlers)
  /\ UNCHANGED << address, navs, lost, picks, hasty >>

ImportFails(p) ==
  /\ Waiting(p) # {}
  /\ importing' = importing \ Waiting(p)
  /\ current' = NULL
  /\ view' = [page |-> p, nav |-> Max({w.nav : w \in Waiting(p)}), shown |-> "error"]
  /\ UNCHANGED << address, navs, imported, loads, mod, handlers, lost, picks, hasty >>

-----------------------------------------------------------------------------
(* Answers.                                                                *)

Outcome == {"data", "none", "failed"}

\* What is shown after one writes into the element of navigation nav, which
\* is seen only if it is still on the screen.
Written(nav, what) == IF view.nav = nav THEN [view EXCEPT !.shown = what] ELSE view

Answered(l) == loads' = loads \ {l}

FollowedBy(l, step) == loads' = (loads \ {l}) \cup {[l EXCEPT !.step = step]}

\* A module variable that holds one chart or map is overwritten.
Created(p) ==
  /\ mod' = [mod EXCEPT ![p].objects = 1]
  /\ lost' = IF mod[p].objects > 0 THEN lost \cup {p} ELSE lost

NothingCreated == UNCHANGED << mod, lost >>

\* loadDashboardData: three requests, one after the other; the chart of the
\* packets is created whether or not the page is still there.
HomeAnswer(l, outcome) ==
  /\ l.page = "home"
  /\ CASE l.step = "stats" -> FollowedBy(l, "score") /\ UNCHANGED view /\ NothingCreated
       [] l.step = "score" -> FollowedBy(l, "packets") /\ UNCHANGED view /\ NothingCreated
       [] l.step = "packets" ->
            /\ Answered(l)
            /\ view' = Written(l.nav, "data")
            /\ IF outcome = "failed" THEN NothingCreated ELSE Created("home")
  /\ UNCHANGED handlers

HealthAnswer(l, outcome) ==
  /\ l.page = "health"
  /\ IF l.step = "health" THEN FollowedBy(l, "observers") /\ UNCHANGED view
     ELSE Answered(l) /\ view' = Written(l.nav, "data")
  /\ NothingCreated
  /\ UNCHANGED handlers

ObserversAnswer(l, outcome) ==
  /\ l.page = "observers"
  /\ Answered(l)
  /\ view' = Written(l.nav, "data")
  /\ NothingCreated
  /\ UNCHANGED handlers

\* The table is the one of this request, with all repeaters.
RepeatersAnswer(l, outcome) ==
  /\ l.page = "repeaters"
  /\ Answered(l)
  /\ view' = Written(l.nav, "all")
  /\ mod' = [mod EXCEPT !["repeaters"].area = l.nav]
  /\ UNCHANGED << handlers, lost >>

\* The boards go where contentArea is now; without one the answer throws.
BoardsAnswer(l, outcome) ==
  /\ l.page = "leaderboards"
  /\ Answered(l)
  /\ view' = Written(mod[l.page].area, l.arg)
  /\ NothingCreated
  /\ UNCHANGED handlers

\* loadMapData: a map if a node has a position.
NodesAnswer(l, outcome) ==
  /\ l.page = "map" /\ l.step = "nodes"
  /\ Answered(l)
  /\ view' = Written(l.nav, "data")
  /\ IF outcome = "data" THEN Created("map") ELSE NothingCreated
  /\ UNCHANGED handlers

\* Squares, or a popup that there are none yet, on the map there is now.
CoverageAnswer(l, outcome) ==
  /\ l.page = "map" /\ l.step = "coverage"
  /\ Answered(l)
  /\ mod' = [mod EXCEPT !["map"].marks =
                @ \/ (outcome # "failed" /\ mod["map"].objects > 0)]
  /\ UNCHANGED << view, handlers, lost >>

\* Slip: a failed search is not caught.
TraceUncaught(l, outcome) ==
  /\ l.page = "traces"
  /\ Answered(l)
  /\ view' = IF outcome = "failed" THEN view ELSE Written(mod[l.page].area, l.arg)
  /\ IF outcome = "data" /\ mod[l.page].area # 0 THEN Created(l.page) ELSE NothingCreated
  /\ UNCHANGED handlers

\* The hops or "not found" where resultsArea is now, with a map if the hops
\* have positions; without a resultsArea the answer throws.
TraceAnswer(l, outcome) ==
  /\ l.page = "traces"
  /\ Answered(l)
  /\ view' = Written(mod[l.page].area, l.arg)
  /\ IF outcome = "data" /\ mod[l.page].area # 0 THEN Created(l.page) ELSE NothingCreated
  /\ UNCHANGED handlers

\* The rest of mount: the list of messages, the first channel chosen and
\* requested, the handler.  If the page is no longer mounted it throws before.
ChannelsAnswer(l, outcome) ==
  /\ l.page = "channels" /\ l.step = "channels"
  /\ IF mod[l.page].mounted = 0
     THEN Answered(l) /\ UNCHANGED << view, mod, handlers >>
     ELSE /\ \E c \in IF outcome = "data" THEN Channel ELSE {NULL} :
               /\ mod' = [mod EXCEPT ![l.page].area = mod[l.page].mounted,
                                     ![l.page].sel = IF c = NULL THEN @ ELSE c,
                                     ![l.page].handle = TRUE]
               /\ view' = Written(mod[l.page].mounted, IF c = NULL THEN "none" ELSE "spinner")
               /\ loads' = (loads \ {l}) \cup
                    IF c = NULL THEN {} ELSE {Request(l.page, l.nav, "messages", c)}
          /\ handlers' = [handlers EXCEPT ![l.page] = @ + 1]
  /\ UNCHANGED lost

\* The messages of the channel that was asked for, in the list there is now.
MessagesAnswer(l, outcome) ==
  /\ l.page = "channels" /\ l.step = "messages"
  /\ Answered(l)
  /\ view' = Written(mod[l.page].area, l.arg)
  /\ NothingCreated
  /\ UNCHANGED handlers

\* loadNodeData, loadObserverData: what is in #app, whoever put it there, is
\* replaced, and the charts are added to those the module remembers.
DetailAnswer(l, outcome) ==
  /\ l.page \in Detail
  /\ Answered(l)
  /\ view' = [page |-> l.page, nav |-> l.nav,
              shown |-> IF outcome = "data" THEN l.arg ELSE "error"]
  /\ mod' = IF outcome = "data" THEN [mod EXCEPT ![l.page].objects = @ + 1] ELSE mod
  /\ UNCHANGED << handlers, lost >>

Answer(l, outcome) ==
  /\ \/ HomeAnswer(l, outcome)
     \/ HealthAnswer(l, outcome)
     \/ ObserversAnswer(l, outcome)
     \/ RepeatersAnswer(l, outcome)
     \/ BoardsAnswer(l, outcome)
     \/ NodesAnswer(l, outcome)
     \/ CoverageAnswer(l, outcome)
     \/ TraceAnswer(l, outcome)
     \/ ChannelsAnswer(l, outcome)
     \/ MessagesAnswer(l, outcome)
     \/ DetailAnswer(l, outcome)
  /\ UNCHANGED << address, navs, current, imported, importing, picks, hasty >>

-----------------------------------------------------------------------------
(* Choices on a page that is on the screen: one that is mounted, or the    *)
(* one a malformed address left there, unmounted but with its buttons.     *)

Pick(p) ==
  /\ view.page = p
  /\ view.nav = mod[p].mounted \/ (address.page = "malformed" /\ p = current)
  /\ navs + picks < MaxInputs
  /\ picks' = picks + 1
  /\ Hurry(p)
  /\ UNCHANGED << address, navs, current, imported, importing, handlers, lost >>

\* The request, unless the element for its answer is gone with the page.
Asked(p, step, arg) ==
  loads' = loads \cup IF mod[p].area = 0 THEN {} ELSE {Request(p, view.nav, step, arg)}

\* loadAllLeaderboards for another window.
ChooseWindow(window) ==
  /\ Pick("leaderboards")
  /\ window # mod["leaderboards"].sel
  /\ mod' = [mod EXCEPT !["leaderboards"].sel = window]
  /\ Asked("leaderboards", "boards", window)
  /\ view' = Written(mod["leaderboards"].area, "spinner")

\* searchTrace: the map of the search before is destroyed.
Search(hash) ==
  /\ Pick("traces")
  /\ mod["traces"].area # 0
  /\ mod' = [mod EXCEPT !["traces"].sel = hash, !["traces"].objects = 0]
  /\ Asked("traces", "trace", hash)
  /\ view' = Written(mod["traces"].area, "spinner")

\* The list of channels is there once the channels are, and stays with the
\* page when that is unmounted and its choice forgotten.
SelectChannel(c) ==
  /\ Pick("channels")
  /\ mod["channels"].sel # c
  /\ mod["channels"].sel = NULL =>
       mod["channels"].mounted = 0 /\ view.shown \notin {"frame", "none"}
  /\ mod' = [mod EXCEPT !["channels"].sel = c]
  /\ Asked("channels", "messages", c)
  /\ view' = Written(mod["channels"].area, "spinner")

\* Slip: the tab changes, the table does not.
FilterUnapplied(filter) ==
  /\ Pick("repeaters")
  /\ filter # mod["repeaters"].sel
  /\ mod' = [mod EXCEPT !["repeaters"].sel = filter]
  /\ UNCHANGED << view, loads >>

\* The table is updated if there is one.
Filter(filter) ==
  /\ Pick("repeaters")
  /\ filter # mod["repeaters"].sel
  /\ mod' = [mod EXCEPT !["repeaters"].sel = filter]
  /\ view' = Written(mod["repeaters"].area, filter)
  /\ UNCHANGED loads

\* showCoverageOverlay, clearCoverageMarkers: nothing happens without a map.
ToggleCoverage ==
  LET on == mod["map"].sel = "off"
      there == mod["map"].objects > 0
  IN  /\ Pick("map")
      /\ mod' = [mod EXCEPT !["map"].sel = IF on THEN "on" ELSE "off",
                            !["map"].marks = @ /\ ~there]
      /\ loads' = loads \cup
           IF on /\ there THEN {Request("map", view.nav, "coverage", NULL)} ELSE {}
      /\ UNCHANGED view

-----------------------------------------------------------------------------

Init ==
  /\ address = [page |-> NULL, id |-> NULL]
  /\ navs = 0
  /\ current = NULL
  /\ imported = {}
  /\ importing = {}
  /\ view = [page |-> NULL, nav |-> 0, shown |-> "frame"]
  /\ loads = {}
  /\ mod = [p \in Page |-> [mounted |-> 0, area |-> 0, sel |-> routes[p].sel,
                            handle |-> FALSE, objects |-> 0, marks |-> FALSE]]
  /\ handlers = [p \in Page |-> 0]
  /\ lost = {}
  /\ picks = 0
  /\ hasty = {}

ImportEnds == \E p \in Page : ImportArrives(p) \/ ImportFails(p)

AnswerComes == \E l \in loads, outcome \in Outcome : Answer(l, outcome)

Next ==
  \/ \E target \in Target : Navigate(target)
  \/ ImportEnds
  \/ AnswerComes
  \/ \E window \in Window : ChooseWindow(window)
  \/ \E hash \in Hash : Search(hash)
  \/ \E c \in Channel : SelectChannel(c)
  \/ \E filter \in Filters : Filter(filter)
  \/ ToggleCoverage

\* Imports and requests end, if only with a failure.
Fairness == WF_vars(ImportEnds) /\ WF_vars(AnswerComes)

Spec == Init /\ [][Next]_vars /\ Fairness

-----------------------------------------------------------------------------
(* Properties.                                                             *)

\* Types; nobody waits for a module that is there, nobody has more pages
\* mounted, shown or written to than there were navigations.
TypeOK ==
  /\ navs \in 0 .. MaxNavs /\ picks \in 0 .. MaxInputs
  /\ current \in Page \cup {NULL}
  /\ imported \subseteq Page
  /\ \A w \in importing : w.page \in Page \ imported /\ w.nav \in 1 .. navs
  /\ \A l \in loads : l.page \in imported /\ l.nav \in 1 .. navs /\ l.pick \in 0 .. picks
  /\ view.nav \in 0 .. navs
  /\ \A p \in Page :
       /\ mod[p].mounted \in 0 .. navs /\ mod[p].area \in 0 .. navs
       /\ mod[p].objects \in 0 .. navs + picks
       /\ mod[p].handle \in BOOLEAN /\ mod[p].marks \in BOOLEAN
       /\ handlers[p] \in 0 .. navs
  /\ lost \subseteq Page
  /\ hasty \subseteq Page \cup {"overlap"}

\* As long as no navigation overtakes the import of another, a page that is
\* not the current one has left nothing behind: no handler, chart or map;
\* and none is out of reach of the next unmount.  Exempt are pages left, or
\* changed, while an answer was under way; but even those never leave a
\* handler behind, except for the channel page, which registers it late.
LeavesNothing ==
  "overlap" \notin hasty =>
    \A p \in Page :
      /\ p \notin hasty \/ p # "channels" =>
           handlers[p] <= 1 /\ (handlers[p] = 1 => current = p /\ mod[p].handle)
      /\ p \notin hasty =>
           /\ p \notin lost
           /\ mod[p].objects <= 1
           /\ p # current => mod[p] = Idle(p)

\* What the screen shows of page p once everything is answered.
Expected(p) ==
  CASE p \in Detail -> {address.id, "error"}
    [] p = "traces" -> IF mod[p].sel = NULL THEN {"frame"} ELSE {mod[p].sel}
    [] p = "channels" -> IF mod[p].sel = NULL THEN {"none"} ELSE {mod[p].sel}
    [] p \in {"leaderboards", "repeaters"} -> {mod[p].sel}
    [] OTHER -> {"data"}

\* As long as no navigation overtakes the import of another and no detail
\* page was left before its answer came, the screen belongs to the address;
\* and when nothing is under way any more it shows what is chosen there, and
\* coverage only if that is switched on, unless something was chosen, or the
\* page left, while an answer was under way.  Under a malformed address the
\* screen is that of an earlier navigation, but a dead one: no page is
\* mounted, and no handler is left, but for that of a channel page that was
\* left too early.
ShowsWhatIsChosen ==
  hasty \cap (Detail \cup {"overlap"}) = {} /\ navs > 0 =>
    IF address.page = "malformed"
    THEN /\ view.nav < navs
         /\ \A p \in Page : mod[p].mounted = 0
         /\ \A p \in Page : p \notin hasty \/ p # "channels" => handlers[p] = 0
    ELSE LET p == address.page
         IN  /\ view.page = p /\ view.nav = navs
             /\ importing = {} /\ p = current /\ p \notin hasty /\ ~Waits(p) =>
                  view.shown \in Expected(p) /\ (mod[p].marks => mod[p].sel = "on")

\* A spinner, of the router or of a page, goes away; but one that a malformed
\* address leaves on the screen may stay, since the answer that was to replace
\* it finds its element gone.
SpinnerEnds ==
  (view.shown = "spinner") ~> (view.shown # "spinner" \/ address.page = "malformed")
=============================================================================
