---------------------------- MODULE PagesProofs ----------------------------
(***************************************************************************)
(* Theorems about the pages of the dashboard and their router, for any     *)
(* ids, hashes and channels, and any number of navigations and choices.    *)
(***************************************************************************)
EXTENDS Pages, FiniteSetTheorems, WellFoundedInduction, TLAPS

-----------------------------------------------------------------------------
(* The inductive invariant: what holds as long as no navigation overtook   *)
(* the import of another.                                                  *)

Calm == "overlap" \notin hasty

\* No detail page was left before its answer came.
Tidy == hasty \cap Detail = {}

Sel == {NULL, "off", "on", "all", "24h", "offline"} \cup Hash \cup Channel
Shown == {"frame", "spinner", "data", "none", "error", "not found"} \cup Sel \cup Id

\* What the requests of a page ask for.
StepsOf(p) ==
  CASE p = "home" -> {"stats", "score", "packets"}
    [] p = "health" -> {"health", "observers"}
    [] p = "map" -> {"nodes", "coverage"}
    [] p = "channels" -> {"channels", "messages"}
    [] p = "traces" -> {"trace"}
    [] p = "leaderboards" -> {"boards"}
    [] p \in Detail -> {"detail"}
    [] p \in {"repeaters", "observers"} -> {p}

ModuleState ==
  [mounted : Nat, area : Nat, sel : Sel, handle : BOOLEAN, objects : Nat, marks : BOOLEAN]

Requests ==
  [page : Page, nav : Nat, pick : Nat, step : UNION {StepsOf(p) : p \in Page},
   arg : Sel \cup Id]

Typed ==
  /\ navs \in Nat /\ picks \in Nat
  /\ address \in [page : Page \cup {NULL, "unknown", "malformed"}, id : Id \cup {NULL}]
  /\ current \in Page \cup {NULL}
  /\ importing \subseteq [page : Page, id : Id \cup {NULL}, nav : Nat]
  /\ view \in [page : Page \cup {NULL, "unknown"}, nav : Nat, shown : Shown]
  /\ loads \subseteq Requests
  /\ mod \in [Page -> ModuleState]
  /\ handlers \in [Page -> Int]

\* Who waits for a module is the latest navigation.
ImportIsLatest ==
  \A w \in importing : w.nav = navs /\ w.page = address.page /\ w.id = address.id

\* Mounted is the current page alone, by the latest navigation; none is
\* while a module is awaited, or under a malformed address.
CurrentIsLatest ==
  current # NULL /\ importing = {} => navs > 0 /\ address.page \in {current, "malformed"}

MountedIsCurrent(p) ==
  mod[p].mounted = IF p = current /\ p = address.page /\ importing = {} THEN navs ELSE 0

\* The screen belongs to the address, or to an earlier one if that is
\* malformed.
ViewFollowsAddress ==
  /\ view.nav <= navs /\ (view.page \in Page => view.nav >= 1)
  /\ IF address.page = "malformed" THEN view.nav < navs
     ELSE Tidy /\ navs > 0 => view.page = address.page /\ view.nav = navs

\* The module of a mounted page remembers each handler there is.
HandlersAreRemembered(p) ==
  /\ mod[p].handle => mod[p].mounted # 0
  /\ p \notin hasty \/ p # "channels" => handlers[p] = IF mod[p].handle THEN 1 ELSE 0

\* A page that is not mounted is as it was at first, but for what is chosen
\* on one that a malformed address left on the screen.
UnmountedIsIdle(p) ==
  p \notin hasty =>
    /\ mod[p].mounted = 0 =>
         /\ mod[p].area = 0 /\ mod[p].objects = 0 /\ ~mod[p].marks
         /\ p # current \/ address.page # "malformed" => mod[p] = Idle(p)
    /\ p \notin lost
    /\ mod[p].objects <= 1

\* A page has one request under way, and only while it is mounted; what the
\* answer creates, or registers, is not there yet.
RequestIsLast(p) ==
  p \notin hasty =>
    \A l \in loads : l.page = p =>
      /\ mod[p].mounted # 0 /\ l.nav = navs
      /\ l.step \in {"stats", "score", "packets", "nodes", "trace", "detail"} =>
           mod[p].objects = 0
      /\ l.step = "channels" => ~mod[p].handle
      /\ \A k \in loads : k.page = p => k = l

\* Only the page of the address writes into the element on the screen.
PlacesAreOwn(p) ==
  /\ mod[p].area \in 0 .. navs
  /\ mod[p].area = navs /\ navs > 0 => address.page = p
  /\ \A l \in loads : l.page = p =>
       l.step \in StepsOf(p) /\ l.nav \in 1 .. navs /\ (l.nav = navs => address.page = p)

\* A request is for what is chosen; without one, that is what is shown.
AsChosen(p) ==
  LET mine == {l \in loads : l.page = p}
      sel == mod[p].sel
  IN  /\ p \in Detail =>
           /\ \A l \in mine : l.arg = address.id
           /\ mine = {} => view.shown \in {address.id, "error"}
      /\ p = "traces" =>
           /\ mod[p].area = navs
           /\ \A l \in mine : l.arg = sel /\ sel # NULL
           /\ mine = {} => view.shown = IF sel = NULL THEN "frame" ELSE sel
      /\ p = "channels" =>
           /\ sel # NULL => mod[p].area = navs
           /\ \A l \in mine : IF l.step = "channels" THEN sel = NULL
                              ELSE l.arg = sel /\ sel # NULL
           /\ mine = {} => view.shown = IF sel = NULL THEN "none" ELSE sel
      /\ p = "leaderboards" =>
           /\ mod[p].area = navs
           /\ \A l \in mine : l.arg = sel
           /\ mine = {} => view.shown = sel
      /\ p = "repeaters" =>
           /\ mine # {} => sel = "all"
           /\ mine = {} => view.shown = sel /\ mod[p].area = navs
      /\ p = "map" =>
           /\ mod[p].marks => sel = "on" /\ mod[p].objects > 0
           /\ \A l \in mine : l.step = "coverage" => sel = "on"
           /\ (\A l \in mine : l.step # "nodes") => view.shown = "data"
      /\ p \in {"home", "health", "observers"} => (mine = {} => view.shown = "data")
      /\ p # "map" => ~mod[p].marks

ScreenIsAsChosen(p) == Tidy /\ p \notin hasty /\ mod[p].mounted # 0 => AsChosen(p)

OfPage(p) ==
  /\ MountedIsCurrent(p) /\ HandlersAreRemembered(p) /\ UnmountedIsIdle(p)
  /\ RequestIsLast(p) /\ PlacesAreOwn(p) /\ ScreenIsAsChosen(p)

Inside ==
  /\ Typed /\ ImportIsLatest /\ CurrentIsLatest /\ ViewFollowsAddress
  /\ \A p \in Page : OfPage(p)

\* Of the router alone, whatever overtakes what.
Routed ==
  /\ navs \in Nat /\ imported \subseteq Page
  /\ importing # {} => navs > 0
  /\ navs > 0 => address.page # NULL

IInv == Routed /\ (Calm => Inside)

-----------------------------------------------------------------------------
(* The pages.                                                              *)

\* The pages are those with a route.
LEMMA PageValues ==
  Page = {"home", "health", "map", "channels", "repeaters", "observers", "traces",
          "leaderboards", "repeater", "node", "observer"}
BY DEF Page, routes

\* What is known of the pages, one by one.
LEMMA RouteValues ==
  /\ routes["home"] = [asks |-> "stats", subscribes |-> TRUE, shows |-> "frame",
                       sel |-> NULL, inPlace |-> FALSE]
  /\ routes["health"] = [asks |-> "health", subscribes |-> FALSE, shows |-> "frame",
                         sel |-> NULL, inPlace |-> FALSE]
  /\ routes["map"] = [asks |-> "nodes", subscribes |-> FALSE, shows |-> "frame",
                      sel |-> "off", inPlace |-> FALSE]
  /\ routes["channels"] = [asks |-> "channels", subscribes |-> FALSE, shows |-> "frame",
                           sel |-> NULL, inPlace |-> FALSE]
  /\ routes["repeaters"] = [asks |-> "repeaters", subscribes |-> FALSE, shows |-> "frame",
                            sel |-> "all", inPlace |-> FALSE]
  /\ routes["observers"] = [asks |-> "observers", subscribes |-> FALSE, shows |-> "frame",
                            sel |-> NULL, inPlace |-> FALSE]
  /\ routes["traces"] = [asks |-> NULL, subscribes |-> FALSE, shows |-> "frame",
                         sel |-> NULL, inPlace |-> TRUE]
  /\ routes["leaderboards"] = [asks |-> "boards", subscribes |-> FALSE, shows |-> "spinner",
                               sel |-> "all", inPlace |-> TRUE]
  /\ \A p \in Detail :
       routes[p] = [asks |-> "detail", subscribes |-> FALSE, shows |-> "spinner",
                    sel |-> NULL, inPlace |-> FALSE]
<1> USE DEF routes, Plain
<1>1. routes["home"] = [asks |-> "stats", subscribes |-> TRUE, shows |-> "frame",
                        sel |-> NULL, inPlace |-> FALSE]
  BY DEF HomePage
<1>2. routes["health"] = [asks |-> "health", subscribes |-> FALSE, shows |-> "frame",
                          sel |-> NULL, inPlace |-> FALSE]
  BY DEF HealthPage
<1>3. routes["map"] = [asks |-> "nodes", subscribes |-> FALSE, shows |-> "frame",
                       sel |-> "off", inPlace |-> FALSE]
  BY DEF MapPage
<1>4. routes["channels"] = [asks |-> "channels", subscribes |-> FALSE, shows |-> "frame",
                            sel |-> NULL, inPlace |-> FALSE]
  BY DEF ChannelsPage
<1>5. routes["repeaters"] = [asks |-> "repeaters", subscribes |-> FALSE, shows |-> "frame",
                             sel |-> "all", inPlace |-> FALSE]
  BY DEF RepeatersPage
<1>6. routes["observers"] = [asks |-> "observers", subscribes |-> FALSE, shows |-> "frame",
                             sel |-> NULL, inPlace |-> FALSE]
  BY DEF ObserversPage
<1>7. routes["traces"] = [asks |-> NULL, subscribes |-> FALSE, shows |-> "frame",
                          sel |-> NULL, inPlace |-> TRUE]
  BY DEF TracesPage
<1>8. routes["leaderboards"] = [asks |-> "boards", subscribes |-> FALSE, shows |-> "spinner",
                                sel |-> "all", inPlace |-> TRUE]
  BY DEF LeaderboardsPage
<1>9. ASSUME NEW p \in Detail
      PROVE  routes[p] = [asks |-> "detail", subscribes |-> FALSE, shows |-> "spinner",
                          sel |-> NULL, inPlace |-> FALSE]
  <2>1. CASE p = "repeater"
    BY <2>1 DEF RepeaterPage
  <2>2. CASE p = "node"
    BY <2>2 DEF NodePage
  <2>3. CASE p = "observer"
    BY <2>3 DEF ObserverPage
  <2> QED BY <2>1, <2>2, <2>3 DEF Detail
<1> HIDE DEF routes, Plain
<1> QED BY <1>1, <1>2, <1>3, <1>4, <1>5, <1>6, <1>7, <1>8, <1>9

\* The same, field by field, for any page.
LEMMA RouteFields ==
  ASSUME NEW p \in Page
  PROVE  /\ routes[p].subscribes <=> p = "home"
         /\ routes[p].inPlace <=> p \in {"traces", "leaderboards"}
         /\ routes[p].sel = IF p = "map" THEN "off"
                            ELSE IF p \in {"repeaters", "leaderboards"} THEN "all" ELSE NULL
         /\ routes[p].shows = IF p \in Detail \cup {"leaderboards"} THEN "spinner" ELSE "frame"
         /\ IF p = "traces" THEN routes[p].asks = NULL
            ELSE routes[p].asks # NULL /\ routes[p].asks \in StepsOf(p)
<1> USE PageAssumption, PageValues
<1>1. routes[p].subscribes <=> p = "home"
  BY RouteValues DEF Detail
<1>2. routes[p].inPlace <=> p \in {"traces", "leaderboards"}
  BY RouteValues DEF Detail
<1>3. routes[p].sel = IF p = "map" THEN "off"
                      ELSE IF p \in {"repeaters", "leaderboards"} THEN "all" ELSE NULL
  BY RouteValues DEF Detail
<1>4. routes[p].shows = IF p \in Detail \cup {"leaderboards"} THEN "spinner" ELSE "frame"
  BY RouteValues DEF Detail
<1>5. IF p = "traces" THEN routes[p].asks = NULL
      ELSE routes[p].asks # NULL /\ routes[p].asks \in StepsOf(p)
  <2>1. CASE p \in Detail
    BY <2>1, RouteValues DEF Detail, StepsOf
  <2>2. CASE p \in {"home", "health", "map", "channels"}
    BY <2>2, RouteValues DEF Detail, StepsOf
  <2>3. CASE p \in {"repeaters", "observers", "traces", "leaderboards"}
    BY <2>3, RouteValues DEF Detail, StepsOf
  <2> QED BY <2>1, <2>2, <2>3 DEF Detail
<1> QED BY <1>1, <1>2, <1>3, <1>4, <1>5

\* An unmounted page.
LEMMA IdleValue ==
  ASSUME NEW p \in Page
  PROVE  Idle(p) \in ModuleState /\ Idle(p).mounted = 0 /\ Idle(p).area = 0
           /\ Idle(p).sel = routes[p].sel /\ ~Idle(p).handle /\ Idle(p).objects = 0
           /\ ~Idle(p).marks
BY RouteFields DEF Idle, ModuleState, Sel

\* Writing into an element changes what is seen, if it is on the screen.
LEMMA WrittenValue ==
  ASSUME Typed, NEW nav, NEW what \in Shown
  PROVE  /\ Written(nav, what) \in [page : Page \cup {NULL, "unknown"}, nav : Nat, shown : Shown]
         /\ Written(nav, what).page = view.page /\ Written(nav, what).nav = view.nav
         /\ Written(nav, what).shown = IF view.nav = nav THEN what ELSE view.shown
BY DEF Written, Typed

-----------------------------------------------------------------------------

\* The dashboard starts without a page.
LEMMA InitInside == Init => Inside
<1> SUFFICES ASSUME Init PROVE Inside
  OBVIOUS
<1> USE PageAssumption DEF Init
<1>1. \A p \in Page : mod[p] = Idle(p)
  BY DEF Idle
<1>2. Typed
  <2>1. mod \in [Page -> ModuleState]
    BY <1>1, IdleValue
  <2> QED BY <2>1 DEF Typed, Shown
<1>3. ImportIsLatest /\ CurrentIsLatest /\ ViewFollowsAddress
  BY DEF ImportIsLatest, CurrentIsLatest, ViewFollowsAddress
<1>4. ASSUME NEW p \in Page PROVE OfPage(p)
  <2>1. /\ mod[p] = Idle(p) /\ mod[p].mounted = 0 /\ mod[p].area = 0
        /\ ~mod[p].handle /\ mod[p].objects = 0 /\ ~mod[p].marks
    BY <1>1, IdleValue
  <2>2. MountedIsCurrent(p) /\ HandlersAreRemembered(p) /\ UnmountedIsIdle(p)
    BY <2>1 DEF MountedIsCurrent, HandlersAreRemembered, UnmountedIsIdle
  <2>3. RequestIsLast(p) /\ PlacesAreOwn(p) /\ ScreenIsAsChosen(p)
    BY <2>1 DEF RequestIsLast, PlacesAreOwn, ScreenIsAsChosen
  <2> QED BY <2>2, <2>3 DEF OfPage
<1> QED BY <1>2, <1>3, <1>4 DEF Inside

-----------------------------------------------------------------------------
(* Steps that concern one page.                                            *)

\* Pages are independent of each other but for the screen, into which only
\* the page of the address writes.
LEMMA ElsewhereKeeps ==
  ASSUME Inside, NEW p \in Page, UNCHANGED << address, navs, current, importing >>,
         hasty \subseteq hasty',
         \A q \in Page \ {p} : /\ mod'[q] = mod[q] /\ handlers'[q] = handlers[q]
                               /\ q \in hasty' <=> q \in hasty
                               /\ q \in lost' <=> q \in lost,
         \A l \in loads \cup loads' : l.page # p => (l \in loads <=> l \in loads'),
         Tidy' /\ address.page \notin {p, "malformed"} => view' = view,
         Typed', ViewFollowsAddress', OfPage(p)'
  PROVE  Inside'
<1>1. ImportIsLatest' /\ CurrentIsLatest'
  BY DEF Inside, ImportIsLatest, CurrentIsLatest
<1>2. ASSUME NEW q \in Page \ {p} PROVE OfPage(q)'
  <2> USE DEF Inside, OfPage
  <2>1. MountedIsCurrent(q)' /\ HandlersAreRemembered(q)'
    BY DEF MountedIsCurrent, HandlersAreRemembered
  <2>2. UnmountedIsIdle(q)'
    BY DEF UnmountedIsIdle, Idle
  <2>3. RequestIsLast(q)'
    BY DEF RequestIsLast
  <2>4. PlacesAreOwn(q)'
    BY DEF PlacesAreOwn
  <2>5. ScreenIsAsChosen(q)'
    <3> SUFFICES ASSUME Tidy', q \notin hasty', mod'[q].mounted # 0 PROVE AsChosen(q)'
      BY DEF ScreenIsAsChosen
    <3>1. AsChosen(q)
      BY DEF ScreenIsAsChosen, Tidy
    <3>2. address.page = q /\ q # "malformed"
      BY PageValues DEF MountedIsCurrent
    <3>3. view' = view /\ mod'[q] = mod[q] /\ address' = address /\ navs' = navs
      BY <3>2
    <3>4. {l \in loads' : l.page = q} = {l \in loads : l.page = q}
      OBVIOUS
    <3> QED BY <3>1, <3>3, <3>4 DEF AsChosen
  <2> QED BY <2>1, <2>2, <2>3, <2>4, <2>5
<1> QED BY <1>1, <1>2 DEF Inside

\* What a page writes into its own element is on the screen only if the
\* address is the page's.
LEMMA WritingKeeps ==
  ASSUME Inside, UNCHANGED << address, navs >>, hasty \subseteq hasty', navs > 0,
         NEW p \in Page, NEW nav, NEW what \in Shown, view' = Written(nav, what),
         nav = navs => address.page = p
  PROVE  /\ view' \in [page : Page \cup {NULL, "unknown"}, nav : Nat, shown : Shown]
         /\ ViewFollowsAddress'
         /\ Tidy' /\ address.page \notin {p, "malformed"} => view' = view
         /\ Tidy' /\ address.page # "malformed" =>
              view'.shown = IF nav = navs THEN what ELSE view.shown
<1>1. Tidy' => Tidy
  BY DEF Tidy
<1>2. /\ view' \in [page : Page \cup {NULL, "unknown"}, nav : Nat, shown : Shown]
      /\ view'.page = view.page /\ view'.nav = view.nav
      /\ view'.shown = IF view.nav = nav THEN what ELSE view.shown
  BY WrittenValue DEF Inside
<1>3. ViewFollowsAddress'
  BY <1>1, <1>2 DEF Inside, ViewFollowsAddress
<1>4. Tidy' /\ address.page \notin {p, "malformed"} => view' = view
  BY <1>1 DEF Written, Inside, ViewFollowsAddress
<1>5. Tidy' /\ address.page # "malformed" => view.nav = navs
  BY <1>1 DEF Inside, ViewFollowsAddress
<1> QED BY <1>2, <1>3, <1>4, <1>5

\* The request of a page that was not left in a hurry.
LEMMA LastRequest ==
  ASSUME Inside, NEW l \in loads, l.page \notin hasty
  PROVE  /\ current = l.page /\ importing = {} /\ address.page = l.page
         /\ mod[l.page].mounted = navs /\ l.nav = navs /\ navs > 0
         /\ {k \in loads : k.page = l.page} = {l}
<1>1. l.page \in Page
  BY DEF Inside, Typed, Requests
<1>2. mod[l.page].mounted # 0 /\ l.nav = navs /\ \A k \in loads : k.page = l.page => k = l
  BY <1>1 DEF Inside, OfPage, RequestIsLast
<1>3. current = l.page /\ importing = {} /\ mod[l.page].mounted = navs
  BY <1>1, <1>2 DEF Inside, OfPage, MountedIsCurrent
<1>4. navs > 0 /\ address.page = l.page
  BY <1>1, <1>2, <1>3 DEF Inside, Typed, OfPage, MountedIsCurrent
<1> QED BY <1>2, <1>3, <1>4

\* What every answer leaves alone.
Around == << address, navs, current, importing, picks, hasty >>

\* An answer after which nothing is asked.
LEMMA AnswerEnds ==
  ASSUME Inside, UNCHANGED << Around, handlers >>,
         NEW l \in loads, loads' = loads \ {l},
         NEW r \in ModuleState, mod' = [mod EXCEPT ![l.page] = r],
         r.mounted = mod[l.page].mounted, r.handle = mod[l.page].handle,
         r.area \in 0 .. navs, r.area = navs => address.page = l.page,
         l.page \notin hasty => r.objects <= 1 /\ lost' = lost,
         lost' \in {lost, lost \cup {l.page}},
         view' \in [page : Page \cup {NULL, "unknown"}, nav : Nat, shown : Shown],
         ViewFollowsAddress',
         Tidy /\ address.page \notin {l.page, "malformed"} => view' = view,
         ScreenIsAsChosen(l.page)'
  PROVE  Inside'
<1> DEFINE p == l.page
<1>1. p \in Page /\ loads \subseteq Requests
  BY DEF Inside, Typed, Requests
<1>2. Typed'
  BY <1>1 DEF Inside, Typed, Around
<1>3. mod'[p] = r
  BY <1>1 DEF Inside, Typed
<1>4. OfPage(p)'
  <2> USE <1>1, <1>3 DEF Inside, OfPage, Around
  <2>1. MountedIsCurrent(p)' /\ HandlersAreRemembered(p)'
    BY DEF MountedIsCurrent, HandlersAreRemembered
  <2>2. p \notin hasty => {k \in loads : k.page = p} = {l} /\ mod[p].mounted # 0
    BY LastRequest DEF Typed
  <2>3. UnmountedIsIdle(p)'
    BY <2>2 DEF UnmountedIsIdle
  <2>4. RequestIsLast(p)'
    BY <2>2 DEF RequestIsLast
  <2>5. PlacesAreOwn(p)'
    BY DEF PlacesAreOwn
  <2> QED BY <2>1, <2>3, <2>4, <2>5
<1>5. \A q \in Page \ {p} : mod'[q] = mod[q]
  BY <1>1 DEF Inside, Typed
<1>6. Tidy' => Tidy
  BY DEF Tidy, Around
<1> QED BY <1>1, <1>2, <1>4, <1>5, <1>6, ElsewhereKeeps DEF Around

\* An answer after which more is asked, on the home and the health page.
LEMMA AnswerFollowed ==
  ASSUME Inside, UNCHANGED << Around, handlers, mod, lost, view >>,
         NEW l \in loads, l.page \in {"home", "health"}, NEW step \in StepsOf(l.page),
         l.step \in {"stats", "score", "packets"} <=> step \in {"stats", "score", "packets"},
         FollowedBy(l, step)
  PROVE  Inside'
<1> DEFINE p == l.page
           k == [l EXCEPT !.step = step]
<1>1. p \in Page /\ l \in Requests /\ loads \subseteq Requests
  BY DEF Inside, Typed, Requests
<1>2. /\ k \in Requests /\ k.page = p /\ k.nav = l.nav /\ k.step = step
      /\ loads' = (loads \ {l}) \cup {k}
  BY <1>1 DEF Requests, FollowedBy
<1>3. Typed'
  BY <1>1, <1>2 DEF Inside, Typed, Around
<1>4. OfPage(p)'
  <2> USE <1>1, <1>2 DEF Inside, OfPage, Around
  <2>1. MountedIsCurrent(p)' /\ HandlersAreRemembered(p)'
    BY DEF MountedIsCurrent, HandlersAreRemembered
  <2>2. UnmountedIsIdle(p)'
    BY DEF UnmountedIsIdle, Idle
  <2>3. step # "channels" /\ step \notin {"nodes", "trace", "detail"}
    BY DEF StepsOf, Detail
  <2>4. RequestIsLast(p)'
    BY <2>3 DEF RequestIsLast
  <2>5. PlacesAreOwn(p)'
    BY DEF PlacesAreOwn
  <2>6. ScreenIsAsChosen(p)'
    BY DEF ScreenIsAsChosen, AsChosen, Detail, Tidy
  <2> QED BY <2>1, <2>2, <2>4, <2>5, <2>6
<1>5. ViewFollowsAddress'
  BY DEF Inside, ViewFollowsAddress, Tidy, Around
<1> QED BY <1>1, <1>2, <1>3, <1>4, <1>5, ElsewhereKeeps DEF Around

-----------------------------------------------------------------------------
(* Answers.                                                                *)

\* An answer that is written into element nav shows what is chosen, if the
\* page was not left in a hurry; a chart or map may be created with it.
LEMMA AnswerShown ==
  ASSUME Inside, UNCHANGED << Around, handlers >>,
         NEW l \in loads, Answered(l),
         \/ NothingCreated
         \/ Created(l.page) /\ (l.page \notin hasty => mod[l.page].objects = 0),
         NEW nav, NEW what \in Shown, view' = Written(nav, what),
         nav = navs => address.page = l.page,
         Tidy /\ l.page \notin hasty => nav = navs,
         l.page \notin Detail \cup {"map", "repeaters"},
         Tidy /\ l.page \notin hasty /\ l.page \in {"channels", "traces", "leaderboards"} =>
           mod[l.page].sel = what /\ (l.page # "leaderboards" => what # NULL),
         l.page \in {"home", "health", "observers"} => what = "data"
  PROVE  Inside'
<1> DEFINE p == l.page
           r == [mod[p] EXCEPT !.objects = IF NothingCreated THEN @ ELSE 1]
<1>1. p \in Page /\ mod[p] \in ModuleState /\ mod \in [Page -> ModuleState] /\ navs > 0
  BY DEF Inside, Typed, Requests, OfPage, PlacesAreOwn
<1>2. /\ view' \in [page : Page \cup {NULL, "unknown"}, nav : Nat, shown : Shown]
      /\ ViewFollowsAddress'
      /\ Tidy' /\ address.page \notin {p, "malformed"} => view' = view
      /\ Tidy' /\ address.page # "malformed" =>
           view'.shown = IF nav = navs THEN what ELSE view.shown
  BY <1>1, WritingKeeps DEF Around
<1>3. Tidy' <=> Tidy
  BY DEF Tidy, Around
<1>4. OfPage(p)
  BY <1>1 DEF Inside
<1>5. /\ r \in ModuleState /\ mod' = [mod EXCEPT ![p] = r] /\ mod'[p] = r
      /\ r.mounted = mod[p].mounted /\ r.handle = mod[p].handle
      /\ r.area = mod[p].area /\ r.sel = mod[p].sel /\ r.marks = mod[p].marks
      /\ r.objects \in {mod[p].objects, 1}
  <2>1. CASE NothingCreated
    BY <1>1, <2>1 DEF NothingCreated, ModuleState
  <2>2. CASE ~NothingCreated
    BY <1>1, <2>2 DEF Created, ModuleState
  <2> QED BY <2>1, <2>2
<1>6. /\ r.area \in 0 .. navs
      /\ r.area = navs => address.page = p
      /\ p \notin hasty => r.objects <= 1 /\ lost' = lost
      /\ lost' \in {lost, lost \cup {p}}
  BY <1>1, <1>4, <1>5 DEF OfPage, PlacesAreOwn, UnmountedIsIdle, NothingCreated, Created
<1> HIDE DEF r
<1>7. ScreenIsAsChosen(p)'
  <2> SUFFICES ASSUME Tidy, p \notin hasty PROVE AsChosen(p)'
    BY <1>3 DEF ScreenIsAsChosen, Around
  <2>1. /\ {k \in loads : k.page = p} = {l} /\ mod[p].mounted # 0
        /\ address.page # "malformed"
    BY <1>1, LastRequest, PageValues
  <2>2. AsChosen(p)
    BY <1>4, <2>1 DEF OfPage, ScreenIsAsChosen
  <2>3. {k \in loads' : k.page = p} = {} /\ view'.shown = what
    BY <1>2, <1>3, <2>1 DEF Answered
  <2>4. p \notin Detail \cup {"map", "repeaters"}
    OBVIOUS
  <2> QED BY <1>1, <1>5, <2>1, <2>2, <2>3, <2>4, PageValues DEF AsChosen, Around, Detail
<1> QED BY <1>1, <1>2, <1>3, <1>5, <1>6, <1>7, AnswerEnds DEF Answered

\* What may be shown.
LEMMA ShownValues ==
  /\ {"data", "none", "error", "spinner", "all", "offline", "24h", "frame"} \subseteq Shown
  /\ Sel \subseteq Shown /\ Id \subseteq Shown
BY DEF Shown, Sel

\* Where an answer to a page is written.
LEMMA Places ==
  ASSUME Inside, NEW l \in loads
  PROVE  /\ l.page \in Page /\ l \in Requests /\ mod[l.page] \in ModuleState
         /\ OfPage(l.page) /\ l.step \in StepsOf(l.page)
         /\ l.nav \in 1 .. navs /\ navs \in Nat /\ navs > 0
         /\ l.nav = navs => address.page = l.page
         /\ mod[l.page].area = navs => address.page = l.page
<1>1. l.page \in Page /\ l \in Requests
  BY DEF Inside, Typed, Requests
<1>2. OfPage(l.page) /\ mod[l.page] \in ModuleState /\ navs \in Nat
  BY <1>1 DEF Inside, Typed
<1> QED BY <1>1, <1>2 DEF OfPage, PlacesAreOwn

\* Two requests, one after the other; what they show does not differ.
LEMMA HealthAnswerKeeps ==
  ASSUME Inside, NEW l \in loads, NEW outcome \in Outcome, HealthAnswer(l, outcome),
         UNCHANGED Around
  PROVE  Inside'
<1> USE DEF HealthAnswer, NothingCreated
<1>1. CASE l.step = "health"
  BY <1>1, AnswerFollowed DEF StepsOf, Detail
<1>2. CASE l.step # "health"
  BY <1>2, AnswerShown, ShownValues, Places, LastRequest DEF Detail
<1> QED BY <1>1, <1>2

\* The list of observers.
LEMMA ObserversAnswerKeeps ==
  ASSUME Inside, NEW l \in loads, NEW outcome \in Outcome, ObserversAnswer(l, outcome),
         UNCHANGED Around
  PROVE  Inside'
BY AnswerShown, ShownValues, Places, LastRequest DEF Detail, ObserversAnswer, NothingCreated

\* The boards are those of the window that is chosen.
LEMMA BoardsAnswerKeeps ==
  ASSUME Inside, NEW l \in loads, NEW outcome \in Outcome, BoardsAnswer(l, outcome),
         UNCHANGED Around
  PROVE  Inside'
<1>1. l.arg \in Shown
  BY Places, ShownValues DEF Requests
<1>2. l.page = "leaderboards" /\ l.page \in Page
  BY Places DEF BoardsAnswer
<1>3. ASSUME Tidy, l.page \notin hasty
      PROVE  mod[l.page].area = navs /\ mod[l.page].sel = l.arg
  BY <1>2, <1>3, LastRequest, Places DEF OfPage, ScreenIsAsChosen, AsChosen
<1> QED BY <1>1, <1>2, <1>3, AnswerShown, Places DEF BoardsAnswer, NothingCreated, Detail

\* The chart is created for the first time, if the page was not left.
LEMMA HomeAnswerKeeps ==
  ASSUME Inside, NEW l \in loads, NEW outcome \in Outcome, HomeAnswer(l, outcome),
         UNCHANGED Around
  PROVE  Inside'
<1> USE DEF HomeAnswer
<1>1. l.page = "home" /\ l.step \in {"stats", "score", "packets"}
  BY Places DEF StepsOf, Detail
<1>2. CASE l.step = "stats"
  BY <1>1, <1>2, AnswerFollowed DEF StepsOf, Detail, NothingCreated
<1>3. CASE l.step = "score"
  BY <1>1, <1>3, AnswerFollowed DEF StepsOf, Detail, NothingCreated
<1>4. CASE l.step = "packets"
  <2>1. l.page \notin hasty => mod[l.page].objects = 0
    BY <1>4, Places DEF OfPage, RequestIsLast
  <2>2. /\ Answered(l) /\ view' = Written(l.nav, "data") /\ UNCHANGED handlers
        /\ NothingCreated \/ Created(l.page)
    BY <1>1, <1>4
  <2> QED BY <1>1, <2>1, <2>2, AnswerShown, ShownValues, Places, LastRequest DEF Detail
<1> QED BY <1>1, <1>2, <1>3, <1>4

\* The map of the search before was destroyed when this one began.
LEMMA TraceAnswerKeeps ==
  ASSUME Inside, NEW l \in loads, NEW outcome \in Outcome, TraceAnswer(l, outcome),
         UNCHANGED Around
  PROVE  Inside'
<1>1. l.arg \in Shown
  BY Places, ShownValues DEF Requests
<1>2. l.page = "traces" /\ l.page \in Page /\ l.step = "trace"
  BY Places DEF TraceAnswer, StepsOf, Detail
<1>3. l.page \notin hasty => mod[l.page].objects = 0
  BY <1>2, Places DEF OfPage, RequestIsLast
<1>4. ASSUME Tidy, l.page \notin hasty
      PROVE  mod[l.page].area = navs /\ mod[l.page].sel = l.arg /\ l.arg # NULL
  BY <1>2, <1>4, LastRequest, Places DEF OfPage, ScreenIsAsChosen, AsChosen
<1> QED BY <1>1, <1>2, <1>3, <1>4, AnswerShown, Places DEF TraceAnswer, Detail

\* The messages are those of the channel that is chosen.
LEMMA MessagesAnswerKeeps ==
  ASSUME Inside, NEW l \in loads, NEW outcome \in Outcome, MessagesAnswer(l, outcome),
         UNCHANGED Around
  PROVE  Inside'
<1>1. l.arg \in Shown
  BY Places, ShownValues DEF Requests
<1>2. l.page = "channels" /\ l.page \in Page
  BY Places DEF MessagesAnswer
<1>3. ASSUME Tidy, l.page \notin hasty
      PROVE  mod[l.page].area = navs /\ mod[l.page].sel = l.arg /\ l.arg # NULL
  BY <1>2, <1>3, LastRequest, Places DEF MessagesAnswer, OfPage, ScreenIsAsChosen, AsChosen
<1> QED BY <1>1, <1>2, <1>3, AnswerShown, Places DEF MessagesAnswer, Detail

\* The rows of the answer are those of all repeaters, which is chosen.
LEMMA RepeatersAnswerKeeps ==
  ASSUME Inside, NEW l \in loads, NEW outcome \in Outcome, RepeatersAnswer(l, outcome),
         UNCHANGED Around
  PROVE  Inside'
<1> DEFINE p == "repeaters"
           r == [mod[p] EXCEPT !.area = l.nav]
<1>1. l.page = p
  BY DEF RepeatersAnswer
<1>2. /\ p \in Page /\ mod[p] \in ModuleState /\ l.nav \in 1 .. navs /\ navs > 0 /\ navs \in Nat
      /\ OfPage(p) /\ (l.nav = navs => address.page = p)
  BY <1>1, Places
<1>3. /\ r \in ModuleState /\ r.mounted = mod[p].mounted /\ r.handle = mod[p].handle
      /\ r.area = l.nav /\ r.sel = mod[p].sel /\ r.objects = mod[p].objects
      /\ r.marks = mod[p].marks
      /\ mod' = [mod EXCEPT ![p] = r] /\ mod'[p] = r
  BY <1>2 DEF RepeatersAnswer, ModuleState, Inside, Typed
<1> HIDE DEF r
<1>4. /\ view' \in [page : Page \cup {NULL, "unknown"}, nav : Nat, shown : Shown]
      /\ ViewFollowsAddress'
      /\ Tidy' /\ address.page \notin {p, "malformed"} => view' = view
      /\ Tidy' /\ address.page # "malformed" =>
           view'.shown = IF l.nav = navs THEN "all" ELSE view.shown
  BY <1>2, WritingKeeps, ShownValues DEF RepeatersAnswer, Around
<1>5. Tidy' <=> Tidy
  BY DEF Tidy, Around
<1>6. ScreenIsAsChosen(p)'
  <2> SUFFICES ASSUME Tidy, p \notin hasty PROVE AsChosen(p)'
    BY <1>5 DEF ScreenIsAsChosen, Around
  <2>1. /\ {k \in loads : k.page = p} = {l} /\ mod[p].mounted # 0 /\ l.nav = navs
        /\ address.page = p
    BY <1>1, LastRequest
  <2>2. AsChosen(p)
    BY <1>2, <2>1 DEF OfPage, ScreenIsAsChosen
  <2>3. {k \in loads' : k.page = p} = {} /\ view'.shown = "all"
    BY <1>4, <1>5, <2>1 DEF RepeatersAnswer, Answered
  <2> QED BY <1>3, <2>1, <2>2, <2>3 DEF AsChosen, Around, Detail
<1>7. p \notin hasty => r.objects <= 1 /\ lost' = lost
  BY <1>2, <1>3 DEF OfPage, UnmountedIsIdle, RepeatersAnswer
<1>8. /\ loads' = loads \ {l} /\ UNCHANGED handlers /\ lost' \in {lost, lost \cup {l.page}}
      /\ r.area \in 0 .. navs /\ (r.area = navs => address.page = l.page)
  BY <1>1, <1>2, <1>3 DEF RepeatersAnswer, Answered, Created, NothingCreated, OfPage, PlacesAreOwn
<1> QED BY <1>1, <1>2, <1>3, <1>4, <1>5, <1>6, <1>7, <1>8, AnswerEnds DEF Around

\* The map is created for the first time, if the page was not left.
LEMMA NodesAnswerKeeps ==
  ASSUME Inside, NEW l \in loads, NEW outcome \in Outcome, NodesAnswer(l, outcome),
         UNCHANGED Around
  PROVE  Inside'
<1> DEFINE p == "map"
           r == [mod[p] EXCEPT !.objects = IF outcome = "data" THEN 1 ELSE @]
<1>1. l.page = p /\ l.step = "nodes"
  BY DEF NodesAnswer
<1>2. /\ p \in Page /\ mod[p] \in ModuleState /\ l.nav \in 1 .. navs /\ navs > 0 /\ navs \in Nat
      /\ OfPage(p) /\ (l.nav = navs => address.page = p)
  BY <1>1, Places
<1>3. /\ r \in ModuleState /\ r.mounted = mod[p].mounted /\ r.handle = mod[p].handle
      /\ r.area = mod[p].area /\ r.sel = mod[p].sel /\ r.objects \in {mod[p].objects, 1}
      /\ r.marks = mod[p].marks
      /\ mod' = [mod EXCEPT ![p] = r] /\ mod'[p] = r
  <2>1. CASE outcome = "data"
    BY <1>2, <2>1 DEF NodesAnswer, Created, ModuleState, Inside, Typed
  <2>2. CASE outcome # "data"
    BY <1>2, <2>2 DEF NodesAnswer, NothingCreated, ModuleState, Inside, Typed
  <2> QED BY <2>1, <2>2
<1> HIDE DEF r
<1>4. /\ view' \in [page : Page \cup {NULL, "unknown"}, nav : Nat, shown : Shown]
      /\ ViewFollowsAddress'
      /\ Tidy' /\ address.page \notin {p, "malformed"} => view' = view
      /\ Tidy' /\ address.page # "malformed" =>
           view'.shown = IF l.nav = navs THEN "data" ELSE view.shown
  BY <1>2, WritingKeeps, ShownValues DEF NodesAnswer, Around
<1>5. Tidy' <=> Tidy
  BY DEF Tidy, Around
<1>6. p \notin hasty => mod[p].objects = 0
  BY <1>1, <1>2 DEF OfPage, RequestIsLast
<1>7. ScreenIsAsChosen(p)'
  <2> SUFFICES ASSUME Tidy, p \notin hasty PROVE AsChosen(p)'
    BY <1>5 DEF ScreenIsAsChosen, Around
  <2>1. /\ {k \in loads : k.page = p} = {l} /\ mod[p].mounted # 0 /\ l.nav = navs
        /\ address.page = p
    BY <1>1, LastRequest
  <2>2. AsChosen(p)
    BY <1>2, <2>1 DEF OfPage, ScreenIsAsChosen
  <2>3. {k \in loads' : k.page = p} = {} /\ view'.shown = "data"
    BY <1>4, <1>5, <2>1 DEF NodesAnswer, Answered
  <2> QED BY <1>3, <1>6, <2>1, <2>2, <2>3 DEF AsChosen, Around, Detail
<1>8. /\ p \notin hasty => r.objects <= 1 /\ lost' = lost
      /\ lost' \in {lost, lost \cup {p}}
  BY <1>2, <1>3, <1>6 DEF OfPage, UnmountedIsIdle, NodesAnswer, Created, NothingCreated
<1>9. /\ loads' = loads \ {l} /\ UNCHANGED handlers /\ lost' \in {lost, lost \cup {l.page}}
      /\ r.area \in 0 .. navs /\ (r.area = navs => address.page = l.page)
  BY <1>1, <1>2, <1>3, <1>8 DEF NodesAnswer, Answered, Created, NothingCreated, OfPage, PlacesAreOwn
<1> QED BY <1>1, <1>2, <1>3, <1>4, <1>5, <1>7, <1>8, <1>9, AnswerEnds DEF Around

\* Coverage was asked for where it is still switched on.
LEMMA CoverageAnswerKeeps ==
  ASSUME Inside, NEW l \in loads, NEW outcome \in Outcome, CoverageAnswer(l, outcome),
         UNCHANGED Around
  PROVE  Inside'
<1> DEFINE p == "map"
           r == [mod[p] EXCEPT !.marks = @ \/ (outcome # "failed" /\ mod[p].objects > 0)]
<1>1. l.page = p /\ l.step = "coverage"
  BY DEF CoverageAnswer
<1>2. /\ p \in Page /\ mod[p] \in ModuleState /\ navs \in Nat /\ OfPage(p)
  BY <1>1, Places
<1>3. /\ r \in ModuleState /\ r.mounted = mod[p].mounted /\ r.handle = mod[p].handle
      /\ r.area = mod[p].area /\ r.sel = mod[p].sel /\ r.objects = mod[p].objects
      /\ r.marks => mod[p].marks \/ mod[p].objects > 0
      /\ mod' = [mod EXCEPT ![p] = r] /\ mod'[p] = r
  BY <1>2 DEF CoverageAnswer, ModuleState, Inside, Typed
<1> HIDE DEF r
<1>4. /\ view' \in [page : Page \cup {NULL, "unknown"}, nav : Nat, shown : Shown]
      /\ ViewFollowsAddress'
      /\ view' = view /\ (Tidy' <=> Tidy)
  BY DEF CoverageAnswer, Inside, Typed, ViewFollowsAddress, Tidy, Around
<1>5. ScreenIsAsChosen(p)'
  <2> SUFFICES ASSUME Tidy, p \notin hasty PROVE AsChosen(p)'
    BY <1>4 DEF ScreenIsAsChosen, Around
  <2>1. {k \in loads : k.page = p} = {l} /\ mod[p].mounted # 0
    BY <1>1, LastRequest
  <2>2. AsChosen(p)
    BY <1>2, <2>1 DEF OfPage, ScreenIsAsChosen
  <2>3. {k \in loads' : k.page = p} = {}
    BY <2>1 DEF CoverageAnswer, Answered
  <2>4. mod[p].sel = "on" /\ view.shown = "data"
    BY <1>1, <2>1, <2>2 DEF AsChosen
  <2> QED BY <1>3, <1>4, <2>2, <2>3, <2>4 DEF AsChosen, Around, Detail
<1>6. p \notin hasty => r.objects <= 1 /\ lost' = lost
  BY <1>2, <1>3 DEF OfPage, UnmountedIsIdle, CoverageAnswer
<1>7. /\ loads' = loads \ {l} /\ UNCHANGED handlers /\ lost' \in {lost, lost \cup {l.page}}
      /\ r.area \in 0 .. navs /\ (r.area = navs => address.page = l.page)
  BY <1>1, <1>2, <1>3 DEF CoverageAnswer, Answered, Created, NothingCreated, OfPage, PlacesAreOwn
<1> QED BY <1>1, <1>2, <1>3, <1>4, <1>5, <1>6, <1>7, AnswerEnds DEF Around

\* What a detail page puts on the screen is of the address, if no detail
\* page was left before its answer came.
LEMMA DetailAnswerKeeps ==
  ASSUME Inside, NEW l \in loads, NEW outcome \in Outcome, DetailAnswer(l, outcome),
         UNCHANGED Around
  PROVE  Inside'
<1> DEFINE p == l.page
           r == [mod[p] EXCEPT !.objects = IF outcome = "data" THEN @ + 1 ELSE @]
<1>1. /\ p \in Page /\ p \in Detail /\ mod[p] \in ModuleState /\ OfPage(p)
      /\ l.nav \in 1 .. navs /\ navs \in Nat /\ l.arg \in Shown /\ l.step = "detail"
  <2>1. l.step \in StepsOf(p) /\ p \in Detail
    BY Places DEF DetailAnswer
  <2>2. l.step = "detail"
    BY <2>1 DEF StepsOf, Detail
  <2> QED BY <2>1, <2>2, Places, ShownValues DEF Requests
<1>2. /\ r \in ModuleState /\ r.mounted = mod[p].mounted /\ r.handle = mod[p].handle
      /\ r.area = mod[p].area /\ r.sel = mod[p].sel /\ r.marks = mod[p].marks
      /\ r.objects <= mod[p].objects + 1
      /\ mod' = [mod EXCEPT ![p] = r] /\ mod'[p] = r
  <2>1. CASE outcome = "data"
    BY <1>1, <2>1 DEF DetailAnswer, ModuleState, Inside, Typed
  <2>2. CASE outcome # "data"
    BY <1>1, <2>2 DEF DetailAnswer, ModuleState, Inside, Typed
  <2> QED BY <2>1, <2>2
<1> HIDE DEF r
<1>3. /\ view'.page = p /\ view'.nav = l.nav /\ view'.shown \in {l.arg, "error"}
      /\ view' \in [page : Page \cup {NULL, "unknown"}, nav : Nat, shown : Shown]
  BY <1>1, ShownValues DEF DetailAnswer
<1>4. (Tidy' <=> Tidy) /\ (Tidy => p \notin hasty)
  BY <1>1 DEF Tidy, Around
<1>5. Tidy => /\ address.page = p /\ l.nav = navs /\ mod[p].mounted # 0
              /\ {k \in loads : k.page = p} = {l}
  BY <1>4, LastRequest
<1>6. ViewFollowsAddress'
  <2>1. address.page = "malformed" => l.nav < navs
    BY <1>1, PageValues DEF OfPage, PlacesAreOwn
  <2> QED BY <1>1, <1>3, <1>4, <1>5, <2>1 DEF ViewFollowsAddress, Around
<1>7. ScreenIsAsChosen(p)'
  <2> SUFFICES ASSUME Tidy, p \notin hasty PROVE AsChosen(p)'
    BY <1>4 DEF ScreenIsAsChosen, Around
  <2>1. AsChosen(p)
    BY <1>1, <1>5 DEF OfPage, ScreenIsAsChosen
  <2>2. {k \in loads' : k.page = p} = {} /\ l.arg = address.id
    BY <1>1, <1>5, <2>1 DEF DetailAnswer, Answered, AsChosen
  <2> QED BY <1>1, <1>2, <1>3, <2>1, <2>2 DEF AsChosen, Around, Detail
<1>8. p \notin hasty => r.objects <= 1 /\ lost' = lost
  BY <1>1, <1>2 DEF OfPage, RequestIsLast, DetailAnswer
<1>9. /\ loads' = loads \ {l} /\ UNCHANGED handlers /\ lost' \in {lost, lost \cup {l.page}}
      /\ r.area \in 0 .. navs /\ (r.area = navs => address.page = l.page)
  BY <1>1, <1>2 DEF DetailAnswer, Answered, Created, NothingCreated, OfPage, PlacesAreOwn
<1> QED BY <1>1, <1>2, <1>3, <1>4, <1>5, <1>6, <1>7, <1>8, <1>9, AnswerEnds DEF Around

\* The rest of the channel page's mount, if it is still there; else nothing.
LEMMA ChannelsAnswerKeeps ==
  ASSUME Inside, NEW l \in loads, NEW outcome \in Outcome, ChannelsAnswer(l, outcome),
         UNCHANGED Around
  PROVE  Inside'
<1> DEFINE p == "channels"
<1>1. l.page = p /\ l.step = "channels" /\ lost' = lost
  BY DEF ChannelsAnswer
<1>2. /\ p \in Page /\ mod[p] \in ModuleState /\ l.nav \in 1 .. navs /\ navs \in Nat
      /\ OfPage(p) /\ l \in Requests
  BY <1>1, Places
<1>3. (Tidy' <=> Tidy) /\ hasty' = hasty
  BY DEF Tidy, Around
<1>4. CASE mod[p].mounted = 0
  <2>1. p \in hasty
    BY <1>1, <1>2, <1>4, LastRequest
  <2>2. loads' = loads \ {l} /\ UNCHANGED << view, mod, handlers >>
    BY <1>1, <1>4 DEF ChannelsAnswer, Answered
  <2>3. /\ view' \in [page : Page \cup {NULL, "unknown"}, nav : Nat, shown : Shown]
        /\ ViewFollowsAddress'
    BY <1>3, <2>2 DEF Inside, Typed, ViewFollowsAddress, Around
  <2>4. /\ mod' = [mod EXCEPT ![l.page] = mod[p]] /\ mod[p].area \in 0 .. navs
        /\ mod[p].area = navs => address.page = l.page
    BY <1>1, <1>2, <2>2 DEF Inside, Typed, OfPage, PlacesAreOwn
  <2>5. ScreenIsAsChosen(p)'
    BY <1>3, <2>1 DEF ScreenIsAsChosen
  <2> QED BY <1>1, <1>2, <2>1, <2>2, <2>3, <2>4, <2>5, AnswerEnds DEF Around
<1>5. CASE mod[p].mounted # 0
  <2>1. /\ current = p /\ importing = {} /\ mod[p].mounted = navs
        /\ address.page = p /\ navs > 0
    BY <1>2, <1>5 DEF Inside, OfPage, MountedIsCurrent, CurrentIsLatest
  <2>2. PICK c \in IF outcome = "data" THEN Channel ELSE {NULL} :
          /\ mod' = [mod EXCEPT ![l.page].area = mod[l.page].mounted,
                                ![l.page].sel = IF c = NULL THEN @ ELSE c,
                                ![l.page].handle = TRUE]
          /\ view' = Written(mod[l.page].mounted, IF c = NULL THEN "none" ELSE "spinner")
          /\ loads' = (loads \ {l}) \cup
               IF c = NULL THEN {} ELSE {Request(l.page, l.nav, "messages", c)}
    BY <1>1, <1>5 DEF ChannelsAnswer
  <2> DEFINE r == [mod[p] EXCEPT !.area = navs, !.sel = IF c = NULL THEN @ ELSE c,
                                 !.handle = TRUE]
             k == Request(p, l.nav, "messages", c)
  <2>3. c \in Channel \cup {NULL} /\ c \in Sel
    BY DEF Sel
  <2>4. /\ r \in ModuleState /\ r.mounted = mod[p].mounted /\ r.handle
        /\ r.area = navs /\ r.sel = (IF c = NULL THEN mod[p].sel ELSE c)
        /\ r.objects = mod[p].objects /\ r.marks = mod[p].marks
        /\ mod' = [mod EXCEPT ![p] = r] /\ mod'[p] = r
        /\ \A q \in Page \ {p} : mod'[q] = mod[q]
    BY <1>1, <1>2, <2>1, <2>2, <2>3 DEF ModuleState, Inside, Typed
  <2> HIDE DEF r
  <2>5. k \in Requests /\ k.page = p /\ k.nav = l.nav /\ k.step = "messages" /\ k.arg = c
    BY <1>2, <2>3 DEF Request, Requests, Inside, Typed, StepsOf, Detail
  <2>6. loads' = (loads \ {l}) \cup IF c = NULL THEN {} ELSE {k}
    BY <1>1, <2>2
  <2> HIDE DEF k
  <2>7. /\ handlers' \in [Page -> Int] /\ handlers'[p] = handlers[p] + 1
        /\ \A q \in Page \ {p} : handlers'[q] = handlers[q]
    <3>1. handlers' = [handlers EXCEPT ![p] = handlers[p] + 1]
      BY <1>1, <1>5 DEF ChannelsAnswer
    <3>2. handlers \in [Page -> Int] /\ handlers[p] \in Int
      BY <1>2 DEF Inside, Typed
    <3> QED BY <1>2, <3>1, <3>2
  <2>8. /\ view' \in [page : Page \cup {NULL, "unknown"}, nav : Nat, shown : Shown]
        /\ ViewFollowsAddress'
        /\ Tidy' /\ address.page \notin {p, "malformed"} => view' = view
        /\ Tidy' => view'.shown = IF c = NULL THEN "none" ELSE "spinner"
    <3> DEFINE what == IF c = NULL THEN "none" ELSE "spinner"
    <3>1. what \in Shown /\ view' = Written(navs, what)
      BY <1>1, <2>1, <2>2, ShownValues
    <3> QED BY <1>2, <2>1, <3>1, WritingKeeps DEF Around
  <2>9. Typed'
    BY <2>4, <2>5, <2>6, <2>7, <2>8 DEF Inside, Typed, Around
  <2>10. p \notin hasty => {j \in loads : j.page = p} = {l} /\ ~mod[p].handle /\ l.nav = navs
    BY <1>1, <1>2, LastRequest DEF OfPage, RequestIsLast
  <2>11. OfPage(p)'
    <3> USE <1>3 DEF Around
    <3>1. MountedIsCurrent(p)'
      BY <2>1, <2>4 DEF MountedIsCurrent
    <3>2. HandlersAreRemembered(p)'
      BY <1>2, <1>5, <2>4, <2>7, <2>10 DEF OfPage, HandlersAreRemembered
    <3>3. UnmountedIsIdle(p)'
      BY <1>1, <1>2, <1>5, <2>4 DEF OfPage, UnmountedIsIdle
    <3>4. RequestIsLast(p)'
      BY <1>5, <2>4, <2>5, <2>6, <2>10 DEF RequestIsLast
    <3>5. PlacesAreOwn(p)'
      BY <1>2, <2>1, <2>4, <2>5, <2>6 DEF OfPage, PlacesAreOwn, StepsOf, Detail
    <3>6. ScreenIsAsChosen(p)'
      <4> SUFFICES ASSUME Tidy, p \notin hasty PROVE AsChosen(p)'
        BY DEF ScreenIsAsChosen
      <4>1. AsChosen(p)
        BY <1>2, <1>5 DEF OfPage, ScreenIsAsChosen
      <4>2. mod[p].sel = NULL
        BY <1>1, <2>10, <4>1 DEF AsChosen
      <4>3. {j \in loads' : j.page = p} = IF c = NULL THEN {} ELSE {k}
        BY <2>5, <2>6, <2>10
      <4> QED BY <2>3, <2>4, <2>5, <2>8, <4>1, <4>2, <4>3 DEF AsChosen, Detail
    <3> QED BY <3>1, <3>2, <3>3, <3>4, <3>5, <3>6 DEF OfPage
  <2> QED BY <1>1, <1>2, <1>3, <2>4, <2>5, <2>6, <2>7, <2>8, <2>9, <2>11, ElsewhereKeeps
          DEF Around
<1> QED BY <1>4, <1>5

\* Every answer keeps the invariant.
LEMMA AnswerKeeps ==
  ASSUME Inside, NEW l \in loads, NEW outcome \in Outcome, Answer(l, outcome)
  PROVE  Inside'
BY HomeAnswerKeeps, HealthAnswerKeeps, ObserversAnswerKeeps, RepeatersAnswerKeeps,
   BoardsAnswerKeeps, NodesAnswerKeeps, CoverageAnswerKeeps, TraceAnswerKeeps,
   ChannelsAnswerKeeps, MessagesAnswerKeeps, DetailAnswerKeeps
   DEF Answer, Around

-----------------------------------------------------------------------------
(* Choices.                                                                *)

\* A choice is made on the page that is mounted, or on the one a malformed
\* address left on the screen, and marks it if an answer is under way.
LEMMA PickFacts ==
  ASSUME Inside, NEW p \in Page, Pick(p)
  PROVE  /\ OfPage(p) /\ mod[p] \in ModuleState /\ mod \in [Page -> ModuleState]
         /\ navs \in Nat /\ view.nav \in 1 .. navs /\ current = p
         /\ IF mod[p].mounted # 0
            THEN /\ importing = {} /\ address.page = p
                 /\ mod[p].mounted = navs /\ view.nav = navs
            ELSE address.page = "malformed" /\ view.nav < navs
         /\ hasty' \in {hasty, hasty \cup {p}}
         /\ p \notin hasty' => p \notin hasty /\ {l \in loads : l.page = p} = {}
         /\ Tidy' /\ p \notin hasty' /\ mod[p].mounted # 0 => AsChosen(p)
<1>1. /\ view.page = p
      /\ view.nav = mod[p].mounted \/ (address.page = "malformed" /\ p = current)
  BY DEF Pick
<1>2. view.nav \in 1 .. navs /\ navs \in Nat
  BY <1>1 DEF Inside, ViewFollowsAddress, Typed
<1>3. OfPage(p) /\ mod[p] \in ModuleState /\ mod \in [Page -> ModuleState]
  BY DEF Inside, Typed
<1>4. ASSUME mod[p].mounted # 0
      PROVE  /\ current = p /\ importing = {} /\ address.page = p
             /\ mod[p].mounted = navs /\ view.nav = navs
  <2>1. /\ current = p /\ importing = {} /\ mod[p].mounted = navs
        /\ address.page = p /\ address.page # "malformed"
    BY <1>3, <1>4, PageValues DEF OfPage, MountedIsCurrent
  <2> QED BY <1>1, <2>1
<1>5. ASSUME mod[p].mounted = 0
      PROVE  current = p /\ address.page = "malformed" /\ view.nav < navs
  <2>1. address.page = "malformed" /\ current = p
    BY <1>1, <1>2, <1>5
  <2> QED BY <2>1 DEF Inside, ViewFollowsAddress
<1>6. /\ hasty' \in {hasty, hasty \cup {p}}
      /\ p \notin hasty' => p \notin hasty /\ {l \in loads : l.page = p} = {}
  BY PageAssumption DEF Pick, Hurry, Waits
<1>7. Tidy' => Tidy
  BY <1>6 DEF Tidy
<1>8. Tidy' /\ p \notin hasty' /\ mod[p].mounted # 0 => AsChosen(p)
  BY <1>3, <1>6, <1>7 DEF OfPage, ScreenIsAsChosen
<1> QED BY <1>2, <1>3, <1>4, <1>5, <1>6, <1>8

\* A choice that asks for at most one thing.
LEMMA PickKeeps ==
  ASSUME Inside, NEW p \in Page, Pick(p),
         NEW r \in ModuleState, mod' = [mod EXCEPT ![p] = r],
         r.mounted = mod[p].mounted, r.handle = mod[p].handle, r.area = mod[p].area,
         r.objects \in {0, mod[p].objects}, r.marks => mod[p].marks,
         NEW k \in Requests,
         \/ loads' = loads
         \/ /\ loads' = loads \cup {k} /\ k.page = p /\ k.nav = view.nav
            /\ mod[p].area # 0 \/ mod[p].objects # 0
            /\ \/ p = "leaderboards" /\ k.step = "boards"
               \/ p = "traces" /\ k.step = "trace" /\ r.objects = 0
               \/ p = "channels" /\ k.step = "messages"
               \/ p = "map" /\ k.step = "coverage",
         view' \in [page : Page \cup {NULL, "unknown"}, nav : Nat, shown : Shown],
         view'.page = view.page, view'.nav = view.nav,
         Tidy' /\ p \notin hasty' /\ mod[p].mounted # 0 => AsChosen(p)'
  PROVE  Inside'
<1>1. /\ OfPage(p) /\ mod[p] \in ModuleState
      /\ navs \in Nat /\ view.nav \in 1 .. navs /\ current = p
      /\ IF mod[p].mounted # 0
         THEN /\ importing = {} /\ address.page = p
              /\ mod[p].mounted = navs /\ view.nav = navs
         ELSE address.page = "malformed" /\ view.nav < navs
      /\ hasty' \in {hasty, hasty \cup {p}}
      /\ p \notin hasty' => p \notin hasty /\ {l \in loads : l.page = p} = {}
  BY PickFacts
<1>2. mod'[p] = r /\ \A q \in Page \ {p} : mod'[q] = mod[q]
  BY DEF Inside, Typed
<1>3. /\ UNCHANGED << address, navs, current, imported, importing, handlers, lost >>
      /\ picks' = picks + 1
  BY DEF Pick
<1>4. Typed'
  BY <1>3 DEF Inside, Typed
<1>5. ViewFollowsAddress'
  BY <1>1, <1>3 DEF Inside, ViewFollowsAddress, Tidy
<1>6. OfPage(p)'
  <2> USE <1>1, <1>2, <1>3 DEF OfPage
  <2>1. MountedIsCurrent(p)' /\ HandlersAreRemembered(p)'
    BY DEF MountedIsCurrent, HandlersAreRemembered
  <2>2. p \notin hasty' /\ mod[p].mounted = 0 =>
          mod[p].area = 0 /\ mod[p].objects = 0 /\ ~mod[p].marks
    BY DEF UnmountedIsIdle
  <2>3. UnmountedIsIdle(p)'
    BY <2>2 DEF UnmountedIsIdle, ModuleState
  <2>6. RequestIsLast(p)'
    BY <2>2 DEF RequestIsLast
  <2>4. PlacesAreOwn(p)'
    <3>1. loads' # loads => k.step \in StepsOf(p)
      BY DEF StepsOf, Detail
    <3> QED BY <3>1 DEF PlacesAreOwn
  <2>5. ScreenIsAsChosen(p)'
    BY DEF ScreenIsAsChosen
  <2> QED BY <2>1, <2>3, <2>4, <2>5, <2>6
<1> QED BY <1>1, <1>2, <1>3, <1>4, <1>5, <1>6, ElsewhereKeeps

\* A request made now.
LEMMA RequestValue ==
  ASSUME Inside, NEW p \in Page, NEW nav \in Nat, NEW step \in StepsOf(p),
         NEW arg \in Sel \cup Id
  PROVE  /\ Request(p, nav, step, arg) \in Requests
         /\ Request(p, nav, step, arg).page = p /\ Request(p, nav, step, arg).nav = nav
         /\ Request(p, nav, step, arg).step = step /\ Request(p, nav, step, arg).arg = arg
BY DEF Request, Requests, Inside, Typed

\* The boards of another window are asked for.
LEMMA ChooseWindowKeeps ==
  ASSUME Inside, NEW window \in Window, ChooseWindow(window)
  PROVE  Inside'
<1> DEFINE p == "leaderboards"
           r == [mod[p] EXCEPT !.sel = window]
           k == Request(p, view.nav, "boards", window)
<1>1. p \in Page /\ Pick(p)
  BY PageValues DEF ChooseWindow
<1>2. /\ navs \in Nat /\ view.nav \in 1 .. navs /\ view.nav \in Nat /\ mod[p] \in ModuleState
      /\ mod \in [Page -> ModuleState]
      /\ mod[p].mounted # 0 => view.nav = navs /\ address.page = p
      /\ p \notin hasty' => {l \in loads : l.page = p} = {}
      /\ Tidy' /\ p \notin hasty' /\ mod[p].mounted # 0 => AsChosen(p)
  BY <1>1, PickFacts
<1>3. window \in Sel /\ window \in Shown
  BY DEF Window, Sel, Shown
<1>4. k \in Requests /\ k.page = p /\ k.nav = view.nav /\ k.step = "boards" /\ k.arg = window
  BY <1>1, <1>2, <1>3, RequestValue DEF StepsOf, Detail
<1>5. loads' = loads \/ (loads' = loads \cup {k} /\ mod[p].area # 0)
  BY DEF ChooseWindow, Asked
<1>6. mod[p].area # 0 => loads' = loads \cup {k}
  BY DEF ChooseWindow, Asked
<1>7. /\ r \in ModuleState /\ mod' = [mod EXCEPT ![p] = r] /\ mod'[p] = r
      /\ r.mounted = mod[p].mounted /\ r.handle = mod[p].handle /\ r.area = mod[p].area
      /\ r.objects = mod[p].objects /\ r.sel = window /\ r.marks = mod[p].marks
  BY <1>1, <1>3, <1>2 DEF ModuleState, ChooseWindow
<1>8. /\ view' \in [page : Page \cup {NULL, "unknown"}, nav : Nat, shown : Shown]
      /\ view'.page = view.page /\ view'.nav = view.nav
  BY WrittenValue, ShownValues DEF ChooseWindow, Inside
<1> HIDE DEF r, k
<1>9. Tidy' /\ p \notin hasty' /\ mod[p].mounted # 0 => AsChosen(p)'
  <2> SUFFICES ASSUME Tidy', p \notin hasty', mod[p].mounted # 0 PROVE AsChosen(p)'
    OBVIOUS
  <2>0. mod[p].area = navs /\ navs # 0
    BY <1>1, <1>2 DEF AsChosen, Detail
  <2>1. {l \in loads' : l.page = p} = {k}
    BY <1>2, <1>4, <1>6, <2>0
  <2> QED BY <1>1, <1>2, <1>4, <1>7, <2>1 DEF AsChosen, Pick, Detail
<1> QED BY <1>1, <1>2, <1>4, <1>5, <1>7, <1>8, <1>9, PickKeeps

\* The map of the search before is destroyed.
LEMMA SearchKeeps ==
  ASSUME Inside, NEW hash \in Hash, Search(hash)
  PROVE  Inside'
<1> DEFINE p == "traces"
           r == [mod[p] EXCEPT !.sel = hash, !.objects = 0]
           k == Request(p, view.nav, "trace", hash)
<1>1. p \in Page /\ Pick(p)
  BY PageValues DEF Search
<1>2. /\ navs \in Nat /\ view.nav \in 1 .. navs /\ view.nav \in Nat /\ mod[p] \in ModuleState
      /\ mod \in [Page -> ModuleState]
      /\ mod[p].mounted # 0 => view.nav = navs /\ address.page = p
      /\ p \notin hasty' => {l \in loads : l.page = p} = {}
      /\ Tidy' /\ p \notin hasty' /\ mod[p].mounted # 0 => AsChosen(p)
  BY <1>1, PickFacts
<1>3. hash \in Sel /\ hash # NULL
  BY PageAssumption DEF Sel
<1>4. k \in Requests /\ k.page = p /\ k.nav = view.nav /\ k.step = "trace" /\ k.arg = hash
  BY <1>1, <1>2, <1>3, RequestValue DEF StepsOf, Detail
<1>5. loads' = loads \/ (loads' = loads \cup {k} /\ mod[p].area # 0)
  BY DEF Search, Asked
<1>6. mod[p].area # 0 => loads' = loads \cup {k}
  BY DEF Search, Asked
<1>7. /\ r \in ModuleState /\ mod' = [mod EXCEPT ![p] = r] /\ mod'[p] = r
      /\ r.mounted = mod[p].mounted /\ r.handle = mod[p].handle /\ r.area = mod[p].area
      /\ r.objects = 0 /\ r.sel = hash /\ r.marks = mod[p].marks
  BY <1>1, <1>3, <1>2 DEF ModuleState, Search
<1>8. /\ view' \in [page : Page \cup {NULL, "unknown"}, nav : Nat, shown : Shown]
      /\ view'.page = view.page /\ view'.nav = view.nav
  BY WrittenValue, ShownValues DEF Search, Inside
<1> HIDE DEF r, k
<1>9. Tidy' /\ p \notin hasty' /\ mod[p].mounted # 0 => AsChosen(p)'
  <2> SUFFICES ASSUME Tidy', p \notin hasty', mod[p].mounted # 0 PROVE AsChosen(p)'
    OBVIOUS
  <2>0. mod[p].area # 0
    BY DEF Search
  <2>1. {l \in loads' : l.page = p} = {k}
    BY <1>2, <1>4, <1>6, <2>0
  <2> QED BY <1>1, <1>2, <1>3, <1>4, <1>7, <2>1 DEF AsChosen, Pick, Detail
<1> QED BY <1>1, <1>2, <1>4, <1>5, <1>7, <1>8, <1>9, PickKeeps

\* The messages of another channel are asked for.
LEMMA SelectChannelKeeps ==
  ASSUME Inside, NEW c \in Channel, SelectChannel(c)
  PROVE  Inside'
<1> DEFINE p == "channels"
           r == [mod[p] EXCEPT !.sel = c]
           k == Request(p, view.nav, "messages", c)
<1>1. p \in Page /\ Pick(p) /\ (mod[p].mounted # 0 => mod[p].sel # NULL)
  BY PageValues DEF SelectChannel
<1>2. /\ navs \in Nat /\ view.nav \in 1 .. navs /\ view.nav \in Nat /\ mod[p] \in ModuleState
      /\ mod \in [Page -> ModuleState]
      /\ mod[p].mounted # 0 => view.nav = navs /\ address.page = p
      /\ p \notin hasty' => {l \in loads : l.page = p} = {}
      /\ Tidy' /\ p \notin hasty' /\ mod[p].mounted # 0 => AsChosen(p)
  BY <1>1, PickFacts
<1>3. c \in Sel /\ c # NULL
  BY PageAssumption DEF Sel
<1>4. k \in Requests /\ k.page = p /\ k.nav = view.nav /\ k.step = "messages" /\ k.arg = c
  BY <1>1, <1>2, <1>3, RequestValue DEF StepsOf, Detail
<1>5. loads' = loads \/ (loads' = loads \cup {k} /\ mod[p].area # 0)
  BY DEF SelectChannel, Asked
<1>6. mod[p].area # 0 => loads' = loads \cup {k}
  BY DEF SelectChannel, Asked
<1>7. /\ r \in ModuleState /\ mod' = [mod EXCEPT ![p] = r] /\ mod'[p] = r
      /\ r.mounted = mod[p].mounted /\ r.handle = mod[p].handle /\ r.area = mod[p].area
      /\ r.objects = mod[p].objects /\ r.sel = c /\ r.marks = mod[p].marks
  BY <1>1, <1>3, <1>2 DEF ModuleState, SelectChannel
<1>8. /\ view' \in [page : Page \cup {NULL, "unknown"}, nav : Nat, shown : Shown]
      /\ view'.page = view.page /\ view'.nav = view.nav
  BY WrittenValue, ShownValues DEF SelectChannel, Inside
<1> HIDE DEF r, k
<1>9. Tidy' /\ p \notin hasty' /\ mod[p].mounted # 0 => AsChosen(p)'
  <2> SUFFICES ASSUME Tidy', p \notin hasty', mod[p].mounted # 0 PROVE AsChosen(p)'
    OBVIOUS
  <2>0. mod[p].area = navs /\ navs # 0
    BY <1>1, <1>2 DEF AsChosen, Detail
  <2>1. {l \in loads' : l.page = p} = {k}
    BY <1>2, <1>4, <1>6, <2>0
  <2> QED BY <1>1, <1>2, <1>3, <1>4, <1>7, <2>1 DEF AsChosen, Pick, Detail
<1> QED BY <1>1, <1>2, <1>4, <1>5, <1>7, <1>8, <1>9, PickKeeps

\* The table of the rows that came is filtered at once.
LEMMA FilterKeeps ==
  ASSUME Inside, NEW filter \in Filters, Filter(filter)
  PROVE  Inside'
<1> DEFINE p == "repeaters"
           r == [mod[p] EXCEPT !.sel = filter]
<1>1. p \in Page /\ Pick(p)
  BY PageValues DEF Filter
<1>2. /\ navs \in Nat /\ view.nav \in 1 .. navs /\ view.nav \in Nat /\ mod[p] \in ModuleState
      /\ mod \in [Page -> ModuleState]
      /\ mod[p].mounted # 0 => view.nav = navs /\ address.page = p
      /\ p \notin hasty' => {l \in loads : l.page = p} = {}
      /\ Tidy' /\ p \notin hasty' /\ mod[p].mounted # 0 => AsChosen(p)
  BY <1>1, PickFacts
<1>3. filter \in Sel /\ filter \in Shown
  BY DEF Filters, Sel, Shown
<1>5. /\ r \in ModuleState /\ mod' = [mod EXCEPT ![p] = r] /\ mod'[p] = r
      /\ r.mounted = mod[p].mounted /\ r.handle = mod[p].handle /\ r.area = mod[p].area
      /\ r.objects = mod[p].objects /\ r.sel = filter /\ r.marks = mod[p].marks
  BY <1>1, <1>2, <1>3 DEF ModuleState, Filter
<1>6. /\ view' \in [page : Page \cup {NULL, "unknown"}, nav : Nat, shown : Shown]
      /\ view'.page = view.page /\ view'.nav = view.nav
      /\ view'.shown = IF view.nav = mod[p].area THEN filter ELSE view.shown
  BY <1>3, WrittenValue DEF Filter, Inside
<1> HIDE DEF r
<1>7. loads' = loads /\ Request(p, view.nav, "repeaters", filter) \in Requests
  BY <1>1, <1>2, <1>3, RequestValue DEF Filter, StepsOf, Detail
<1>8. Tidy' /\ p \notin hasty' /\ mod[p].mounted # 0 => AsChosen(p)'
  BY <1>1, <1>2, <1>5, <1>6, <1>7 DEF AsChosen, Pick, Detail
<1> QED BY <1>1, <1>2, <1>5, <1>6, <1>7, <1>8, PickKeeps

\* Coverage is asked for when it is switched on, and taken off the map when
\* it is switched off.
LEMMA ToggleCoverageKeeps ==
  ASSUME Inside, ToggleCoverage
  PROVE  Inside'
<1> DEFINE p == "map"
           on == mod[p].sel = "off"
           there == mod[p].objects > 0
           r == [mod[p] EXCEPT !.sel = IF on THEN "on" ELSE "off", !.marks = @ /\ ~there]
           k == Request(p, view.nav, "coverage", NULL)
<1>1. p \in Page /\ Pick(p)
  BY PageValues DEF ToggleCoverage
<1>2. /\ navs \in Nat /\ view.nav \in 1 .. navs /\ view.nav \in Nat /\ mod[p] \in ModuleState
      /\ mod \in [Page -> ModuleState]
      /\ mod[p].mounted # 0 => view.nav = navs /\ address.page = p
      /\ p \notin hasty' => {l \in loads : l.page = p} = {}
      /\ Tidy' /\ p \notin hasty' /\ mod[p].mounted # 0 => AsChosen(p)
  BY <1>1, PickFacts
<1>3. {"on", "off", NULL} \subseteq Sel
  BY DEF Sel
<1>4. k \in Requests /\ k.page = p /\ k.nav = view.nav /\ k.step = "coverage"
  BY <1>1, <1>2, <1>3, RequestValue DEF StepsOf, Detail
<1>5. loads' = loads \cup IF on /\ there THEN {k} ELSE {}
  BY DEF ToggleCoverage
<1>7. /\ r \in ModuleState /\ mod' = [mod EXCEPT ![p] = r] /\ mod'[p] = r
      /\ r.mounted = mod[p].mounted /\ r.handle = mod[p].handle /\ r.area = mod[p].area
      /\ r.objects = mod[p].objects /\ r.sel = (IF on THEN "on" ELSE "off")
      /\ r.marks => mod[p].marks /\ ~there
  BY <1>1, <1>2, <1>3 DEF ModuleState, ToggleCoverage
<1>8. view' = view /\ view \in [page : Page \cup {NULL, "unknown"}, nav : Nat, shown : Shown]
  BY DEF ToggleCoverage, Inside, Typed
<1>9. loads' = loads \/ (loads' = loads \cup {k} /\ on /\ mod[p].objects # 0)
  BY <1>2, <1>5 DEF ModuleState
<1> HIDE DEF r, k
<1>10. Tidy' /\ p \notin hasty' /\ mod[p].mounted # 0 => AsChosen(p)'
  <2> SUFFICES ASSUME Tidy', p \notin hasty', mod[p].mounted # 0 PROVE AsChosen(p)'
    OBVIOUS
  <2>1. \A l \in loads' : l.page = p => l.step = "coverage" /\ r.sel = "on"
    BY <1>2, <1>4, <1>7, <1>9
  <2>2. AsChosen(p) /\ view.shown = "data"
    BY <1>2 DEF AsChosen
  <2>3. ~r.marks
    BY <1>7, <2>2 DEF AsChosen
  <2> QED BY <1>1, <1>7, <1>8, <2>1, <2>2, <2>3 DEF AsChosen, Pick, Detail
<1> QED BY <1>1, <1>2, <1>4, <1>7, <1>8, <1>9, <1>10, PickKeeps

-----------------------------------------------------------------------------
(* The router.                                                             *)

\* One navigation mounts a page.
LEMMA MountValue ==
  ASSUME Typed, NEW p \in Page, NEW w, w.nav \in Nat, NEW m \in [Page -> ModuleState],
         NEW h \in [Page -> Int], Mount(p, {w}, m, h)
  PROVE  LET sel == IF p \in {"repeaters", "traces"} THEN routes[p].sel ELSE m[p].sel
             arg == IF p \in Detail THEN w.id ELSE IF p = "leaderboards" THEN sel ELSE NULL
         IN  /\ current' = p
             /\ view' = [page |-> p, nav |-> w.nav, shown |-> routes[p].shows]
             /\ mod' \in [Page -> ModuleState]
             /\ \A q \in Page \ {p} : mod'[q] = m[q]
             /\ mod'[p].mounted = w.nav /\ mod'[p].sel = sel
             /\ mod'[p].area = IF p \in {"traces", "leaderboards"} THEN w.nav ELSE m[p].area
             /\ mod'[p].handle <=> m[p].handle \/ p = "home"
             /\ mod'[p].objects = m[p].objects /\ mod'[p].marks = m[p].marks
             /\ handlers' = [h EXCEPT ![p] = @ + IF p = "home" THEN 1 ELSE 0]
             /\ loads' = loads \cup IF p = "traces" THEN {}
                                    ELSE {Request(p, w.nav, routes[p].asks, arg)}
<1> DEFINE M == {w}
           last == Max({v.nav : v \in M})
           sel == IF p \in {"repeaters", "traces"} THEN routes[p].sel ELSE m[p].sel
           arg(v) == IF p \in Detail THEN v.id ELSE IF p = "leaderboards" THEN sel ELSE NULL
<1>1. last = w.nav
  <2>1. {v.nav : v \in M} = {w.nav}
    OBVIOUS
  <2> QED BY <2>1 DEF Max
<1>2. Cardinality(M) = 1
  BY FS_Singleton
<1>3. {Request(p, v.nav, routes[p].asks, arg(v)) : v \in M}
        = {Request(p, w.nav, routes[p].asks, arg(w))}
  OBVIOUS
<1>4. /\ current' = p
      /\ view' = [page |-> p, nav |-> last, shown |-> routes[p].shows]
      /\ mod' = [m EXCEPT ![p].mounted = last, ![p].sel = sel,
                          ![p].area = IF routes[p].inPlace THEN last ELSE @,
                          ![p].handle = @ \/ routes[p].subscribes]
      /\ handlers' = [h EXCEPT ![p] = @ + IF routes[p].subscribes
                                          THEN Cardinality(M) ELSE 0]
      /\ loads' = loads \cup IF routes[p].asks = NULL THEN {}
                             ELSE {Request(p, v.nav, routes[p].asks, arg(v)) : v \in M}
  BY DEF Mount
<1>5. /\ routes[p].inPlace <=> p \in {"traces", "leaderboards"}
      /\ routes[p].subscribes <=> p = "home"
      /\ routes[p].asks = NULL <=> p = "traces"
  BY RouteFields
<1> HIDE DEF M, last, sel
<1>6. /\ mod' \in [Page -> ModuleState]
      /\ \A q \in Page \ {p} : mod'[q] = m[q]
      /\ mod'[p].mounted = w.nav /\ mod'[p].sel = sel
      /\ mod'[p].area = IF p \in {"traces", "leaderboards"} THEN w.nav ELSE m[p].area
      /\ mod'[p].handle <=> m[p].handle \/ p = "home"
      /\ mod'[p].objects = m[p].objects /\ mod'[p].marks = m[p].marks
  <2> DEFINE r == [m[p] EXCEPT !.mounted = last, !.sel = sel,
                               !.area = IF routes[p].inPlace THEN last ELSE @,
                               !.handle = @ \/ routes[p].subscribes]
  <2>1. mod' = [m EXCEPT ![p] = r]
    BY <1>4
  <2>2. sel \in Sel
    BY RouteFields DEF sel, Sel, ModuleState
  <2>3. /\ r \in ModuleState /\ r.mounted = last /\ r.sel = sel
        /\ r.area = IF routes[p].inPlace THEN last ELSE m[p].area
        /\ r.handle <=> m[p].handle \/ routes[p].subscribes
        /\ r.objects = m[p].objects /\ r.marks = m[p].marks
    BY <1>1, <2>2 DEF ModuleState
  <2> HIDE DEF r
  <2> QED BY <1>1, <1>5, <2>1, <2>3
<1>7. handlers' = [h EXCEPT ![p] = @ + IF p = "home" THEN 1 ELSE 0]
  BY <1>2, <1>4, <1>5
<1>8. loads' = loads \cup IF p = "traces" THEN {}
                          ELSE {Request(p, w.nav, routes[p].asks, arg(w))}
  BY <1>3, <1>4, <1>5
<1> QED BY <1>1, <1>4, <1>6, <1>7, <1>8 DEF sel

\* A page is mounted when all others are not.
LEMMA MountKeeps ==
  ASSUME Typed, NEW p \in Page, NEW w, w.nav \in Nat \ {0}, w.id \in Id \cup {NULL},
         NEW m \in [Page -> ModuleState], NEW h \in [Page -> Int], Mount(p, {w}, m, h),
         navs' = w.nav, address' = [page |-> p, id |-> w.id], importing' = {},
         UNCHANGED << lost, picks >>,
         \A q \in Page :
           /\ m[q].mounted = 0 /\ ~m[q].handle
           /\ m[q].area \in 0 .. w.nav /\ (m[q].area = w.nav => q = p)
           /\ q \notin hasty' \/ q # "channels" => h[q] = 0
           /\ q \notin hasty' => m[q] = Idle(q) /\ q \notin lost,
         \A l \in loads : /\ l.page \in hasty' /\ l.step \in StepsOf(l.page)
                          /\ l.nav \in 1 .. w.nav /\ (l.nav = w.nav => l.page = p)
  PROVE  Inside'
<1> DEFINE sel == IF p \in {"repeaters", "traces"} THEN routes[p].sel ELSE m[p].sel
           arg == IF p \in Detail THEN w.id ELSE IF p = "leaderboards" THEN sel ELSE NULL
           k == Request(p, w.nav, routes[p].asks, arg)
<1>1. /\ current' = p
      /\ view' = [page |-> p, nav |-> w.nav, shown |-> routes[p].shows]
      /\ mod' \in [Page -> ModuleState]
      /\ \A q \in Page \ {p} : mod'[q] = m[q]
      /\ mod'[p].mounted = w.nav /\ mod'[p].sel = sel
      /\ mod'[p].area = IF p \in {"traces", "leaderboards"} THEN w.nav ELSE m[p].area
      /\ mod'[p].handle <=> m[p].handle \/ p = "home"
      /\ mod'[p].objects = m[p].objects /\ mod'[p].marks = m[p].marks
      /\ handlers' = [h EXCEPT ![p] = @ + IF p = "home" THEN 1 ELSE 0]
      /\ loads' = loads \cup IF p = "traces" THEN {} ELSE {k}
  BY MountValue
<1>2. /\ sel \in Sel
      /\ p \notin hasty' => sel = routes[p].sel /\ m[p].objects = 0 /\ ~m[p].marks
  <2>1. m[p] \in ModuleState
    OBVIOUS
  <2>2. sel \in Sel
    BY <2>1, RouteFields DEF ModuleState, Sel
  <2> QED BY <2>2, IdleValue
<1>3. p # "traces" =>
        /\ k \in Requests /\ k.page = p /\ k.nav = w.nav /\ k.step = routes[p].asks
        /\ k.step \in StepsOf(p) /\ k.arg = arg
  BY <1>2, RouteFields DEF Request, Requests, Typed, Sel
<1>4. /\ routes[p].sel = IF p = "map" THEN "off"
                         ELSE IF p \in {"repeaters", "leaderboards"} THEN "all" ELSE NULL
      /\ routes[p].shows = IF p \in Detail \cup {"leaderboards"} THEN "spinner" ELSE "frame"
      /\ routes[p].shows \in Shown
      /\ p = "map" => routes[p].asks = "nodes"
      /\ p = "channels" => routes[p].asks = "channels"
      /\ p = "home" => routes[p].asks = "stats"
  BY RouteFields, RouteValues, ShownValues
<1> HIDE DEF sel, k
<1>5. \A q \in Page : handlers'[q] = h[q] + IF q = p /\ p = "home" THEN 1 ELSE 0
  BY <1>1
<1>6. Typed'
  <2>1. handlers' \in [Page -> Int]
    BY <1>1
  <2>2. view' \in [page : Page \cup {NULL, "unknown"}, nav : Nat, shown : Shown]
    BY <1>1, <1>4
  <2>3. address' \in [page : Page \cup {NULL, "unknown", "malformed"}, id : Id \cup {NULL}]
    OBVIOUS
  <2>4. loads' \subseteq Requests
    BY <1>1, <1>3 DEF Typed
  <2> QED BY <1>1, <2>1, <2>2, <2>3, <2>4 DEF Typed
<1>7. ImportIsLatest' /\ CurrentIsLatest'
  BY <1>1 DEF ImportIsLatest, CurrentIsLatest
<1>8. ViewFollowsAddress'
  BY <1>1, PageValues DEF ViewFollowsAddress
<1>9. ASSUME NEW q \in Page PROVE OfPage(q)'
  <2>1. MountedIsCurrent(q)'
    BY <1>1 DEF MountedIsCurrent
  <2>2. HandlersAreRemembered(q)'
    BY <1>1, <1>5 DEF HandlersAreRemembered
  <2>3. UnmountedIsIdle(q)'
    <3>1. CASE q = p
      BY <1>1, <1>2, <3>1 DEF UnmountedIsIdle
    <3>2. CASE q # p
      <4>1. mod'[q] = m[q] /\ lost' = lost
        BY <1>1, <3>2
      <4>2. q \notin hasty' => m[q] = Idle(q) /\ q \notin lost
        OBVIOUS
      <4>3. Idle(q)' = Idle(q)
        BY DEF Idle
      <4> QED BY <4>1, <4>2, <4>3, IdleValue DEF UnmountedIsIdle
    <3> QED BY <3>1, <3>2
  <2>4. RequestIsLast(q)'
    <3>1. q \notin hasty' => \A l \in loads' : l.page = q => q = p /\ p # "traces" /\ l = k
      BY <1>1, <1>3
    <3> QED BY <1>1, <1>2, <1>3, <1>4, <3>1 DEF RequestIsLast
  <2>5. PlacesAreOwn(q)'
    BY <1>1, <1>3 DEF PlacesAreOwn
  <2>6. ScreenIsAsChosen(q)'
    <3> SUFFICES ASSUME q = p, p \notin hasty' PROVE AsChosen(p)'
      BY <1>1 DEF ScreenIsAsChosen
    <3>1. {l \in loads' : l.page = p} = IF p = "traces" THEN {} ELSE {k}
      BY <1>1, <1>3
    <3>2. /\ view'.shown = routes[p].shows /\ address'.id = w.id /\ navs' = w.nav
          /\ mod'[p].sel = routes[p].sel /\ ~mod'[p].marks
          /\ p \in {"traces", "leaderboards"} => mod'[p].area = w.nav
      BY <1>1, <1>2
    <3>3. CASE p \in Detail
      BY <1>3, <3>1, <3>2, <3>3 DEF AsChosen, Detail
    <3>4. CASE p \in {"traces", "channels", "leaderboards", "repeaters"}
      BY <1>2, <1>3, <1>4, <3>1, <3>2, <3>4 DEF AsChosen, Detail
    <3>5. CASE p \in {"home", "health", "observers", "map"}
      BY <1>3, <1>4, <3>1, <3>2, <3>5 DEF AsChosen, Detail
    <3> QED BY <3>3, <3>4, <3>5, PageValues DEF Detail
  <2> QED BY <2>1, <2>2, <2>3, <2>4, <2>5, <2>6 DEF OfPage
<1> QED BY <1>6, <1>7, <1>8, <1>9 DEF Inside

\* After a navigation no page is mounted.
LEMMA UnmountedValues ==
  ASSUME Inside
  PROVE  /\ Unmounted \in [Page -> ModuleState] /\ Unsubscribed \in [Page -> Int]
         /\ \A q \in Page :
              /\ Unmounted[q].mounted = 0 /\ ~Unmounted[q].handle
              /\ Unmounted[q].area \in {0, mod[q].area}
              /\ q \notin hasty \/ q # "channels" => Unsubscribed[q] = 0
              /\ q \notin hasty => Unmounted[q] = Idle(q) /\ q \notin lost
<1>1. current \in Page \cup {NULL} /\ mod \in [Page -> ModuleState] /\ handlers \in [Page -> Int]
  BY DEF Inside, Typed
<1>2. Unmounted \in [Page -> ModuleState] /\ Unsubscribed \in [Page -> Int]
  BY <1>1, IdleValue DEF Unmounted, Unsubscribed
<1>3. ASSUME NEW q \in Page
      PROVE  /\ Unmounted[q].mounted = 0 /\ ~Unmounted[q].handle
             /\ Unmounted[q].area \in {0, mod[q].area}
             /\ q \notin hasty \/ q # "channels" => Unsubscribed[q] = 0
             /\ q \notin hasty => Unmounted[q] = Idle(q) /\ q \notin lost
  <2>1. MountedIsCurrent(q) /\ HandlersAreRemembered(q) /\ UnmountedIsIdle(q)
    BY DEF Inside, OfPage
  <2>2. CASE q = current
    <3>1. Unmounted[q] = Idle(q)
      BY <1>1, <2>2, PageAssumption DEF Unmounted
    <3>2. Unsubscribed[q] = IF mod[q].handle THEN handlers[q] - 1 ELSE handlers[q]
      BY <1>1, <2>2, PageAssumption DEF Unsubscribed
    <3> QED BY <1>1, <2>1, <3>1, <3>2, IdleValue DEF HandlersAreRemembered, UnmountedIsIdle
  <2>3. CASE q # current
    <3>1. Unmounted[q] = mod[q] /\ Unsubscribed[q] = handlers[q]
      BY <1>1, <2>3 DEF Unmounted, Unsubscribed
    <3>2. mod[q].mounted = 0
      BY <2>1, <2>3 DEF MountedIsCurrent
    <3> QED BY <2>1, <2>3, <3>1, <3>2 DEF HandlersAreRemembered, UnmountedIsIdle
  <2> QED BY <2>2, <2>3
<1> QED BY <1>2, <1>3

\* The current page is unmounted; the next is mounted if its module is there.
LEMMA NavigateKeeps ==
  ASSUME Inside, Routed, NEW target \in Target, Navigate(target), Calm'
  PROVE  Inside'
<1> DEFINE w == [page |-> target.page, id |-> target.id, nav |-> navs + 1]
<1>1. /\ target.page \in Page \cup NoPage /\ target.id \in Id \cup {NULL}
      /\ target = [page |-> target.page, id |-> target.id]
  BY PageAssumption DEF Target, NoPage
<1>2. /\ importing = {} /\ hasty \subseteq hasty'
      /\ navs' = navs + 1 /\ address' = target /\ navs \in Nat
      /\ UNCHANGED << imported, lost, picks >>
      /\ current # NULL /\ Waits(current) => current \in hasty'
  BY DEF Navigate, Calm, Inside, Typed
<1>3. \A l \in loads : /\ l.page \in Page /\ l.page \in hasty' /\ l.step \in StepsOf(l.page)
                       /\ l.nav \in 1 .. navs
  <2> SUFFICES ASSUME NEW l \in loads
               PROVE  /\ l.page \in Page /\ l.page \in hasty' /\ l.step \in StepsOf(l.page)
                      /\ l.nav \in 1 .. navs
    OBVIOUS
  <2>1. l.page \notin hasty => current = l.page
    BY LastRequest
  <2> QED BY <1>2, <2>1, Places, PageAssumption DEF Waits
<1>4. \A q \in Page : mod[q].area \in 0 .. navs
  BY DEF Inside, OfPage, PlacesAreOwn
<1>5. CASE target.page \in imported
  <2>1. Mount(target.page, {w}, Unmounted, Unsubscribed) /\ importing' = {}
    BY <1>2, <1>5 DEF Navigate
  <2>2. target.page \in Page
    BY <1>5 DEF Routed
  <2>3. /\ w.nav \in Nat \ {0} /\ w.id \in Id \cup {NULL} /\ navs' = w.nav
        /\ address' = [page |-> target.page, id |-> w.id]
        /\ Typed /\ UNCHANGED << lost, picks >>
    BY <1>1, <1>2 DEF Inside
  <2>4. Unmounted \in [Page -> ModuleState] /\ Unsubscribed \in [Page -> Int]
    BY UnmountedValues
  <2>5. \A q \in Page :
          /\ Unmounted[q].mounted = 0 /\ ~Unmounted[q].handle
          /\ Unmounted[q].area \in 0 .. w.nav /\ (Unmounted[q].area = w.nav => q = target.page)
          /\ q \notin hasty' \/ q # "channels" => Unsubscribed[q] = 0
          /\ q \notin hasty' => Unmounted[q] = Idle(q) /\ q \notin lost
    BY <1>2, <1>4, UnmountedValues
  <2>6. \A l \in loads : /\ l.page \in hasty' /\ l.step \in StepsOf(l.page)
                         /\ l.nav \in 1 .. w.nav /\ (l.nav = w.nav => l.page = target.page)
    BY <1>2, <1>3
  <2> HIDE DEF w
  <2> QED BY <2>1, <2>2, <2>3, <2>4, <2>5, <2>6, MountKeeps
<1>6. CASE target.page \notin imported
  <2>1. /\ mod' = Unmounted /\ handlers' = Unsubscribed /\ loads' = loads
        /\ current' \in {NULL, current}
        /\ importing' \subseteq {w} /\ (w \in importing' => target.page \in Page)
        /\ importing' = {} => current' = NULL \/ target.page = "malformed"
        /\ IF target.page = "malformed" THEN view' = view
           ELSE view'.page = target.page /\ view'.nav = navs + 1
        /\ view' \in [page : Page \cup {NULL, "unknown"}, nav : Nat, shown : Shown]
    <3>1. CASE target.page = "unknown"
      <4>1. /\ mod' = Unmounted /\ handlers' = Unsubscribed /\ loads' = loads
            /\ current' = NULL /\ importing' = {}
            /\ view' = [page |-> "unknown", nav |-> navs + 1, shown |-> "not found"]
        BY <1>2, <1>6, <3>1 DEF Navigate
      <4>2. "not found" \in Shown
        BY DEF Shown
      <4>3. view'.page = target.page /\ view'.nav = navs + 1
        BY <3>1, <4>1
      <4>4. view' \in [page : Page \cup {NULL, "unknown"}, nav : Nat, shown : Shown]
        <5>1. navs + 1 \in Nat /\ "unknown" \in Page \cup {NULL, "unknown"}
          BY <1>2
        <5> QED BY <4>1, <4>2, <5>1, Zenon
      <4>5. importing' \subseteq {w} /\ w \notin importing'
        BY <4>1
      <4> HIDE DEF w
      <4> QED BY <3>1, <4>1, <4>3, <4>4, <4>5
    <3>2. CASE target.page = "malformed"
      BY <1>2, <1>6, <3>2 DEF Navigate, Inside, Typed
    <3>3. CASE target.page \in Page
      <4>1. target.page # "unknown" /\ target.page # "malformed"
        BY <3>3, PageValues
      <4>2. /\ mod' = Unmounted /\ handlers' = Unsubscribed /\ loads' = loads
            /\ current' = current /\ importing' = {w}
            /\ view' = [page |-> target.page, nav |-> navs + 1, shown |-> "spinner"]
        BY <1>2, <1>6, <4>1 DEF Navigate
      <4>3. view' \in [page : Page \cup {NULL, "unknown"}, nav : Nat, shown : Shown]
        BY <1>2, <3>3, <4>2, ShownValues
      <4> HIDE DEF w
      <4> QED BY <3>3, <4>1, <4>2, <4>3
    <3> QED BY <1>1, <3>1, <3>2, <3>3 DEF NoPage
  <2>2. \A q \in Page : mod'[q].mounted = 0 /\ ~mod'[q].handle
    BY <2>1, UnmountedValues
  <2>3. Typed'
    BY <1>1, <1>2, <2>1, UnmountedValues DEF Inside, Typed, NoPage
  <2>4. ImportIsLatest' /\ CurrentIsLatest'
    BY <1>1, <1>2, <2>1 DEF ImportIsLatest, CurrentIsLatest
  <2>6. ViewFollowsAddress'
    BY <1>1, <1>2, <2>1 DEF Inside, Typed, ViewFollowsAddress
  <2>5. ASSUME NEW q \in Page PROVE OfPage(q)'
    <3>1. MountedIsCurrent(q)'
      <4>1. importing' = {} => current' = NULL \/ address'.page = "malformed"
        BY <1>2, <2>1
      <4>2. q # NULL /\ q # "malformed"
        BY PageAssumption, PageValues
      <4> QED BY <2>2, <4>1, <4>2 DEF MountedIsCurrent
    <3>2. HandlersAreRemembered(q)'
      BY <1>2, <2>1, UnmountedValues DEF HandlersAreRemembered
    <3>3. UnmountedIsIdle(q)'
      BY <1>2, <2>1, UnmountedValues, IdleValue DEF UnmountedIsIdle, Idle
    <3>4. RequestIsLast(q)'
      BY <1>3, <2>1 DEF RequestIsLast
    <3>5. PlacesAreOwn(q)'
      BY <1>2, <1>3, <1>4, <2>1, UnmountedValues DEF PlacesAreOwn
    <3>6. ScreenIsAsChosen(q)'
      BY <2>2 DEF ScreenIsAsChosen
    <3> QED BY <3>1, <3>2, <3>3, <3>4, <3>5, <3>6 DEF OfPage
  <2> QED BY <2>3, <2>4, <2>5, <2>6 DEF Inside
<1> QED BY <1>5, <1>6

\* Only the latest navigation waits for a module.
LEMMA WaitingValue ==
  ASSUME Inside, NEW p \in Page, Waiting(p) # {}
  PROVE  \E w \in importing : /\ importing = {w} /\ Waiting(p) = {w}
                              /\ w.page = p /\ w.nav = navs /\ w.nav \in Nat
                              /\ w.id \in Id \cup {NULL}
                              /\ address = [page |-> p, id |-> w.id]
<1>1. PICK w \in importing : w.page = p
  BY DEF Waiting
<1>2. \A v \in importing : v \in [page : Page, id : Id \cup {NULL}, nav : Nat]
  BY DEF Inside, Typed
<1>3. \A v \in importing : v.nav = navs /\ v.page = address.page /\ v.id = address.id
  BY DEF Inside, ImportIsLatest
<1>4. \A v \in importing : v = w
  BY <1>2, <1>3
<1>5. importing = {w} /\ Waiting(p) = {w}
  BY <1>1, <1>4 DEF Waiting
<1>6. address = [page |-> p, id |-> w.id]
  BY <1>1, <1>3 DEF Inside, Typed
<1> QED BY <1>1, <1>2, <1>3, <1>5, <1>6

\* The module of the page in the address came.
LEMMA ImportArrivesKeeps ==
  ASSUME Inside, Routed, NEW p \in Page, ImportArrives(p)
  PROVE  Inside'
<1>1. PICK w \in importing : /\ importing = {w} /\ Waiting(p) = {w}
                             /\ w.page = p /\ w.nav = navs /\ w.nav \in Nat
                             /\ w.id \in Id \cup {NULL}
                             /\ address = [page |-> p, id |-> w.id]
  BY WaitingValue DEF ImportArrives
<1>2. /\ Mount(p, {w}, mod, handlers) /\ importing' = {}
      /\ UNCHANGED << address, navs, lost, picks, hasty >>
  BY <1>1 DEF ImportArrives
<1>3. w.nav # 0
  BY <1>1 DEF Routed
<1>4. /\ Typed /\ mod \in [Page -> ModuleState] /\ handlers \in [Page -> Int]
      /\ w.nav \in Nat \ {0} /\ w.id \in Id \cup {NULL} /\ navs' = w.nav
      /\ address' = [page |-> p, id |-> w.id] /\ UNCHANGED << lost, picks >>
  <2>1. picks' = picks
    BY DEF ImportArrives
  <2> QED BY <1>1, <1>2, <1>3, <2>1 DEF Inside, Typed
<1>7. address.page # "malformed"
  BY <1>1, PageValues
<1>5. \A q \in Page :
        /\ mod[q].mounted = 0 /\ ~mod[q].handle
        /\ mod[q].area \in 0 .. w.nav /\ (mod[q].area = w.nav => q = p)
        /\ q \notin hasty' \/ q # "channels" => handlers[q] = 0
        /\ q \notin hasty' => mod[q] = Idle(q) /\ q \notin lost
  BY <1>1, <1>2, <1>3, <1>7 DEF Inside, OfPage, MountedIsCurrent, HandlersAreRemembered,
                          UnmountedIsIdle, PlacesAreOwn
<1>6. \A l \in loads : /\ l.page \in hasty' /\ l.step \in StepsOf(l.page)
                       /\ l.nav \in 1 .. w.nav /\ (l.nav = w.nav => l.page = p)
  BY <1>1, <1>2, LastRequest, Places
<1> QED BY <1>2, <1>4, <1>5, <1>6, MountKeeps

\* The module of the page in the address did not come: an error is shown.
LEMMA ImportFailsKeeps ==
  ASSUME Inside, Routed, NEW p \in Page, ImportFails(p)
  PROVE  Inside'
<1>1. PICK w \in importing : /\ importing = {w} /\ Waiting(p) = {w}
                             /\ w.page = p /\ w.nav = navs /\ w.nav \in Nat
                             /\ w.id \in Id \cup {NULL}
                             /\ address = [page |-> p, id |-> w.id]
  BY WaitingValue DEF ImportFails
<1>2. /\ importing' = {} /\ current' = NULL
      /\ UNCHANGED << address, navs, imported, loads, mod, handlers, lost, picks, hasty >>
      /\ view' = [page |-> p, nav |-> navs, shown |-> "error"]
  <2>1. {v.nav : v \in Waiting(p)} = {navs} /\ navs \in Nat
    BY <1>1
  <2>2. Max({v.nav : v \in Waiting(p)}) = navs
    BY <2>1 DEF Max
  <2> QED BY <1>1, <2>2 DEF ImportFails
<1>3. Typed'
  BY <1>1, <1>2, ShownValues DEF Inside, Typed
<1>4. ImportIsLatest' /\ CurrentIsLatest'
  BY <1>2 DEF ImportIsLatest, CurrentIsLatest
<1>5. ViewFollowsAddress'
  BY <1>1, <1>2, PageValues DEF ViewFollowsAddress, Routed
<1>6. ASSUME NEW q \in Page PROVE OfPage(q)'
  <2> USE <1>2 DEF Inside, OfPage
  <2>1. mod[q].mounted = 0
    BY <1>1 DEF MountedIsCurrent
  <2>5. address.page # "malformed"
    BY <1>1, PageValues
  <2>2. MountedIsCurrent(q)' /\ HandlersAreRemembered(q)'
    BY <2>1, PageAssumption DEF MountedIsCurrent, HandlersAreRemembered
  <2>3. UnmountedIsIdle(q)' /\ RequestIsLast(q)' /\ PlacesAreOwn(q)'
    BY <2>1, <2>5 DEF UnmountedIsIdle, RequestIsLast, PlacesAreOwn, Idle
  <2>4. ScreenIsAsChosen(q)'
    BY <2>1 DEF ScreenIsAsChosen
  <2> QED BY <2>2, <2>3, <2>4
<1> QED BY <1>3, <1>4, <1>5, <1>6 DEF Inside

-----------------------------------------------------------------------------
(* The theorems.                                                           *)

\* The router keeps its part whatever else holds.
LEMMA RoutedKeeps ==
  ASSUME Routed, [Next]_vars
  PROVE  Routed'
<1> USE DEF Routed
<1>1. ASSUME NEW target \in Target, Navigate(target) PROVE Routed'
  <2>1. navs' = navs + 1 /\ imported' = imported /\ address' = target
    BY <1>1 DEF Navigate
  <2>2. target.page # NULL
    BY PageAssumption DEF Target, NoPage
  <2> QED BY <2>1, <2>2
<1>2. ASSUME NEW p \in Page, ImportArrives(p) \/ ImportFails(p) PROVE Routed'
  <2>1. /\ UNCHANGED << address, navs >> /\ importing' \subseteq importing
        /\ imported' \subseteq imported \cup {p}
    BY <1>2 DEF ImportArrives, ImportFails
  <2> QED BY <2>1
<1>3. CASE UNCHANGED << address, navs, imported, importing >>
  BY <1>3
<1>4. AnswerComes => UNCHANGED << address, navs, imported, importing >>
  BY DEF AnswerComes, Answer
<1>5. ASSUME NEW p, Pick(p) PROVE UNCHANGED << address, navs, imported, importing >>
  BY <1>5 DEF Pick
<1> QED BY <1>1, <1>2, <1>3, <1>4, <1>5
        DEF Next, ImportEnds, ChooseWindow, Search, SelectChannel, Filter, ToggleCoverage, vars

\* What was hasty stays so.
LEMMA HastyGrows ==
  ASSUME [Next]_vars
  PROVE  hasty \subseteq hasty'
<1>1. ASSUME NEW p, Pick(p) PROVE hasty \subseteq hasty'
  BY <1>1 DEF Pick, Hurry
<1>2. ASSUME NEW target \in Target, Navigate(target) PROVE hasty \subseteq hasty'
  BY <1>2 DEF Navigate
<1>3. ImportEnds \/ AnswerComes => hasty' = hasty
  BY DEF ImportEnds, ImportArrives, ImportFails, AnswerComes, Answer
<1> QED BY <1>1, <1>2, <1>3
        DEF Next, ChooseWindow, Search, SelectChannel, Filter, ToggleCoverage, vars

\* A step that changes nothing.
LEMMA StutterKeeps ==
  ASSUME Inside, UNCHANGED vars
  PROVE  Inside'
<1> USE DEF vars
<1>1. Typed' /\ ImportIsLatest' /\ CurrentIsLatest' /\ ViewFollowsAddress'
  BY DEF Inside, Typed, ImportIsLatest, CurrentIsLatest, ViewFollowsAddress, Tidy
<1>2. ASSUME NEW p \in Page PROVE OfPage(p)'
  <2> USE DEF Inside, OfPage
  <2>1. MountedIsCurrent(p)' /\ HandlersAreRemembered(p)' /\ UnmountedIsIdle(p)'
    BY DEF MountedIsCurrent, HandlersAreRemembered, UnmountedIsIdle, Idle
  <2>2. RequestIsLast(p)' /\ PlacesAreOwn(p)'
    BY DEF RequestIsLast, PlacesAreOwn
  <2>3. ScreenIsAsChosen(p)'
    BY DEF ScreenIsAsChosen, AsChosen, Tidy
  <2> QED BY <2>1, <2>2, <2>3
<1> QED BY <1>1, <1>2 DEF Inside

\* Every step keeps the inductive invariant.
LEMMA NextKeeps ==
  ASSUME IInv, [Next]_vars
  PROVE  IInv'
<1>1. Routed'
  BY RoutedKeeps DEF IInv
<1>2. SUFFICES ASSUME Calm' PROVE Inside'
  BY <1>1 DEF IInv
<1>3. Routed /\ Inside
  BY <1>2, HastyGrows DEF IInv, Calm
<1>4. ASSUME NEW target \in Target, Navigate(target) PROVE Inside'
  BY <1>2, <1>3, <1>4, NavigateKeeps
<1>5. CASE ImportEnds
  BY <1>3, <1>5, ImportArrivesKeeps, ImportFailsKeeps DEF ImportEnds
<1>6. CASE AnswerComes
  BY <1>3, <1>6, AnswerKeeps DEF AnswerComes
<1>7. ASSUME NEW window \in Window, ChooseWindow(window) PROVE Inside'
  BY <1>3, <1>7, ChooseWindowKeeps
<1>8. ASSUME NEW hash \in Hash, Search(hash) PROVE Inside'
  BY <1>3, <1>8, SearchKeeps
<1>9. ASSUME NEW c \in Channel, SelectChannel(c) PROVE Inside'
  BY <1>3, <1>9, SelectChannelKeeps
<1>10. ASSUME NEW filter \in Filters, Filter(filter) PROVE Inside'
  BY <1>3, <1>10, FilterKeeps
<1>11. CASE ToggleCoverage
  BY <1>3, <1>11, ToggleCoverageKeeps
<1>12. CASE UNCHANGED vars
  BY <1>3, <1>12, StutterKeeps
<1> QED BY <1>4, <1>5, <1>6, <1>7, <1>8, <1>9, <1>10, <1>11, <1>12 DEF Next

\* The inductive invariant holds.
LEMMA IInvAlways == Spec => []IInv
<1>1. Init => IInv
  <2>1. Init => Routed
    BY DEF Init, Routed
  <2> QED BY <2>1, InitInside DEF IInv
<1>2. IInv /\ [Next]_vars => IInv'
  BY NextKeeps
<1> QED BY <1>1, <1>2, PTL DEF Spec

\* A page that is not the current one has left no handler, chart or map
\* behind, and none is out of reach of the next unmount: the unmount of every
\* page module undoes its mount, however its answers come in between
\* (app.js navigate, the unmount functions of pages/).
THEOREM LeavesNothingBehind == Spec => []LeavesNothing
<1>1. IInv => LeavesNothing
  <2> SUFFICES ASSUME Inside, NEW p \in Page
               PROVE  /\ p \notin hasty \/ p # "channels" =>
                           /\ handlers[p] <= 1
                           /\ handlers[p] = 1 => current = p /\ mod[p].handle
                      /\ p \notin hasty =>
                           /\ p \notin lost
                           /\ mod[p].objects <= 1
                           /\ p # current => mod[p] = Idle(p)
    BY DEF IInv, Calm, LeavesNothing
  <2>1. /\ MountedIsCurrent(p) /\ HandlersAreRemembered(p) /\ UnmountedIsIdle(p)
        /\ mod[p] \in ModuleState
    BY DEF Inside, OfPage, Typed
  <2> QED BY <2>1 DEF MountedIsCurrent, HandlersAreRemembered, UnmountedIsIdle, ModuleState
<1> QED BY <1>1, IInvAlways, PTL

\* As long as no navigation overtakes the import of another and no detail
\* page is left before its answer comes, the screen belongs to the address,
\* and shows what is chosen there once nothing is under way any more, unless
\* something was chosen, or the page left before, while an answer was under
\* way.  Under an address that cannot be decoded, where navigate throws, it
\* belongs to an earlier address, but nothing of that page is left running
\* (app.js navigate and matchRoute, the load functions of pages/, whose
\* answers never ask whether their page is still shown).
THEOREM ScreenFollowsChoice == Spec => []ShowsWhatIsChosen
<1>1. IInv => ShowsWhatIsChosen
  <2> SUFFICES ASSUME Inside, Routed, Tidy, navs > 0
               PROVE  IF address.page = "malformed"
                      THEN /\ view.nav < navs
                           /\ \A p \in Page : mod[p].mounted = 0
                           /\ \A p \in Page : p \notin hasty \/ p # "channels" => handlers[p] = 0
                      ELSE LET p == address.page
                           IN  /\ view.page = p /\ view.nav = navs
                               /\ importing = {} /\ p = current /\ p \notin hasty /\ ~Waits(p) =>
                                    /\ view.shown \in Expected(p)
                                    /\ mod[p].marks => mod[p].sel = "on"
    BY DEF IInv, Calm, Tidy, ShowsWhatIsChosen
  <2>1. CASE address.page = "malformed"
    <3>1. ASSUME NEW p \in Page
          PROVE  /\ mod[p].mounted = 0
                 /\ p \notin hasty \/ p # "channels" => handlers[p] = 0
      <4>1. mod[p].mounted = 0
        BY <2>1, PageValues DEF Inside, OfPage, MountedIsCurrent
      <4> QED BY <4>1 DEF Inside, OfPage, HandlersAreRemembered
    <3> QED BY <2>1, <3>1 DEF Inside, ViewFollowsAddress
  <2>2. CASE address.page # "malformed"
    <3>1. view.page = address.page /\ view.nav = navs
      BY <2>2 DEF Inside, ViewFollowsAddress
    <3>2. ASSUME NEW p \in Page, p = address.page, importing = {}, p = current, p \notin hasty,
                 ~Waits(p)
          PROVE  view.shown \in Expected(p) /\ (mod[p].marks => mod[p].sel = "on")
      <4>1. mod[p].mounted # 0 /\ ScreenIsAsChosen(p)
        BY <3>2 DEF Inside, OfPage, MountedIsCurrent
      <4>2. AsChosen(p) /\ {l \in loads : l.page = p} = {}
        BY <3>2, <4>1 DEF ScreenIsAsChosen, Waits
      <4>3. CASE p \in Detail
        BY <3>2, <4>2, <4>3 DEF AsChosen, Expected, Detail
      <4>4. CASE p \in {"traces", "channels", "leaderboards", "repeaters"}
        BY <4>2, <4>4 DEF AsChosen, Expected, Detail
      <4>5. CASE p \in {"home", "health", "observers", "map"}
        BY <4>2, <4>5 DEF AsChosen, Expected, Detail
      <4> QED BY <4>3, <4>4, <4>5, PageValues DEF Detail
    <3>3. address.page = current => address.page \in Page
      <4>1. address.page # NULL /\ current \in Page \cup {NULL}
        BY DEF Routed, Inside, Typed
      <4> QED BY <4>1
    <3> QED BY <2>2, <3>1, <3>2, <3>3
  <2> QED BY <2>1, <2>2
<1> QED BY <1>1, IInvAlways, PTL

-----------------------------------------------------------------------------
(* Types, whatever overtakes what.                                         *)

\* Every set of natural numbers that is not empty has a least one.
LEMMA LeastNumber ==
  ASSUME NEW S, S \subseteq Nat, S # {}
  PROVE  \E n \in S : \A m \in S : n <= m
<1>1. PICK n \in S : \A m \in S : ~(<< m, n >> \in OpToRel(<, Nat))
  BY NatLessThanWellFounded, WFMin
<1>2. \A m \in S : ~(m < n)
  BY <1>1 DEF OpToRel
<1> QED BY <1>2

\* A set of numbers up to a bound that is not empty has a greatest.
LEMMA MaxFacts ==
  ASSUME NEW N \in Nat, NEW s \in SUBSET (1 .. N), s # {}
  PROVE  Max(s) \in s /\ \A n \in s : Max(s) >= n
<1> DEFINE T == {N - n : n \in s}
<1>0. \A n \in s : n \in Int /\ N - n \in Nat
  OBVIOUS
<1>1. T \subseteq Nat /\ T # {}
  BY <1>0
<1>2. PICK m \in T : \A k \in T : m <= k
  <2> HIDE DEF T
  <2> QED BY <1>1, LeastNumber
<1>3. PICK x \in s : m = N - x
  BY <1>2
<1>4. \A n \in s : N - n \in T /\ n \in 1 .. N
  OBVIOUS
<1>5. ASSUME NEW n \in s PROVE x >= n
  <2>1. m <= N - n /\ n \in Int /\ x \in Int
    BY <1>0, <1>2, <1>4
  <2> QED BY <2>1, <1>3
<1> HIDE DEF T
<1> QED BY <1>3, <1>5 DEF Max

\* What may be on the screen, of which navigation.
ViewState == [page : Page \cup {NULL, "unknown"}, nav : Nat, shown : Shown]

\* The variables r of page p and its h handlers: what it has was mounted by
\* some navigation, and a handler it remembers is there.
Sound(p, r, h) ==
  /\ r.mounted <= navs /\ r.area <= navs
  /\ r.mounted # 0 => p \in imported
  /\ h >= 0 /\ (r.handle => h >= 1)
  /\ p \notin {"home", "channels"} => h = 0
  /\ p \notin Detail => r.objects <= 1 /\ r.objects <= navs

\* What grows with every mount of the page: its charts, or its handlers.
Tally(p, r, h) == IF p \in Detail THEN r.objects ELSE h

\* The requests the answers to which add to the tally.
Firsts(p) == {l \in loads : l.page = p /\ (p \in Detail \/ l.step = "channels")}

\* Each navigation adds to a tally once at most: when the module comes, or
\* when the first request is answered.
PageCounted(p) ==
  /\ Sound(p, mod[p], handlers[p])
  /\ Tally(p, mod[p], handlers[p]) + Cardinality(Firsts(p)) + Cardinality(Waiting(p)) <= navs

\* The inductive invariant of the counts.
Counted ==
  /\ Typed
  /\ navs <= MaxNavs /\ picks <= MaxInputs
  /\ imported \subseteq Page /\ lost \subseteq Page /\ hasty \subseteq Page \cup {"overlap"}
  /\ IsFiniteSet(importing) /\ IsFiniteSet(loads)
  /\ \A w \in importing : w.page \notin imported /\ w.nav \in 1 .. navs
  /\ \A l \in loads : /\ l.page \in imported /\ l.nav \in 1 .. navs /\ l.pick <= picks
                     /\ l.step \in StepsOf(l.page)
  /\ view.nav <= navs /\ (view.page \in Page => view.nav >= 1)
  /\ current # NULL => current \in imported
  /\ \A p \in Page : PageCounted(p)

\* The sets that are counted are finite.
LEMMA CountedSets ==
  ASSUME Counted, NEW p
  PROVE  /\ IsFiniteSet(Firsts(p)) /\ Cardinality(Firsts(p)) \in Nat
         /\ IsFiniteSet(Waiting(p)) /\ Cardinality(Waiting(p)) \in Nat
<1>1. Firsts(p) \in SUBSET loads /\ Waiting(p) \in SUBSET importing
  BY DEF Firsts, Waiting
<1> QED BY <1>1, FS_Subset, FS_CardinalityType DEF Counted

\* The invariant says all that TypeOK does.
LEMMA CountedImpliesTypeOK == Counted => TypeOK
<1> SUFFICES ASSUME Counted PROVE TypeOK
  OBVIOUS
<1>1. /\ navs \in 0 .. MaxNavs /\ picks \in 0 .. MaxInputs
      /\ current \in Page \cup {NULL} /\ imported \subseteq Page
      /\ lost \subseteq Page /\ hasty \subseteq Page \cup {"overlap"}
      /\ view.nav \in 0 .. navs
  BY BoundAssumption DEF Counted, Typed
<1>2. \A w \in importing : w.page \in Page \ imported /\ w.nav \in 1 .. navs
  BY DEF Counted, Typed
<1>3. \A l \in loads : l.page \in imported /\ l.nav \in 1 .. navs /\ l.pick \in 0 .. picks
  BY DEF Counted, Typed, Requests
<1>4. ASSUME NEW p \in Page
      PROVE  /\ mod[p].mounted \in 0 .. navs /\ mod[p].area \in 0 .. navs
             /\ mod[p].objects \in 0 .. navs + picks
             /\ mod[p].handle \in BOOLEAN /\ mod[p].marks \in BOOLEAN
             /\ handlers[p] \in 0 .. navs
  <2>1. /\ mod[p] \in ModuleState /\ handlers[p] \in Int /\ navs \in Nat /\ picks \in Nat
        /\ Sound(p, mod[p], handlers[p])
        /\ Tally(p, mod[p], handlers[p]) + Cardinality(Firsts(p)) + Cardinality(Waiting(p)) <= navs
    BY DEF Counted, PageCounted, Typed
  <2>2. Tally(p, mod[p], handlers[p]) \in Int
    BY <2>1 DEF Tally, ModuleState
  <2>3. Tally(p, mod[p], handlers[p]) <= navs
    BY <2>1, <2>2, CountedSets
  <2>4. "home" \notin Detail /\ "channels" \notin Detail
    BY DEF Detail
  <2> QED BY <2>1, <2>3, <2>4 DEF Sound, Tally, ModuleState
<1> QED BY <1>1, <1>2, <1>3, <1>4 DEF TypeOK

\* What the router and other pages have is not affected by a step of page p
\* that adds nothing to what is owed to it.
LEMMA StepCounted ==
  ASSUME Counted, NEW p \in Page, UNCHANGED << address, navs, current, imported, importing >>,
         picks' \in Nat, picks <= picks', picks' <= MaxInputs,
         hasty' \subseteq hasty \cup {p}, lost' \subseteq lost \cup {p},
         IsFiniteSet(loads'), loads' \subseteq Requests,
         \A l \in loads' : l \notin loads =>
           /\ l.page = p /\ p \in imported /\ l.nav \in 1 .. navs /\ l.pick <= picks'
           /\ l.step \in StepsOf(p),
         \A l \in loads : l.page # p => l \in loads',
         NEW r \in ModuleState, mod' = [mod EXCEPT ![p] = r],
         NEW h \in Int, handlers' = [handlers EXCEPT ![p] = h],
         Sound(p, r, h),
         Tally(p, r, h) + Cardinality(Firsts(p)')
           <= Tally(p, mod[p], handlers[p]) + Cardinality(Firsts(p)),
         Cardinality(Firsts(p)') \in Nat,
         view' \in ViewState, view'.nav <= navs, view'.page \in Page => view'.nav >= 1
  PROVE  Counted'
<1>1. /\ mod' \in [Page -> ModuleState] /\ mod'[p] = r
      /\ handlers' \in [Page -> Int] /\ handlers'[p] = h
      /\ \A q \in Page \ {p} : mod'[q] = mod[q] /\ handlers'[q] = handlers[q]
  BY DEF Counted, Typed
<1>2. Typed'
  BY <1>1 DEF Counted, Typed, ViewState
<1>3. /\ navs' <= MaxNavs /\ imported' \subseteq Page /\ lost' \subseteq Page
      /\ hasty' \subseteq Page \cup {"overlap"}
      /\ IsFiniteSet(importing') /\ IsFiniteSet(loads')
      /\ \A w \in importing' : w.page \notin imported' /\ w.nav \in 1 .. navs'
      /\ view'.nav <= navs' /\ (view'.page \in Page => view'.nav >= 1)
      /\ current' # NULL => current' \in imported'
  BY DEF Counted
<1>4. \A l \in loads' : /\ l.page \in imported' /\ l.nav \in 1 .. navs' /\ l.pick <= picks'
                        /\ l.step \in StepsOf(l.page)
  <2>1. \A l \in loads : /\ l.page \in imported /\ l.nav \in 1 .. navs /\ l.pick <= picks
                         /\ l.pick \in Nat /\ l.step \in StepsOf(l.page)
    BY DEF Counted, Typed, Requests
  <2>2. picks \in Nat
    BY DEF Counted, Typed
  <2> QED BY <2>1, <2>2
<1>5. ASSUME NEW q \in Page PROVE PageCounted(q)'
  <2>1. Waiting(q)' = Waiting(q)
    BY DEF Waiting
  <2>2. \A x, k : Sound(q, x, k)' <=> Sound(q, x, k)
    BY DEF Sound
  <2>3. \A x, k : Tally(q, x, k)' = Tally(q, x, k)
    BY DEF Tally
  <2>4. CASE q = p
    <3>1. Sound(q, mod[q], handlers[q])'
      BY <1>1, <2>2, <2>4
    <3>2. Tally(q, mod[q], handlers[q])' = Tally(p, r, h)
      BY <1>1, <2>3, <2>4
    <3>3. /\ Tally(p, mod[p], handlers[p]) + Cardinality(Firsts(p)) + Cardinality(Waiting(p)) <= navs
          /\ Tally(p, r, h) \in Int /\ Tally(p, mod[p], handlers[p]) \in Int /\ navs \in Int
      BY DEF Counted, PageCounted, Typed, Tally, ModuleState
    <3>4. Cardinality(Firsts(p)) \in Nat /\ Cardinality(Waiting(p)) \in Nat
      BY CountedSets
    <3>5. Tally(p, r, h) + Cardinality(Firsts(p)') + Cardinality(Waiting(p)) <= navs
      BY <3>3, <3>4
    <3> QED BY <2>1, <2>4, <3>1, <3>2, <3>5 DEF PageCounted
  <2>5. CASE q # p
    <3>1. Firsts(q)' = Firsts(q)
      BY <2>5 DEF Firsts
    <3>2. Sound(q, mod[q], handlers[q])' /\ Tally(q, mod[q], handlers[q])' = Tally(q, mod[q], handlers[q])
      BY <1>1, <2>2, <2>3, <2>5 DEF Counted, PageCounted
    <3> QED BY <2>1, <3>1, <3>2 DEF Counted, PageCounted
  <2> QED BY <2>4, <2>5
<1> QED BY <1>2, <1>3, <1>4, <1>5 DEF Counted

\* After one request was answered, and perhaps one more made that adds to no
\* tally, there is one less that does, if the answered one did.
LEMMA AnsweredCounted ==
  ASSUME Counted, NEW l \in loads, NEW N, IsFiniteSet(N), loads' = (loads \ {l}) \cup N,
         \A k \in N : l.page \notin Detail /\ k.step # "channels"
  PROVE  /\ IsFiniteSet(loads')
         /\ Cardinality(Firsts(l.page)') \in Nat
         /\ Cardinality(Firsts(l.page)')
              <= Cardinality(Firsts(l.page)) - IF l \in Firsts(l.page) THEN 1 ELSE 0
<1> DEFINE F == Firsts(l.page)
<1>1. IsFiniteSet(loads) /\ IsFiniteSet(F) /\ Cardinality(F) \in Nat
  BY CountedSets DEF Counted
<1>2. IsFiniteSet(loads \ {l}) /\ IsFiniteSet(loads')
  BY <1>1, FS_RemoveElement, FS_Union
<1>3. F' \in SUBSET (F \ {l})
  BY DEF Firsts
<1> HIDE DEF F
<1>4. /\ IsFiniteSet(F \ {l})
      /\ Cardinality(F \ {l}) = IF l \in F THEN Cardinality(F) - 1 ELSE Cardinality(F)
  BY <1>1, FS_RemoveElement
<1>5. Cardinality(F') \in Nat /\ Cardinality(F') <= Cardinality(F \ {l})
  BY <1>3, <1>4, FS_Subset, FS_CardinalityType
<1> QED BY <1>1, <1>2, <1>4, <1>5 DEF F

\* An answer.
LEMMA AnswerStepCounted ==
  ASSUME Counted, UNCHANGED << Around, imported >>,
         NEW l \in loads, NEW N \in SUBSET Requests, IsFiniteSet(N),
         loads' = (loads \ {l}) \cup N,
         \A k \in N : /\ l.page \notin Detail /\ k.step # "channels"
                      /\ k.page = l.page /\ k.nav = l.nav /\ k.pick <= picks
                      /\ k.step \in StepsOf(l.page),
         NEW r \in ModuleState, mod' = [mod EXCEPT ![l.page] = r],
         r.mounted = mod[l.page].mounted, r.area <= navs,
         IF l.page \in Detail THEN r.objects \in {mod[l.page].objects, mod[l.page].objects + 1}
                              ELSE r.objects \in {mod[l.page].objects, 1},
         lost' \subseteq lost \cup {l.page},
         \/ handlers' = handlers /\ r.handle = mod[l.page].handle
         \/ /\ handlers' = [handlers EXCEPT ![l.page] = handlers[l.page] + 1]
            /\ l.page = "channels" /\ l.step = "channels",
         view' \in ViewState,
         \/ view'.page = view.page /\ view'.nav = view.nav
         \/ view'.nav = l.nav
  PROVE  Counted'
<1> DEFINE p == l.page
           h == handlers'[p]
<1>1. /\ p \in Page /\ p \in imported /\ l.nav \in 1 .. navs /\ loads \subseteq Requests
      /\ navs \in Nat /\ picks \in Nat /\ mod[p] \in ModuleState /\ handlers \in [Page -> Int]
      /\ view.nav <= navs /\ (view.page \in Page => view.nav >= 1)
      /\ hasty' \subseteq hasty \cup {p} /\ view \in ViewState /\ picks <= MaxInputs
  BY DEF Counted, Typed, Requests, Around, ViewState
<1>2. /\ h \in Int /\ handlers' = [handlers EXCEPT ![p] = h]
      /\ \/ h = handlers[p] /\ r.handle = mod[p].handle
         \/ h = handlers[p] + 1 /\ p = "channels" /\ l.step = "channels"
  BY <1>1
<1> HIDE DEF h
<1>3. Sound(p, mod[p], handlers[p]) /\ handlers[p] \in Int
  BY <1>1 DEF Counted, PageCounted
<1>4. Sound(p, r, h)
  BY <1>1, <1>2, <1>3 DEF Sound, ModuleState
<1>5. /\ IsFiniteSet(loads') /\ Cardinality(Firsts(p)') \in Nat
      /\ Cardinality(Firsts(p)') <= Cardinality(Firsts(p)) - IF l \in Firsts(p) THEN 1 ELSE 0
  BY AnsweredCounted
<1>6. Cardinality(Firsts(p)) \in Nat
  BY CountedSets
<1>7. Tally(p, r, h) <= Tally(p, mod[p], handlers[p]) + IF l \in Firsts(p) THEN 1 ELSE 0
  <2>1. CASE p \in Detail
    BY <1>1, <2>1 DEF Tally, Firsts, ModuleState
  <2>2. CASE p \notin Detail
    BY <1>2, <1>3, <2>2 DEF Tally, Firsts
  <2> QED BY <2>1, <2>2
<1>8. Tally(p, r, h) \in Int /\ Tally(p, mod[p], handlers[p]) \in Int
  BY <1>1, <1>2, <1>3 DEF Tally, ModuleState
<1>9. Tally(p, r, h) + Cardinality(Firsts(p)')
        <= Tally(p, mod[p], handlers[p]) + Cardinality(Firsts(p))
  BY <1>5, <1>6, <1>7, <1>8
<1>10. loads' \subseteq Requests
  BY <1>1
<1>11. \A k \in loads' : k \notin loads =>
         /\ k.page = p /\ p \in imported /\ k.nav \in 1 .. navs /\ k.pick <= picks'
         /\ k.step \in StepsOf(p)
  BY <1>1 DEF Around
<1>12. \A k \in loads : k.page # p => k \in loads'
  OBVIOUS
<1>13. view'.nav <= navs /\ (view'.page \in Page => view'.nav >= 1)
  BY <1>1
<1>14. /\ UNCHANGED << address, navs, current, imported, importing >>
       /\ picks' \in Nat /\ picks <= picks' /\ picks' <= MaxInputs
  BY <1>1 DEF Around
<1> HIDE DEF p
<1> QED BY <1>1, <1>2, <1>4, <1>5, <1>9, <1>10, <1>11, <1>12, <1>13, <1>14, StepCounted DEF p

\* What is known of a request that is answered.
LEMMA InFlight ==
  ASSUME Counted, NEW l \in loads
  PROVE  /\ l.page \in Page /\ l \in Requests /\ l.nav \in 1 .. navs /\ navs \in Nat
         /\ mod \in [Page -> ModuleState] /\ mod[l.page] \in ModuleState
         /\ mod = [mod EXCEPT ![l.page] = mod[l.page]]
         /\ mod[l.page].area <= navs /\ mod[l.page].mounted <= navs
         /\ l.arg \in Shown /\ view \in ViewState /\ l.step \in StepsOf(l.page)
         /\ picks \in Nat
<1>1. /\ l.page \in Page /\ l \in Requests /\ l.nav \in 1 .. navs /\ navs \in Nat
      /\ mod \in [Page -> ModuleState] /\ view \in ViewState /\ picks \in Nat
      /\ l.step \in StepsOf(l.page)
  BY DEF Counted, Typed, Requests, ViewState
<1>2. Sound(l.page, mod[l.page], handlers[l.page])
  BY <1>1 DEF Counted, PageCounted
<1>3. l.arg \in Shown
  BY <1>1, ShownValues DEF Requests
<1> QED BY <1>1, <1>2, <1>3 DEF Sound

\* Writing keeps the types.
LEMMA WrittenCounted ==
  ASSUME Counted, NEW nav, NEW what \in Shown
  PROVE  /\ Written(nav, what) \in ViewState
         /\ Written(nav, what).page = view.page /\ Written(nav, what).nav = view.nav
<1>1. Typed
  BY DEF Counted
<1> QED BY <1>1, WrittenValue DEF ViewState

\* An answer that is written, or not, and creates a chart or a map, or not.
LEMMA PlainAnswer ==
  ASSUME Counted, UNCHANGED << Around, imported, handlers >>,
         NEW l \in loads, loads' = loads \ {l},
         NothingCreated \/ (Created(l.page) /\ l.page \notin Detail),
         view' \in ViewState, view'.page = view.page, view'.nav = view.nav
  PROVE  Counted'
<1> DEFINE p == l.page
           r == [mod[p] EXCEPT !.objects = IF NothingCreated THEN @ ELSE 1]
           N == {}
<1>1. /\ p \in Page /\ mod[p] \in ModuleState /\ mod \in [Page -> ModuleState]
      /\ mod[p].area <= navs
  BY InFlight
<1>2. /\ r \in ModuleState /\ mod' = [mod EXCEPT ![p] = r]
      /\ r.mounted = mod[p].mounted /\ r.handle = mod[p].handle /\ r.area = mod[p].area
      /\ IF p \in Detail THEN r.objects = mod[p].objects ELSE r.objects \in {mod[p].objects, 1}
  <2>1. CASE NothingCreated
    BY <1>1, <2>1 DEF NothingCreated, ModuleState
  <2>2. CASE ~NothingCreated
    BY <1>1, <2>2 DEF Created, ModuleState
  <2> QED BY <2>1, <2>2
<1>3. lost' \subseteq lost \cup {p}
  BY DEF NothingCreated, Created
<1> HIDE DEF r
<1>4. /\ N \in SUBSET Requests /\ IsFiniteSet(N) /\ loads' = (loads \ {l}) \cup N
      /\ \A k \in N : /\ l.page \notin Detail /\ k.step # "channels"
                      /\ k.page = l.page /\ k.nav = l.nav /\ k.pick <= picks
                      /\ k.step \in StepsOf(l.page)
  BY FS_EmptySet
<1> HIDE DEF N
<1> QED BY <1>1, <1>2, <1>3, <1>4, AnswerStepCounted

\* An answer after which the next request is made.
LEMMA FollowedCounted ==
  ASSUME Counted, UNCHANGED << Around, imported, handlers, view >>, NothingCreated,
         NEW l \in loads, l.page \in {"home", "health"}, NEW step \in StepsOf(l.page),
         FollowedBy(l, step)
  PROVE  Counted'
<1> DEFINE p == l.page
           k == [l EXCEPT !.step = step]
           N == {k}
<1>1. /\ p \in Page /\ l \in Requests /\ mod[p] \in ModuleState /\ mod[p].area <= navs
      /\ mod' = [mod EXCEPT ![p] = mod[p]] /\ view' \in ViewState /\ picks \in Nat
      /\ p \notin Detail
  BY InFlight DEF NothingCreated, Detail
<1>2. l.pick <= picks
  BY DEF Counted
<1>3. /\ k \in Requests /\ k.page = p /\ k.nav = l.nav /\ k.pick = l.pick /\ k.step = step
  BY <1>1 DEF Requests
<1>4. step # "channels"
  BY DEF StepsOf, Detail
<1>5. loads' = (loads \ {l}) \cup N
  BY DEF FollowedBy
<1> HIDE DEF k
<1>6. /\ N \in SUBSET Requests /\ IsFiniteSet(N)
      /\ \A x \in N : /\ l.page \notin Detail /\ x.step # "channels"
                      /\ x.page = l.page /\ x.nav = l.nav /\ x.pick <= picks
                      /\ x.step \in StepsOf(l.page)
  BY <1>1, <1>2, <1>3, <1>4, FS_Singleton
<1> HIDE DEF N
<1>7. lost' \subseteq lost \cup {p} /\ mod[p].objects \in {mod[p].objects, 1}
  BY DEF NothingCreated
<1> QED BY <1>1, <1>5, <1>6, <1>7, AnswerStepCounted

\* The answers to the plain pages.
LEMMA PlainAnswersCounted ==
  ASSUME Counted, NEW l \in loads, NEW outcome \in Outcome, UNCHANGED << Around, imported >>,
         \/ HomeAnswer(l, outcome) \/ HealthAnswer(l, outcome) \/ ObserversAnswer(l, outcome)
         \/ BoardsAnswer(l, outcome) \/ NodesAnswer(l, outcome) \/ TraceAnswer(l, outcome)
         \/ MessagesAnswer(l, outcome)
  PROVE  Counted'
<1>1. /\ l.arg \in Shown /\ "data" \in Shown /\ view \in ViewState /\ l.page \in Page
  BY InFlight, ShownValues
<1>2. \A nav : /\ Written(nav, l.arg) \in ViewState /\ Written(nav, "data") \in ViewState
               /\ Written(nav, l.arg).page = view.page /\ Written(nav, "data").page = view.page
               /\ Written(nav, l.arg).nav = view.nav /\ Written(nav, "data").nav = view.nav
  BY <1>1, WrittenCounted
<1>3. CASE HomeAnswer(l, outcome)
  <2>1. l.page = "home" /\ handlers' = handlers
    BY <1>3 DEF HomeAnswer
  <2>2. l.step \in {"stats", "score", "packets"}
    BY <2>1, InFlight DEF StepsOf, Detail
  <2>3. CASE l.step = "stats"
    BY <1>3, <2>1, <2>3, FollowedCounted DEF HomeAnswer, StepsOf, Detail
  <2>4. CASE l.step = "score"
    BY <1>3, <2>1, <2>4, FollowedCounted DEF HomeAnswer, StepsOf, Detail
  <2>5. CASE l.step = "packets"
    <3>1. /\ Answered(l) /\ view' = Written(l.nav, "data")
          /\ NothingCreated \/ Created("home")
      BY <1>3, <2>5 DEF HomeAnswer
    <3> QED BY <1>2, <2>1, <3>1, PlainAnswer DEF Answered, Detail
  <2> QED BY <2>2, <2>3, <2>4, <2>5
<1>4. CASE HealthAnswer(l, outcome)
  <2>1. l.page = "health" /\ handlers' = handlers /\ NothingCreated
    BY <1>4 DEF HealthAnswer
  <2>2. CASE l.step = "health"
    BY <1>4, <2>1, <2>2, FollowedCounted DEF HealthAnswer, StepsOf, Detail
  <2>3. CASE l.step # "health"
    BY <1>2, <1>4, <2>1, <2>3, PlainAnswer DEF HealthAnswer, Answered
  <2> QED BY <2>2, <2>3
<1>5. CASE ObserversAnswer(l, outcome)
  BY <1>2, <1>5, PlainAnswer DEF ObserversAnswer, Answered
<1>6. CASE BoardsAnswer(l, outcome)
  BY <1>2, <1>6, PlainAnswer DEF BoardsAnswer, Answered
<1>7. CASE NodesAnswer(l, outcome)
  BY <1>2, <1>7, PlainAnswer DEF NodesAnswer, Answered, Detail
<1>8. CASE TraceAnswer(l, outcome)
  BY <1>2, <1>8, PlainAnswer DEF TraceAnswer, Answered, Detail
<1>9. CASE MessagesAnswer(l, outcome)
  BY <1>2, <1>9, PlainAnswer DEF MessagesAnswer, Answered
<1> QED BY <1>3, <1>4, <1>5, <1>6, <1>7, <1>8, <1>9

\* Nothing more is asked for.
LEMMA LastAnswer ==
  ASSUME Counted, UNCHANGED << Around, imported, handlers >>,
         NEW l \in loads, loads' = loads \ {l},
         NEW r \in ModuleState, mod' = [mod EXCEPT ![l.page] = r],
         r.mounted = mod[l.page].mounted, r.handle = mod[l.page].handle, r.area <= navs,
         IF l.page \in Detail THEN r.objects \in {mod[l.page].objects, mod[l.page].objects + 1}
                              ELSE r.objects = mod[l.page].objects,
         lost' = lost,
         view' \in ViewState,
         \/ view'.page = view.page /\ view'.nav = view.nav
         \/ view'.nav = l.nav
  PROVE  Counted'
<1> DEFINE N == {}
<1>1. /\ N \in SUBSET Requests /\ IsFiniteSet(N) /\ loads' = (loads \ {l}) \cup N
      /\ \A k \in N : /\ l.page \notin Detail /\ k.step # "channels"
                      /\ k.page = l.page /\ k.nav = l.nav /\ k.pick <= picks
                      /\ k.step \in StepsOf(l.page)
  BY FS_EmptySet
<1> HIDE DEF N
<1> QED BY <1>1, AnswerStepCounted

\* The table of repeaters, and the marks on the map.
LEMMA AreaAnswersCounted ==
  ASSUME Counted, NEW l \in loads, NEW outcome \in Outcome, UNCHANGED << Around, imported >>,
         RepeatersAnswer(l, outcome) \/ CoverageAnswer(l, outcome)
  PROVE  Counted'
<1> DEFINE p == l.page
<1>1. /\ p \in Page /\ mod[p] \in ModuleState /\ mod[p].area <= navs /\ l.nav \in 1 .. navs
      /\ navs \in Nat /\ view \in ViewState
  BY InFlight
<1>2. CASE RepeatersAnswer(l, outcome)
  <2> DEFINE r == [mod[p] EXCEPT !.area = l.nav]
  <2>1. /\ p \notin Detail /\ loads' = loads \ {l} /\ UNCHANGED << handlers, lost >>
        /\ mod' = [mod EXCEPT ![p] = r] /\ view' = Written(l.nav, "all")
    BY <1>2 DEF RepeatersAnswer, Answered, Detail
  <2>2. /\ r \in ModuleState /\ r.mounted = mod[p].mounted /\ r.handle = mod[p].handle
        /\ r.area = l.nav /\ r.objects = mod[p].objects
    BY <1>1 DEF ModuleState
  <2> HIDE DEF r
  <2>3. view' \in ViewState /\ view'.page = view.page /\ view'.nav = view.nav
    BY <2>1, ShownValues, WrittenCounted
  <2>4. r.area <= navs
    BY <1>1, <2>2
  <2> QED BY <2>1, <2>2, <2>3, <2>4, LastAnswer
<1>3. CASE CoverageAnswer(l, outcome)
  <2> DEFINE r == [mod[p] EXCEPT !.marks = @ \/ (outcome # "failed" /\ mod[p].objects > 0)]
  <2>1. /\ p \notin Detail /\ loads' = loads \ {l} /\ UNCHANGED << handlers, lost, view >>
        /\ mod' = [mod EXCEPT ![p] = r]
    BY <1>3 DEF CoverageAnswer, Answered, Detail
  <2>2. /\ r \in ModuleState /\ r.mounted = mod[p].mounted /\ r.handle = mod[p].handle
        /\ r.area = mod[p].area /\ r.objects = mod[p].objects
    BY <1>1 DEF ModuleState
  <2> HIDE DEF r
  <2> QED BY <1>1, <2>1, <2>2, LastAnswer
<1> QED BY <1>2, <1>3

\* A detail is drawn, with its charts: the request is one less, the tally one
\* more.
LEMMA DetailAnswerCounted ==
  ASSUME Counted, NEW l \in loads, NEW outcome \in Outcome, UNCHANGED << Around, imported >>,
         DetailAnswer(l, outcome)
  PROVE  Counted'
<1> DEFINE p == l.page
           r == [mod[p] EXCEPT !.objects = IF outcome = "data" THEN @ + 1 ELSE @]
           what == IF outcome = "data" THEN l.arg ELSE "error"
<1>1. /\ p \in Page /\ mod[p] \in ModuleState /\ mod[p].area <= navs /\ l.nav \in 1 .. navs
      /\ navs \in Nat /\ mod = [mod EXCEPT ![p] = mod[p]] /\ l.arg \in Shown
  BY InFlight
<1>2. /\ p \in Detail /\ loads' = loads \ {l} /\ UNCHANGED << handlers, lost >>
      /\ view' = [page |-> p, nav |-> l.nav, shown |-> what]
  BY DEF DetailAnswer, Answered
<1>3. what \in Shown
  BY <1>1, ShownValues
<1>4. /\ r \in ModuleState /\ r.mounted = mod[p].mounted /\ r.handle = mod[p].handle
      /\ r.area = mod[p].area /\ r.objects \in {mod[p].objects, mod[p].objects + 1}
      /\ mod' = [mod EXCEPT ![p] = r]
  <2>1. CASE outcome = "data"
    BY <1>1, <2>1 DEF ModuleState, DetailAnswer
  <2>2. CASE outcome # "data"
    <3>1. r = mod[p]
      BY <1>1, <2>2 DEF ModuleState
    <3>2. mod' = mod
      BY <2>2 DEF DetailAnswer
    <3> HIDE DEF r
    <3> QED BY <1>1, <3>1, <3>2
  <2> QED BY <2>1, <2>2
<1> HIDE DEF r, what
<1>5. view' \in ViewState /\ view'.nav = l.nav
  BY <1>1, <1>2, <1>3 DEF ViewState
<1> QED BY <1>1, <1>2, <1>4, <1>5, LastAnswer

\* The channels are listed, and a handler registered: the request is one
\* less, the tally one more.
LEMMA ChannelsAnswerCounted ==
  ASSUME Counted, NEW l \in loads, NEW outcome \in Outcome, UNCHANGED << Around, imported >>,
         ChannelsAnswer(l, outcome)
  PROVE  Counted'
<1> DEFINE p == l.page
<1>1. /\ p \in Page /\ mod[p] \in ModuleState /\ mod[p].area <= navs /\ l.nav \in 1 .. navs
      /\ navs \in Nat /\ view \in ViewState /\ mod = [mod EXCEPT ![p] = mod[p]]
      /\ mod[p].mounted <= navs /\ picks \in Nat
  BY InFlight
<1>2. p = "channels" /\ l.step = "channels" /\ lost' = lost /\ p \notin Detail
  BY DEF ChannelsAnswer, Detail
<1>3. CASE mod[p].mounted = 0
  <2>1. loads' = loads \ {l} /\ UNCHANGED << view, mod, handlers >>
    BY <1>3 DEF ChannelsAnswer, Answered
  <2>2. mod' = [mod EXCEPT ![p] = mod[p]]
    BY <1>1, <2>1
  <2> QED BY <1>1, <1>2, <2>1, <2>2, LastAnswer
<1>4. CASE mod[p].mounted # 0
  <2>1. PICK c \in IF outcome = "data" THEN Channel ELSE {NULL} :
          /\ mod' = [mod EXCEPT ![p].area = mod[p].mounted,
                                ![p].sel = IF c = NULL THEN @ ELSE c,
                                ![p].handle = TRUE]
          /\ view' = Written(mod[p].mounted, IF c = NULL THEN "none" ELSE "spinner")
          /\ loads' = (loads \ {l}) \cup
               IF c = NULL THEN {} ELSE {Request(p, l.nav, "messages", c)}
    BY <1>4 DEF ChannelsAnswer
  <2>2. handlers' = [handlers EXCEPT ![p] = handlers[p] + 1]
    BY <1>4 DEF ChannelsAnswer
  <2> DEFINE r == [mod[p] EXCEPT !.area = mod[p].mounted, !.sel = IF c = NULL THEN @ ELSE c,
                                 !.handle = TRUE]
             k == Request(p, l.nav, "messages", c)
             N == IF c = NULL THEN {} ELSE {k}
             what == IF c = NULL THEN "none" ELSE "spinner"
  <2>3. c \in Sel /\ what \in Shown
    BY ShownValues DEF Sel
  <2>4. /\ r \in ModuleState /\ r.mounted = mod[p].mounted
        /\ r.area = mod[p].mounted /\ r.objects = mod[p].objects
        /\ mod' = [mod EXCEPT ![p] = r]
    BY <1>1, <2>1, <2>3 DEF ModuleState
  <2>5. "messages" \in StepsOf(p)
    BY <1>2 DEF StepsOf, Detail
  <2>6. /\ k \in Requests /\ k.page = p /\ k.nav = l.nav /\ k.step = "messages" /\ k.pick = picks
    BY <1>1, <2>3, <2>5 DEF Request, Requests
  <2>7. view' \in ViewState /\ view'.page = view.page /\ view'.nav = view.nav
    BY <2>1, <2>3, WrittenCounted
  <2> HIDE DEF r, k, what
  <2>8. /\ N \in SUBSET Requests /\ IsFiniteSet(N)
        /\ \A x \in N : /\ l.page \notin Detail /\ x.step # "channels"
                        /\ x.page = l.page /\ x.nav = l.nav /\ x.pick <= picks
                        /\ x.step \in StepsOf(l.page)
    BY <1>1, <1>2, <2>5, <2>6, FS_Singleton, FS_EmptySet
  <2>9. loads' = (loads \ {l}) \cup N
    BY <2>1 DEF k
  <2> HIDE DEF N
  <2> QED BY <1>1, <1>2, <2>2, <2>4, <2>7, <2>8, <2>9, AnswerStepCounted
<1> QED BY <1>3, <1>4

\* Any answer.
LEMMA AnswerCounted ==
  ASSUME Counted, NEW l \in loads, NEW outcome \in Outcome, Answer(l, outcome)
  PROVE  Counted'
BY PlainAnswersCounted, AreaAnswersCounted, DetailAnswerCounted, ChannelsAnswerCounted
   DEF Answer, Around

\* A choice on a page.
LEMMA PickCounted ==
  ASSUME Counted, NEW p \in Page \ Detail, Pick(p),
         NEW r \in ModuleState, mod' = [mod EXCEPT ![p] = r],
         r.mounted = mod[p].mounted, r.handle = mod[p].handle, r.area = mod[p].area,
         r.objects \in {0, mod[p].objects},
         NEW k \in Requests,
         \/ loads' = loads
         \/ /\ loads' = loads \cup {k} /\ k.page = p /\ k.nav = view.nav /\ k.pick = picks
            /\ k.step \in StepsOf(p) \ {"channels"},
         view' \in ViewState, view'.page = view.page, view'.nav = view.nav
  PROVE  Counted'
<1>1. /\ view.page = p /\ (view.nav = mod[p].mounted \/ p = current)
      /\ navs + picks < MaxInputs
      /\ picks' = picks + 1 /\ Hurry(p)
      /\ UNCHANGED << address, navs, current, imported, importing, handlers, lost >>
  BY DEF Pick
<1>2. /\ picks \in Nat /\ navs \in Nat /\ view.nav \in Nat /\ handlers[p] \in Int
      /\ view.nav <= navs /\ view.nav >= 1 /\ loads \subseteq Requests
      /\ Sound(p, mod[p], handlers[p]) /\ mod[p] \in ModuleState /\ handlers \in [Page -> Int]
      /\ IsFiniteSet(loads)
  BY <1>1 DEF Counted, PageCounted, Typed
<1>3. p \in imported
  <2>1. CASE view.nav = mod[p].mounted
    BY <1>2, <2>1 DEF Sound
  <2>2. CASE p = current
    BY <2>2, PageAssumption DEF Counted
  <2> QED BY <1>1, <2>1, <2>2
<1>4. picks' \in Nat /\ picks <= picks' /\ picks' <= MaxInputs
  BY <1>1, <1>2, BoundAssumption
<1>5. hasty' \subseteq hasty \cup {p} /\ lost' \subseteq lost \cup {p}
  BY <1>1 DEF Hurry
<1>6. /\ IsFiniteSet(loads') /\ loads' \subseteq Requests
      /\ \A l \in loads' : l \notin loads =>
           /\ l.page = p /\ p \in imported /\ l.nav \in 1 .. navs /\ l.pick <= picks'
           /\ l.step \in StepsOf(p)
      /\ \A l \in loads : l.page # p => l \in loads'
  <2>1. IsFiniteSet(loads')
    BY <1>2, FS_AddElement
  <2>2. \A l \in loads' : l \notin loads => l = k /\ k.pick = picks
    OBVIOUS
  <2> QED BY <1>1, <1>2, <1>3, <2>1, <2>2
<1>7. Firsts(p)' = Firsts(p)
  BY DEF Firsts
<1>8. Sound(p, r, handlers[p])
  BY <1>2 DEF Sound
<1>9. /\ Tally(p, r, handlers[p]) = Tally(p, mod[p], handlers[p])
      /\ Tally(p, r, handlers[p]) \in Int
      /\ Cardinality(Firsts(p)) \in Nat
  BY <1>2, CountedSets DEF Tally
<1>10. handlers' = [handlers EXCEPT ![p] = handlers[p]]
  BY <1>1, <1>2
<1>11. view'.nav <= navs /\ (view'.page \in Page => view'.nav >= 1)
  BY <1>2
<1>12. /\ Cardinality(Firsts(p)') \in Nat
       /\ Tally(p, r, handlers[p]) + Cardinality(Firsts(p)')
            <= Tally(p, mod[p], handlers[p]) + Cardinality(Firsts(p))
  BY <1>7, <1>9
<1>13. handlers[p] \in Int /\ UNCHANGED << address, navs, current, imported, importing >>
  BY <1>1, <1>2
<1> QED BY <1>4, <1>5, <1>6, <1>8, <1>10, <1>11, <1>12, <1>13, StepCounted

\* A request made now.
LEMMA RequestCounted ==
  ASSUME Counted, NEW p \in Page, NEW nav \in Nat, NEW step \in StepsOf(p),
         NEW arg \in Sel \cup Id
  PROVE  /\ Request(p, nav, step, arg) \in Requests
         /\ Request(p, nav, step, arg).page = p /\ Request(p, nav, step, arg).nav = nav
         /\ Request(p, nav, step, arg).pick = picks
         /\ Request(p, nav, step, arg).step = step
BY DEF Request, Requests, Counted, Typed

\* The choices that ask for something at once.
LEMMA AskingCounted ==
  ASSUME Counted, NEW p \in {"leaderboards", "traces", "channels"}, Pick(p),
         NEW sel \in Sel, NEW step \in StepsOf(p) \ {"channels"}, NEW objects \in {0, mod[p].objects},
         mod' = [mod EXCEPT ![p].sel = sel, ![p].objects = objects],
         Asked(p, step, sel),
         view' = Written(mod[p].area, "spinner")
  PROVE  Counted'
<1> DEFINE r == [mod[p] EXCEPT !.sel = sel, !.objects = objects]
           k == Request(p, view.nav, step, sel)
<1>1. p \in Page \ Detail /\ view.nav \in Nat /\ mod[p] \in ModuleState
  BY PageValues DEF Detail, Counted, Typed
<1>2. /\ r \in ModuleState /\ r.mounted = mod[p].mounted /\ r.handle = mod[p].handle
      /\ r.area = mod[p].area /\ r.objects = objects
  <2>1. objects \in Nat
    BY <1>1 DEF ModuleState
  <2> QED BY <1>1, <2>1 DEF ModuleState
<1>6. mod' = [mod EXCEPT ![p] = r]
  OBVIOUS
<1>3. k \in Requests /\ k.page = p /\ k.nav = view.nav /\ k.pick = picks /\ k.step = step
  BY <1>1, RequestCounted
<1>4. view' \in ViewState /\ view'.page = view.page /\ view'.nav = view.nav
  BY ShownValues, WrittenCounted
<1> HIDE DEF r, k
<1>5. loads' \in {loads, loads \cup {k}}
  BY DEF k, Asked
<1> QED BY <1>1, <1>2, <1>3, <1>4, <1>5, <1>6, PickCounted

\* Windows, hashes and channels.
LEMMA ChosenCounted ==
  ASSUME Counted,
         \/ \E window \in Window : ChooseWindow(window)
         \/ \E hash \in Hash : Search(hash)
         \/ \E c \in Channel : SelectChannel(c)
  PROVE  Counted'
<1>0. /\ {"leaderboards", "traces", "channels"} \subseteq Page
      /\ \A p \in Page : mod[p] \in ModuleState
      /\ mod \in [Page -> ModuleState]
  BY PageValues DEF Counted, Typed
<1>1. ASSUME NEW window \in Window, ChooseWindow(window) PROVE Counted'
  <2> DEFINE p == "leaderboards"
  <2>1. window \in Sel /\ "boards" \in StepsOf(p) \ {"channels"}
    BY DEF Window, Sel, StepsOf, Detail
  <2>2. /\ Pick(p) /\ Asked(p, "boards", window)
        /\ view' = Written(mod[p].area, "spinner")
        /\ mod' = [mod EXCEPT ![p].sel = window, ![p].objects = mod[p].objects]
    BY <1>0, <1>1 DEF ChooseWindow, ModuleState
  <2> QED BY <2>1, <2>2, AskingCounted
<1>2. ASSUME NEW hash \in Hash, Search(hash) PROVE Counted'
  <2> DEFINE p == "traces"
  <2>1. hash \in Sel /\ "trace" \in StepsOf(p) \ {"channels"}
    BY DEF Sel, StepsOf, Detail
  <2>2. /\ Pick(p) /\ Asked(p, "trace", hash)
        /\ view' = Written(mod[p].area, "spinner")
        /\ mod' = [mod EXCEPT ![p].sel = hash, ![p].objects = 0]
    BY <1>2 DEF Search
  <2> QED BY <2>1, <2>2, AskingCounted
<1>3. ASSUME NEW c \in Channel, SelectChannel(c) PROVE Counted'
  <2> DEFINE p == "channels"
  <2>1. c \in Sel /\ "messages" \in StepsOf(p) \ {"channels"}
    BY DEF Sel, StepsOf, Detail
  <2>2. /\ Pick(p) /\ Asked(p, "messages", c)
        /\ view' = Written(mod[p].area, "spinner")
        /\ mod' = [mod EXCEPT ![p].sel = c, ![p].objects = mod[p].objects]
    BY <1>0, <1>3 DEF SelectChannel, ModuleState
  <2> QED BY <2>1, <2>2, AskingCounted
<1> QED BY <1>1, <1>2, <1>3

\* A filter asks for nothing.
LEMMA FilterCounted ==
  ASSUME Counted, NEW filter \in Filters, Filter(filter)
  PROVE  Counted'
<1> DEFINE p == "repeaters"
           r == [mod[p] EXCEPT !.sel = filter]
           k == Request(p, 0, "repeaters", NULL)
<1>1. p \in Page \ Detail /\ mod[p] \in ModuleState
  BY PageValues DEF Detail, Counted, Typed
<1>2. filter \in Sel /\ filter \in Shown /\ NULL \in Sel
  BY ShownValues DEF Filters, Sel
<1>3. /\ Pick(p) /\ mod' = [mod EXCEPT ![p] = r] /\ loads' = loads
      /\ view' = Written(mod[p].area, filter)
  BY DEF Filter
<1>4. /\ r \in ModuleState /\ r.mounted = mod[p].mounted /\ r.handle = mod[p].handle
      /\ r.area = mod[p].area /\ r.objects = mod[p].objects
  BY <1>1, <1>2 DEF ModuleState
<1>5. "repeaters" \in StepsOf(p) /\ k \in Requests
  <2>1. "repeaters" \in StepsOf(p)
    BY DEF StepsOf, Detail
  <2> QED BY <1>1, <1>2, <2>1, RequestCounted
<1>6. view' \in ViewState /\ view'.page = view.page /\ view'.nav = view.nav
  BY <1>2, <1>3, WrittenCounted
<1> HIDE DEF r, k
<1> QED BY <1>1, <1>3, <1>4, <1>5, <1>6, PickCounted

\* Coverage is asked for when it is switched on, and there is a map.
LEMMA ToggleCounted ==
  ASSUME Counted, ToggleCoverage
  PROVE  Counted'
<1> DEFINE p == "map"
           on == mod[p].sel = "off"
           there == mod[p].objects > 0
           sel == IF on THEN "on" ELSE "off"
           r == [mod[p] EXCEPT !.sel = sel, !.marks = @ /\ ~there]
           k == Request(p, view.nav, "coverage", NULL)
<1>1. p \in Page \ Detail /\ mod[p] \in ModuleState /\ view.nav \in Nat /\ view \in ViewState
  BY PageValues DEF Detail, Counted, Typed, ViewState
<1>2. sel \in Sel /\ NULL \in Sel
  BY DEF Sel
<1>3. /\ Pick(p) /\ mod' = [mod EXCEPT ![p] = r] /\ view' = view
      /\ loads' = loads \cup IF on /\ there THEN {k} ELSE {}
  BY DEF ToggleCoverage
<1>4. /\ r \in ModuleState /\ r.mounted = mod[p].mounted /\ r.handle = mod[p].handle
      /\ r.area = mod[p].area /\ r.objects = mod[p].objects
  BY <1>1, <1>2 DEF ModuleState
<1>5. "coverage" \in StepsOf(p) \ {"channels"}
  BY DEF StepsOf, Detail
<1>6. k \in Requests /\ k.page = p /\ k.nav = view.nav /\ k.pick = picks /\ k.step = "coverage"
  BY <1>1, <1>2, <1>5, RequestCounted
<1>7. loads' = loads \/ loads' = loads \cup {k}
  BY <1>3
<1> HIDE DEF r, k, sel, on, there
<1> QED BY <1>1, <1>3, <1>4, <1>5, <1>6, <1>7, PickCounted

\* The requests that mounts for the navigations of M make: one for each at
\* most, and none but one that is owed.
LEMMA MountLoads ==
  ASSUME Counted, NEW p \in Page, NEW M, IsFiniteSet(M),
         \A w \in M : w.id \in Id \cup {NULL} /\ w.nav \in Nat,
         NEW m \in [Page -> ModuleState], NEW h, Mount(p, M, m, h)
  PROVE  /\ IsFiniteSet(loads') /\ loads' \subseteq Requests /\ loads \subseteq loads'
         /\ \A l \in loads' : l \notin loads =>
              /\ l.page = p /\ l.pick = picks /\ l.step \in StepsOf(p)
              /\ \E w \in M : l.nav = w.nav
         /\ Cardinality(Firsts(p)') \in Nat
         /\ Cardinality(Firsts(p)')
              <= Cardinality(Firsts(p)) + IF p = "home" THEN 0 ELSE Cardinality(M)
<1> DEFINE sel == IF p \in {"repeaters", "traces"} THEN routes[p].sel ELSE m[p].sel
           arg(w) == IF p \in Detail THEN w.id ELSE IF p = "leaderboards" THEN sel ELSE NULL
           req(w) == Request(p, w.nav, routes[p].asks, arg(w))
           f == [w \in M |-> req(w)]
           R == {req(w) : w \in M}
           N == IF routes[p].asks = NULL THEN {} ELSE R
           F == Firsts(p)
<1>1. loads' = loads \cup N
  BY DEF Mount
<1>2. /\ IsFiniteSet(R) /\ Cardinality(R) <= Cardinality(M)
      /\ Cardinality(M) \in Nat /\ Cardinality(R) \in Nat
  <2>1. f \in Surjection(M, R)
    BY DEF Surjection
  <2> HIDE DEF f, R
  <2> QED BY <2>1, FS_Surjection, FS_CardinalityType
<1>3. \A w \in M : arg(w) \in Sel \cup Id
  <2>1. NULL \in Sel /\ sel \in Sel
    BY RouteFields DEF Sel, ModuleState
  <2> HIDE DEF sel
  <2> QED BY <2>1
<1> HIDE DEF arg
<1>4. ASSUME routes[p].asks # NULL, NEW w \in M
      PROVE  /\ req(w) \in Requests /\ req(w).page = p /\ req(w).pick = picks
             /\ req(w).step = routes[p].asks /\ routes[p].asks \in StepsOf(p)
             /\ req(w).nav = w.nav
  BY <1>3, <1>4, RouteFields, RequestCounted
<1> HIDE DEF req
<1>5. \A l \in N : /\ l \in Requests /\ l.page = p /\ l.pick = picks
                   /\ l.step = routes[p].asks /\ l.step \in StepsOf(p)
                   /\ \E w \in M : l.nav = w.nav
  BY <1>4
<1>6. /\ IsFiniteSet(N) /\ Cardinality(N) \in Nat /\ Cardinality(N) <= Cardinality(M)
  BY <1>2, FS_EmptySet
<1> HIDE DEF N, R
<1>7. /\ IsFiniteSet(loads) /\ loads \subseteq Requests
      /\ IsFiniteSet(F) /\ Cardinality(F) \in Nat
  BY CountedSets DEF Counted, Typed
<1>8. IsFiniteSet(loads')
  BY <1>1, <1>6, <1>7, FS_Union
<1>9. F' \subseteq F \cup N /\ (p = "home" => F' = F)
  <2>1. p = "home" => p \notin Detail /\ \A l \in N : l.step # "channels"
    BY <1>5 DEF StepsOf, Detail
  <2> QED BY <1>1, <2>1 DEF Firsts
<1> HIDE DEF F
<1>10. /\ IsFiniteSet(F \cup N) /\ Cardinality(F \cup N) \in Nat
       /\ Cardinality(F \cup N) <= Cardinality(F) + Cardinality(N)
  <2>1. /\ IsFiniteSet(F \cup N) /\ IsFiniteSet(F \cap N)
        /\ Cardinality(F \cup N) = Cardinality(F) + Cardinality(N) - Cardinality(F \cap N)
    BY <1>6, <1>7, FS_Union, FS_Subset
  <2>2. Cardinality(F \cup N) \in Nat /\ Cardinality(F \cap N) \in Nat
    BY <2>1, FS_CardinalityType
  <2> QED BY <1>6, <1>7, <2>1, <2>2
<1>11. Cardinality(F') \in Nat /\ Cardinality(F') <= Cardinality(F \cup N)
  BY <1>9, <1>10, FS_Subset, FS_CardinalityType
<1>12. Cardinality(F') <= Cardinality(F) + IF p = "home" THEN 0 ELSE Cardinality(M)
  BY <1>2, <1>6, <1>7, <1>9, <1>10, <1>11
<1> QED BY <1>1, <1>5, <1>7, <1>8, <1>11, <1>12 DEF F

\* What a mount leaves in the module.
LEMMA MountModule ==
  ASSUME NEW p \in Page, NEW M, IsFiniteSet(M), M # {},
         NEW n \in Nat, \A w \in M : w.nav \in 1 .. n,
         NEW m \in [Page -> ModuleState], NEW h \in [Page -> Int], Mount(p, M, m, h)
  PROVE  /\ current' = p
         /\ view' \in ViewState /\ view'.nav \in 1 .. n
         /\ mod' \in [Page -> ModuleState] /\ \A q \in Page \ {p} : mod'[q] = m[q]
         /\ mod'[p].mounted \in 1 .. n
         /\ mod'[p].area \in 1 .. n \/ mod'[p].area = m[p].area
         /\ mod'[p].handle <=> m[p].handle \/ p = "home"
         /\ mod'[p].objects = m[p].objects
         /\ handlers' \in [Page -> Int] /\ \A q \in Page \ {p} : handlers'[q] = h[q]
         /\ handlers'[p] = h[p] + IF p = "home" THEN Cardinality(M) ELSE 0
         /\ Cardinality(M) \in Nat \ {0}
<1> DEFINE last == Max({w.nav : w \in M})
           T == {w.nav : w \in M}
           sel == IF p \in {"repeaters", "traces"} THEN routes[p].sel ELSE m[p].sel
           r == [m[p] EXCEPT !.mounted = last, !.sel = sel,
                             !.area = IF routes[p].inPlace THEN last ELSE @,
                             !.handle = @ \/ routes[p].subscribes]
<1>1. /\ current' = p
      /\ view' = [page |-> p, nav |-> last, shown |-> routes[p].shows]
      /\ mod' = [m EXCEPT ![p] = r]
      /\ handlers' = [h EXCEPT ![p] = @ + IF routes[p].subscribes THEN Cardinality(M) ELSE 0]
  BY DEF Mount
<1>2. last \in 1 .. n
  <2>1. T \in SUBSET (1 .. n) /\ T # {}
    OBVIOUS
  <2> HIDE DEF T
  <2>2. Max(T) \in T
    BY <2>1, MaxFacts
  <2> QED BY <2>1, <2>2 DEF T
<1> HIDE DEF last
<1>3. sel \in Sel
  BY RouteFields DEF Sel, ModuleState
<1> HIDE DEF sel
<1>4. /\ r \in ModuleState /\ r.mounted = last
      /\ r.area = last \/ r.area = m[p].area
      /\ r.handle <=> m[p].handle \/ routes[p].subscribes
      /\ r.objects = m[p].objects
  <2>1. last \in Nat /\ m[p] \in ModuleState
    BY <1>2
  <2> QED BY <1>3, <2>1 DEF ModuleState
<1> HIDE DEF r
<1>5. /\ mod' \in [Page -> ModuleState] /\ mod'[p] = r
      /\ \A q \in Page \ {p} : mod'[q] = m[q]
  BY <1>1, <1>4
<1>6. routes[p].subscribes <=> p = "home"
  BY RouteFields
<1>7. routes[p].shows \in Shown
  <2>1. routes[p].shows = IF p \in Detail \cup {"leaderboards"} THEN "spinner" ELSE "frame"
    BY RouteFields
  <2> QED BY <2>1, ShownValues
<1>8. view' \in ViewState /\ view'.nav = last
  BY <1>1, <1>2, <1>7 DEF ViewState
<1>9. Cardinality(M) \in Nat \ {0}
  BY FS_CardinalityType, FS_EmptySet
<1>10. /\ handlers' \in [Page -> Int] /\ \A q \in Page \ {p} : handlers'[q] = h[q]
       /\ handlers'[p] = h[p] + IF p = "home" THEN Cardinality(M) ELSE 0
  BY <1>1, <1>6, <1>9
<1> QED BY <1>1, <1>2, <1>4, <1>5, <1>6, <1>8, <1>9, <1>10

\* A mount for the navigations of M, on top of modules m and handlers h in
\* which nothing more is owed than before.
LEMMA MountCounted ==
  ASSUME Counted, NEW p \in Page, NEW M, IsFiniteSet(M), M # {},
         navs' \in Nat, navs <= navs', navs' <= MaxNavs, UNCHANGED << picks, lost >>,
         \A w \in M : w.id \in Id \cup {NULL} /\ w.nav \in 1 .. navs',
         NEW m \in [Page -> ModuleState], NEW h \in [Page -> Int], Mount(p, M, m, h),
         \A q \in Page : /\ Sound(q, m[q], h[q])
                         /\ Tally(q, m[q], h[q]) <= Tally(q, mod[q], handlers[q]),
         imported' = imported \cup {p}, hasty' \subseteq hasty \cup Page \cup {"overlap"},
         importing' \subseteq [page : Page, id : Id \cup {NULL}, nav : Nat],
         IsFiniteSet(importing'),
         \A w \in importing' : w.page \notin imported' /\ w.nav \in 1 .. navs',
         address' \in [page : Page \cup {NULL, "unknown", "malformed"}, id : Id \cup {NULL}],
         \A q \in Page :
           /\ Cardinality(Waiting(q)') \in Nat
           /\ Cardinality(Waiting(q)') + (IF q = p THEN Cardinality(M) ELSE 0)
                <= Cardinality(Waiting(q)) + (navs' - navs)
  PROVE  Counted'
<1>1. /\ current' = p
      /\ view' \in ViewState /\ view'.nav \in 1 .. navs'
      /\ mod' \in [Page -> ModuleState] /\ \A q \in Page \ {p} : mod'[q] = m[q]
      /\ mod'[p].mounted \in 1 .. navs'
      /\ mod'[p].area \in 1 .. navs' \/ mod'[p].area = m[p].area
      /\ mod'[p].handle <=> m[p].handle \/ p = "home"
      /\ mod'[p].objects = m[p].objects
      /\ handlers' \in [Page -> Int] /\ \A q \in Page \ {p} : handlers'[q] = h[q]
      /\ handlers'[p] = h[p] + IF p = "home" THEN Cardinality(M) ELSE 0
      /\ Cardinality(M) \in Nat \ {0}
  BY MountModule
<1>2. /\ IsFiniteSet(loads') /\ loads' \subseteq Requests /\ loads \subseteq loads'
      /\ \A l \in loads' : l \notin loads =>
           /\ l.page = p /\ l.pick = picks /\ l.step \in StepsOf(p)
           /\ \E w \in M : l.nav = w.nav
      /\ Cardinality(Firsts(p)') \in Nat
      /\ Cardinality(Firsts(p)')
           <= Cardinality(Firsts(p)) + IF p = "home" THEN 0 ELSE Cardinality(M)
  <2>1. \A w \in M : w.id \in Id \cup {NULL} /\ w.nav \in Nat
    OBVIOUS
  <2> QED BY <2>1, MountLoads
<1>3. navs \in Nat /\ picks \in Nat
  BY DEF Counted, Typed
<1>4. Typed'
  BY <1>1, <1>2, <1>3 DEF Typed, ViewState
<1>5. /\ navs' <= MaxNavs /\ picks' <= MaxInputs
      /\ imported' \subseteq Page /\ lost' \subseteq Page /\ hasty' \subseteq Page \cup {"overlap"}
      /\ IsFiniteSet(importing') /\ IsFiniteSet(loads')
      /\ \A w \in importing' : w.page \notin imported' /\ w.nav \in 1 .. navs'
      /\ view'.nav <= navs' /\ (view'.page \in Page => view'.nav >= 1)
      /\ current' # NULL => current' \in imported'
  BY <1>1, <1>2 DEF Counted
<1>6. \A l \in loads' : /\ l.page \in imported' /\ l.nav \in 1 .. navs' /\ l.pick <= picks'
                        /\ l.step \in StepsOf(l.page)
  <2>1. ASSUME NEW l \in loads
        PROVE  /\ l.page \in imported' /\ l.nav \in 1 .. navs' /\ l.pick <= picks'
               /\ l.step \in StepsOf(l.page)
    BY <1>3 DEF Counted
  <2>2. ASSUME NEW l \in loads', l \notin loads
        PROVE  /\ l.page \in imported' /\ l.nav \in 1 .. navs' /\ l.pick <= picks'
               /\ l.step \in StepsOf(l.page)
    BY <1>2, <1>3, <2>2
  <2> QED BY <2>1, <2>2
<1>7. ASSUME NEW q \in Page PROVE PageCounted(q)'
  <2>1. /\ Sound(q, m[q], h[q]) /\ Tally(q, m[q], h[q]) <= Tally(q, mod[q], handlers[q])
        /\ m[q] \in ModuleState /\ h[q] \in Int /\ mod[q] \in ModuleState /\ handlers[q] \in Int
        /\ mod'[q] \in ModuleState /\ handlers'[q] \in Int
        /\ Tally(q, mod[q], handlers[q]) + Cardinality(Firsts(q)) + Cardinality(Waiting(q)) <= navs
    BY <1>1 DEF Counted, PageCounted, Typed
  <2>2. "home" \notin Detail
    BY DEF Detail
  <2>3. Sound(q, mod[q], handlers[q])'
    BY <1>1, <1>3, <2>1, <2>2 DEF Sound, ModuleState
  <2>4. /\ Tally(q, m[q], h[q]) \in Int /\ Tally(q, mod[q], handlers[q]) \in Int
        /\ Tally(q, mod[q], handlers[q])' \in Int
    BY <2>1 DEF Tally, ModuleState
  <2>5. Tally(q, mod[q], handlers[q])'
          = Tally(q, m[q], h[q]) + IF q = p /\ p = "home" THEN Cardinality(M) ELSE 0
    BY <1>1, <2>1, <2>2 DEF Tally, ModuleState
  <2>6. /\ Cardinality(Firsts(q)) \in Nat /\ Cardinality(Waiting(q)) \in Nat
        /\ Cardinality(Waiting(q)') \in Nat
        /\ Cardinality(Waiting(q)') + (IF q = p THEN Cardinality(M) ELSE 0)
             <= Cardinality(Waiting(q)) + (navs' - navs)
    BY CountedSets
  <2>7. /\ Cardinality(Firsts(q)') \in Nat
        /\ Cardinality(Firsts(q)')
             <= Cardinality(Firsts(q)) + IF q = p /\ p # "home" THEN Cardinality(M) ELSE 0
    <3>1. CASE q = p
      BY <1>2, <3>1
    <3>2. CASE q # p
      <4>1. Firsts(q)' = Firsts(q)
        BY <1>2, <3>2 DEF Firsts
      <4> QED BY <2>6, <3>2, <4>1
    <3> QED BY <3>1, <3>2
  <2>8. Tally(q, mod[q], handlers[q])' + Cardinality(Firsts(q)') + Cardinality(Waiting(q)')
          <= navs'
    BY <1>1, <1>3, <2>1, <2>4, <2>5, <2>6, <2>7
  <2> QED BY <2>3, <2>8 DEF PageCounted
<1> QED BY <1>4, <1>5, <1>6, <1>7 DEF Counted

\* An unmount takes back what it is owed, and no more.
LEMMA UnmountedSound ==
  ASSUME Counted
  PROVE  /\ Unmounted \in [Page -> ModuleState] /\ Unsubscribed \in [Page -> Int]
         /\ \A q \in Page :
              /\ Sound(q, Unmounted[q], Unsubscribed[q])
              /\ Tally(q, Unmounted[q], Unsubscribed[q]) <= Tally(q, mod[q], handlers[q])
<1>1. /\ current \in Page \cup {NULL} /\ mod \in [Page -> ModuleState]
      /\ handlers \in [Page -> Int] /\ navs \in Nat
  BY DEF Counted, Typed
<1>2. Unmounted \in [Page -> ModuleState] /\ Unsubscribed \in [Page -> Int]
  BY <1>1, IdleValue DEF Unmounted, Unsubscribed
<1>3. ASSUME NEW q \in Page
      PROVE  /\ Sound(q, Unmounted[q], Unsubscribed[q])
             /\ Tally(q, Unmounted[q], Unsubscribed[q]) <= Tally(q, mod[q], handlers[q])
  <2>1. /\ Sound(q, mod[q], handlers[q]) /\ mod[q] \in ModuleState /\ handlers[q] \in Int
    BY <1>1 DEF Counted, PageCounted
  <2>2. CASE q = current
    <3>1. Unmounted[q] = Idle(q)
      BY <1>1, <2>2, PageAssumption DEF Unmounted
    <3>2. Unsubscribed[q] = IF mod[q].handle THEN handlers[q] - 1 ELSE handlers[q]
      BY <1>1, <2>2, PageAssumption DEF Unsubscribed
    <3>3. /\ Idle(q).mounted = 0 /\ Idle(q).area = 0 /\ ~Idle(q).handle /\ Idle(q).objects = 0
      BY IdleValue
    <3> QED BY <1>1, <2>1, <3>1, <3>2, <3>3 DEF Sound, Tally, ModuleState
  <2>3. CASE q # current
    <3>1. Unmounted[q] = mod[q] /\ Unsubscribed[q] = handlers[q]
      BY <1>1, <2>3 DEF Unmounted, Unsubscribed
    <3> QED BY <2>1, <3>1 DEF Tally, ModuleState
  <2> QED BY <2>2, <2>3
<1> QED BY <1>2, <1>3

\* One navigation more may wait.
LEMMA WaitingMore ==
  ASSUME Counted, \E w : importing' \in {importing, importing \cup {w}}
  PROVE  /\ IsFiniteSet(importing')
         /\ \A q \in Page :
              /\ Cardinality(Waiting(q)') \in Nat
              /\ Cardinality(Waiting(q)') <= Cardinality(Waiting(q)) + 1
              /\ importing' = importing => Cardinality(Waiting(q)') = Cardinality(Waiting(q))
<1>0. PICK w : importing' \in {importing, importing \cup {w}}
  OBVIOUS
<1>1. IsFiniteSet(importing')
  BY <1>0, FS_AddElement DEF Counted
<1>2. ASSUME NEW q \in Page
      PROVE  /\ Cardinality(Waiting(q)') \in Nat
             /\ Cardinality(Waiting(q)') <= Cardinality(Waiting(q)) + 1
             /\ importing' = importing => Cardinality(Waiting(q)') = Cardinality(Waiting(q))
  <2>1. /\ IsFiniteSet(Waiting(q)) /\ Cardinality(Waiting(q)) \in Nat
    BY CountedSets
  <2>2. Waiting(q)' \in {Waiting(q), Waiting(q) \cup {w}}
        /\ (importing' = importing => Waiting(q)' = Waiting(q))
    BY <1>0 DEF Waiting
  <2>3. Cardinality(Waiting(q) \cup {w}) \in {Cardinality(Waiting(q)), Cardinality(Waiting(q)) + 1}
    BY <2>1, FS_AddElement
  <2>4. CASE Waiting(q)' = Waiting(q)
    <3>1. Cardinality(Waiting(q)') = Cardinality(Waiting(q))
      BY <2>4
    <3> QED BY <2>1, <3>1
  <2>5. CASE Waiting(q)' # Waiting(q)
    <3>1. Waiting(q)' = Waiting(q) \cup {w} /\ importing' # importing
      BY <2>2, <2>5
    <3>2. Cardinality(Waiting(q)') = Cardinality(Waiting(q) \cup {w})
      BY <3>1
    <3> QED BY <2>1, <2>3, <3>1, <3>2
  <2> QED BY <2>4, <2>5
<1> QED BY <1>1, <1>2

\* The page is left, and the next one mounted or its module awaited.
LEMMA NavigateCounted ==
  ASSUME Counted, NEW target \in Target, Navigate(target)
  PROVE  Counted'
<1> DEFINE w == [page |-> target.page, id |-> target.id, nav |-> navs + 1]
<1>1. /\ target.page \in Page \cup NoPage /\ target.id \in Id \cup {NULL}
      /\ target \in [page : Page \cup {NULL, "unknown", "malformed"}, id : Id \cup {NULL}]
  BY PageAssumption DEF Target, NoPage
<1>2. /\ navs < MaxNavs /\ navs' = navs + 1 /\ address' = target
      /\ hasty' \subseteq hasty \cup Page \cup {"overlap"}
      /\ UNCHANGED << imported, lost, picks >>
  <2>1. current \in Page \cup {NULL}
    BY DEF Counted, Typed
  <2> QED BY <2>1 DEF Navigate
<1>3. /\ navs \in Nat /\ navs' \in Nat /\ navs <= navs' /\ navs' <= MaxNavs /\ navs' - navs = 1
  BY <1>2, BoundAssumption DEF Counted, Typed
<1>4. /\ Unmounted \in [Page -> ModuleState] /\ Unsubscribed \in [Page -> Int]
      /\ \A q \in Page :
           /\ Sound(q, Unmounted[q], Unsubscribed[q])
           /\ Tally(q, Unmounted[q], Unsubscribed[q]) <= Tally(q, mod[q], handlers[q])
  BY UnmountedSound
<1>5. /\ imported \subseteq Page /\ importing \subseteq [page : Page, id : Id \cup {NULL}, nav : Nat]
      /\ \A v \in importing : v.page \notin imported /\ v.nav \in 1 .. navs'
  BY <1>3 DEF Counted, Typed
<1>6. CASE target.page \in imported
  <2> DEFINE p == target.page
             M == {w}
  <2>1. /\ Mount(p, M, Unmounted, Unsubscribed) /\ importing' = importing
    BY <1>6 DEF Navigate
  <2>2. p \in Page /\ imported' = imported \cup {p}
    BY <1>2, <1>5, <1>6
  <2>3. /\ IsFiniteSet(M) /\ M # {} /\ Cardinality(M) = 1
        /\ \A v \in M : v.id \in Id \cup {NULL} /\ v.nav \in 1 .. navs'
    <3>1. w.id \in Id \cup {NULL} /\ w.nav \in 1 .. navs'
      BY <1>1, <1>2, <1>3
    <3> HIDE DEF w
    <3> QED BY <3>1, FS_Singleton
  <2>4. /\ IsFiniteSet(importing')
        /\ \A q \in Page : /\ Cardinality(Waiting(q)') \in Nat
                           /\ Cardinality(Waiting(q)') = Cardinality(Waiting(q))
    <3> HIDE DEF w
    <3> QED BY <2>1, WaitingMore
  <2> HIDE DEF M, w
  <2>5. ASSUME NEW q \in Page
        PROVE  /\ Cardinality(Waiting(q)') \in Nat
               /\ Cardinality(Waiting(q)') + (IF q = p THEN Cardinality(M) ELSE 0)
                    <= Cardinality(Waiting(q)) + (navs' - navs)
    <3>1. Cardinality(Waiting(q)') \in Nat /\ Cardinality(Waiting(q)') = Cardinality(Waiting(q))
      BY <2>4
    <3> DEFINE more == IF q = p THEN Cardinality(M) ELSE 0
               before == Cardinality(Waiting(q))
    <3>2. more \in 0 .. 1
      BY <2>3
    <3> HIDE DEF more, before
    <3>3. before + more <= before + (navs' - navs)
      <4>1. before \in Nat
        BY <3>1 DEF before
      <4>2. more = 0 \/ more = 1
        BY <3>2
      <4> DEFINE d == navs' - navs
      <4>3. d = 1
        BY <1>3
      <4> HIDE DEF d
      <4>4. before + more <= before + d
        BY <4>1, <4>2, <4>3
      <4> QED BY <4>4 DEF d
    <3> QED BY <3>1, <3>3 DEF more, before
  <2>6. /\ importing' \subseteq [page : Page, id : Id \cup {NULL}, nav : Nat]
        /\ \A v \in importing' : v.page \notin imported' /\ v.nav \in 1 .. navs'
    BY <1>2, <1>5, <2>1
  <2> HIDE DEF p
  <2> QED BY <1>1, <1>2, <1>3, <1>4, <2>1, <2>2, <2>3, <2>4, <2>5, <2>6, MountCounted
<1>7. CASE target.page \notin imported
  <2>1. /\ mod' = Unmounted /\ handlers' = Unsubscribed /\ loads' = loads
        /\ current' \in {NULL, current}
        /\ importing' = importing \/ (importing' = importing \cup {w} /\ target.page \in Page)
        /\ view' \in ViewState /\ view'.nav <= navs + 1
        /\ view'.page \in Page => view'.nav >= 1
    <3>1. CASE target.page = "unknown"
      <4>1. /\ mod' = Unmounted /\ handlers' = Unsubscribed /\ loads' = loads
            /\ current' = NULL /\ importing' = importing
            /\ view' = [page |-> "unknown", nav |-> navs + 1, shown |-> "not found"]
        BY <1>7, <3>1 DEF Navigate
      <4>2. "not found" \in Shown /\ navs + 1 \in Nat /\ "unknown" \in Page \cup {NULL, "unknown"}
        BY <1>3 DEF Shown
      <4>3. view' \in ViewState /\ view'.nav = navs + 1
        BY <4>1, <4>2 DEF ViewState
      <4>4. view'.nav <= navs + 1 /\ view'.nav >= 1
        BY <1>3, <4>3
      <4> HIDE DEF w
      <4> QED BY <4>1, <4>3, <4>4
    <3>2. CASE target.page = "malformed"
      BY <1>3, <1>7, <3>2 DEF Navigate, Counted, Typed, ViewState
    <3>3. CASE target.page \in Page
      <4>0. target.page \notin NoPage
        BY <3>3, PageValues DEF NoPage
      <4>1. /\ mod' = Unmounted /\ handlers' = Unsubscribed /\ loads' = loads
            /\ current' = current /\ importing' = importing \cup {w}
            /\ view' = [page |-> target.page, nav |-> navs + 1, shown |-> "spinner"]
        BY <1>7, <4>0 DEF Navigate, NoPage
      <4>2. "spinner" \in Shown /\ navs + 1 \in Nat
        BY <1>3, ShownValues
      <4>3. view' \in ViewState /\ view'.nav <= navs + 1 /\ view'.nav >= 1
        BY <1>1, <1>3, <3>3, <4>1, <4>2 DEF ViewState
      <4> HIDE DEF w
      <4> QED BY <3>3, <4>1, <4>3
    <3> QED BY <1>1, <3>1, <3>2, <3>3 DEF NoPage
  <2>2. /\ IsFiniteSet(importing')
        /\ \A q \in Page : /\ Cardinality(Waiting(q)') \in Nat
                           /\ Cardinality(Waiting(q)') <= Cardinality(Waiting(q)) + 1
    <3> HIDE DEF w
    <3>1. importing' \in {importing, importing \cup {w}}
      BY <2>1
    <3> QED BY <3>1, WaitingMore
  <2>3. /\ importing' \subseteq [page : Page, id : Id \cup {NULL}, nav : Nat]
        /\ \A v \in importing' : v.page \notin imported' /\ v.nav \in 1 .. navs'
    <3>1. target.page \in Page =>
            /\ w \in [page : Page, id : Id \cup {NULL}, nav : Nat]
            /\ w.page \notin imported' /\ w.nav \in 1 .. navs'
      BY <1>1, <1>2, <1>3, <1>7
    <3> HIDE DEF w
    <3> QED BY <1>2, <1>5, <2>1, <3>1
  <2> HIDE DEF w
  <2>4. Typed'
    BY <1>1, <1>2, <1>3, <1>4, <2>1, <2>3 DEF Counted, Typed, ViewState
  <2>5. /\ navs' <= MaxNavs /\ picks' <= MaxInputs
        /\ imported' \subseteq Page /\ lost' \subseteq Page /\ hasty' \subseteq Page \cup {"overlap"}
        /\ IsFiniteSet(importing') /\ IsFiniteSet(loads')
        /\ view'.nav <= navs' /\ (view'.page \in Page => view'.nav >= 1)
        /\ current' # NULL => current' \in imported'
    BY <1>2, <1>3, <2>1, <2>2 DEF Counted
  <2>6. \A l \in loads' : /\ l.page \in imported' /\ l.nav \in 1 .. navs' /\ l.pick <= picks'
                          /\ l.step \in StepsOf(l.page)
    BY <1>2, <1>3, <2>1 DEF Counted
  <2>7. ASSUME NEW q \in Page PROVE PageCounted(q)'
    <3>1. Firsts(q)' = Firsts(q)
      BY <2>1 DEF Firsts
    <3>2. Sound(q, mod[q], handlers[q])'
      <4>1. Sound(q, Unmounted[q], Unsubscribed[q]) /\ Unmounted[q] \in ModuleState
        BY <1>4
      <4> QED BY <1>2, <1>3, <2>1, <4>1 DEF Sound, ModuleState
    <3>3. /\ Tally(q, mod[q], handlers[q])' = Tally(q, Unmounted[q], Unsubscribed[q])
          /\ Tally(q, mod[q], handlers[q])' \in Int /\ Tally(q, mod[q], handlers[q]) \in Int
      <4>1. Unmounted[q] \in ModuleState /\ Unsubscribed[q] \in Int
            /\ mod[q] \in ModuleState /\ handlers[q] \in Int
        BY <1>4 DEF Counted, Typed
      <4> QED BY <2>1, <4>1 DEF Tally, ModuleState
    <3>4. /\ Tally(q, mod[q], handlers[q]) + Cardinality(Firsts(q)) + Cardinality(Waiting(q)) <= navs
          /\ Cardinality(Firsts(q)) \in Nat /\ Cardinality(Waiting(q)) \in Nat
      BY CountedSets DEF Counted, PageCounted
    <3>5. Tally(q, mod[q], handlers[q])' + Cardinality(Firsts(q)) + Cardinality(Waiting(q)') <= navs'
      <4> DEFINE a == Tally(q, mod[q], handlers[q])
                 b == Tally(q, mod[q], handlers[q])'
                 f == Cardinality(Firsts(q))
                 v == Cardinality(Waiting(q))
                 u == Cardinality(Waiting(q)')
                 m == navs'
      <4>1. /\ a \in Int /\ b \in Int /\ b <= a /\ a + f + v <= navs
            /\ f \in Nat /\ v \in Nat
        BY <1>4, <3>3, <3>4
      <4>2. u \in Nat /\ u <= v + 1 /\ m = navs + 1 /\ navs \in Nat
        BY <1>2, <1>3, <2>2
      <4> HIDE DEF a, b, f, u, v, m
      <4>3. b + f + u <= m
        BY <4>1, <4>2
      <4> QED BY <4>3 DEF b, f, u, m
    <3> QED BY <3>1, <3>2, <3>5 DEF PageCounted
  <2> QED BY <2>3, <2>4, <2>5, <2>6, <2>7 DEF Counted
<1> QED BY <1>6, <1>7

\* After the module of a page has come, or not, nobody waits for it.
LEMMA WaitingLess ==
  ASSUME Counted, NEW p \in Page, importing' = importing \ Waiting(p)
  PROVE  /\ IsFiniteSet(importing') /\ IsFiniteSet(Waiting(p))
         /\ \A q \in Page :
              /\ Cardinality(Waiting(q)') \in Nat
              /\ Cardinality(Waiting(q)') = IF q = p THEN 0 ELSE Cardinality(Waiting(q))
<1>1. IsFiniteSet(importing') /\ IsFiniteSet(Waiting(p))
  BY FS_Subset, CountedSets DEF Counted
<1>2. ASSUME NEW q \in Page
      PROVE  /\ Cardinality(Waiting(q)') \in Nat
             /\ Cardinality(Waiting(q)') = IF q = p THEN 0 ELSE Cardinality(Waiting(q))
  <2>1. Waiting(q)' = IF q = p THEN {} ELSE Waiting(q)
    BY DEF Waiting
  <2>2. Cardinality(Waiting(q)) \in Nat
    BY CountedSets
  <2> QED BY <2>1, <2>2, FS_EmptySet
<1> QED BY <1>1, <1>2

\* The module comes, and is mounted for all who waited.
LEMMA ImportArrivesCounted ==
  ASSUME Counted, NEW p \in Page, ImportArrives(p)
  PROVE  Counted'
<1> DEFINE M == Waiting(p)
<1>1. /\ M # {} /\ importing' = importing \ M /\ imported' = imported \cup {p}
      /\ Mount(p, M, mod, handlers) /\ UNCHANGED << address, navs, lost, picks, hasty >>
  BY DEF ImportArrives
<1>2. /\ navs \in Nat /\ navs <= MaxNavs /\ mod \in [Page -> ModuleState]
      /\ handlers \in [Page -> Int] /\ hasty \subseteq Page \cup {"overlap"}
      /\ importing \subseteq [page : Page, id : Id \cup {NULL}, nav : Nat]
      /\ \A w \in importing : w.page \notin imported /\ w.nav \in 1 .. navs
      /\ address \in [page : Page \cup {NULL, "unknown", "malformed"}, id : Id \cup {NULL}]
  BY DEF Counted, Typed
<1>3. \A w \in M : w.id \in Id \cup {NULL} /\ w.nav \in 1 .. navs
  BY <1>2 DEF Waiting
<1>4. /\ IsFiniteSet(importing') /\ IsFiniteSet(M)
      /\ \A q \in Page :
           /\ Cardinality(Waiting(q)') \in Nat
           /\ Cardinality(Waiting(q)') = IF q = p THEN 0 ELSE Cardinality(Waiting(q))
  BY <1>1, WaitingLess
<1>5. \A q \in Page : /\ Sound(q, mod[q], handlers[q])
                      /\ Tally(q, mod[q], handlers[q]) <= Tally(q, mod[q], handlers[q])
  BY <1>2 DEF Counted, PageCounted, Tally, ModuleState
<1>6. /\ importing' \subseteq [page : Page, id : Id \cup {NULL}, nav : Nat]
      /\ \A w \in importing' : w.page \notin imported' /\ w.nav \in 1 .. navs'
  BY <1>1, <1>2 DEF Waiting
<1>7. \A q \in Page : Cardinality(Waiting(q)) \in Nat
  BY CountedSets
<1>8. \A q \in Page :
        /\ Cardinality(Waiting(q)') \in Nat
        /\ Cardinality(Waiting(q)') + (IF q = p THEN Cardinality(M) ELSE 0)
             <= Cardinality(Waiting(q)) + (navs' - navs)
  BY <1>1, <1>2, <1>4, <1>7
<1>9. /\ navs' \in Nat /\ navs <= navs' /\ navs' <= MaxNavs /\ UNCHANGED << picks, lost >>
      /\ hasty' \subseteq hasty \cup Page \cup {"overlap"}
      /\ address' \in [page : Page \cup {NULL, "unknown", "malformed"}, id : Id \cup {NULL}]
      /\ \A w \in M : w.id \in Id \cup {NULL} /\ w.nav \in 1 .. navs'
  BY <1>1, <1>2, <1>3
<1> HIDE DEF M
<1> QED BY <1>1, <1>2, <1>4, <1>5, <1>6, <1>8, <1>9, MountCounted

\* The module does not come.
LEMMA ImportFailsCounted ==
  ASSUME Counted, NEW p \in Page, ImportFails(p)
  PROVE  Counted'
<1> DEFINE T == {w.nav : w \in Waiting(p)}
<1>1. /\ Waiting(p) # {} /\ importing' = importing \ Waiting(p) /\ current' = NULL
      /\ view' = [page |-> p, nav |-> Max(T), shown |-> "error"]
      /\ UNCHANGED << address, navs, imported, loads, mod, handlers, lost, picks, hasty >>
  BY DEF ImportFails
<1>2. navs \in Nat /\ \A w \in importing : w.page \notin imported /\ w.nav \in 1 .. navs
  BY DEF Counted, Typed
<1>3. Max(T) \in 1 .. navs
  <2>1. T \in SUBSET (1 .. navs) /\ T # {}
    BY <1>1, <1>2 DEF Waiting
  <2> HIDE DEF T
  <2> QED BY <1>2, <2>1, MaxFacts
<1> HIDE DEF T
<1>4. view' \in ViewState /\ view'.nav \in 1 .. navs
  BY <1>1, <1>2, <1>3, ShownValues DEF ViewState
<1>5. /\ IsFiniteSet(importing')
      /\ \A q \in Page :
           /\ Cardinality(Waiting(q)') \in Nat
           /\ Cardinality(Waiting(q)') = IF q = p THEN 0 ELSE Cardinality(Waiting(q))
  BY <1>1, WaitingLess
<1>6. Typed'
  BY <1>1, <1>4 DEF Counted, Typed, ViewState
<1>7. ASSUME NEW q \in Page PROVE PageCounted(q)'
  <2>1. Firsts(q)' = Firsts(q) /\ Sound(q, mod[q], handlers[q])'
        /\ Tally(q, mod[q], handlers[q])' = Tally(q, mod[q], handlers[q])
    BY <1>1 DEF Firsts, Sound, Tally, Counted, PageCounted
  <2>2. /\ Tally(q, mod[q], handlers[q]) + Cardinality(Firsts(q)) + Cardinality(Waiting(q)) <= navs
        /\ Cardinality(Firsts(q)) \in Nat /\ Cardinality(Waiting(q)) \in Nat
    BY CountedSets DEF Counted, PageCounted
  <2>3. Tally(q, mod[q], handlers[q]) \in Int
    BY DEF Counted, Typed, Tally, ModuleState
  <2>4. Tally(q, mod[q], handlers[q]) + Cardinality(Firsts(q)) + Cardinality(Waiting(q)') <= navs
    BY <1>2, <1>5, <2>2, <2>3
  <2> QED BY <1>1, <2>1, <2>4 DEF PageCounted
<1>8. /\ navs' <= MaxNavs /\ picks' <= MaxInputs
      /\ imported' \subseteq Page /\ lost' \subseteq Page /\ hasty' \subseteq Page \cup {"overlap"}
      /\ current' # NULL => current' \in imported'
      /\ IsFiniteSet(loads') /\ view'.nav <= navs' /\ (view'.page \in Page => view'.nav >= 1)
      /\ \A w \in importing' : w.page \notin imported' /\ w.nav \in 1 .. navs'
      /\ \A l \in loads' : /\ l.page \in imported' /\ l.nav \in 1 .. navs' /\ l.pick <= picks'
                           /\ l.step \in StepsOf(l.page)
  BY <1>1, <1>2, <1>4 DEF Counted
<1> QED BY <1>5, <1>6, <1>7, <1>8 DEF Counted

\* At first there is nothing to count.
LEMMA InitCounted == Init => Counted
<1> SUFFICES ASSUME Init PROVE Counted
  OBVIOUS
<1>1. Typed
  BY InitInside DEF Inside
<1>2. /\ navs = 0 /\ picks = 0 /\ imported = {} /\ lost = {} /\ hasty = {}
      /\ importing = {} /\ loads = {} /\ current = NULL /\ view.nav = 0 /\ view.page = NULL
      /\ \A p \in Page : mod[p] = Idle(p) /\ handlers[p] = 0
  BY DEF Init, Idle
<1>3. NULL \notin Page
  BY PageAssumption
<1>4. ASSUME NEW p \in Page PROVE PageCounted(p)
  <2>1. Firsts(p) = {} /\ Waiting(p) = {} /\ Cardinality({}) = 0
    BY <1>2, FS_EmptySet DEF Firsts, Waiting
  <2>2. Sound(p, mod[p], handlers[p]) /\ Tally(p, mod[p], handlers[p]) = 0
    BY <1>2, IdleValue DEF Sound, Tally
  <2> QED BY <1>2, <2>1, <2>2 DEF PageCounted
<1> QED BY <1>1, <1>2, <1>3, <1>4, FS_EmptySet, BoundAssumption DEF Counted

\* A step that changes nothing.
LEMMA StutterCounted ==
  ASSUME Counted, UNCHANGED vars
  PROVE  Counted'
<1>1. Typed'
  BY DEF vars, Counted, Typed
<1>2. ASSUME NEW p \in Page PROVE PageCounted(p)'
  <2>1. Firsts(p)' = Firsts(p) /\ Waiting(p)' = Waiting(p)
    BY DEF vars, Firsts, Waiting
  <2>2. /\ Sound(p, mod[p], handlers[p])'
        /\ Tally(p, mod[p], handlers[p])' = Tally(p, mod[p], handlers[p])
    BY DEF vars, Counted, PageCounted, Sound, Tally
  <2> QED BY <2>1, <2>2 DEF vars, Counted, PageCounted
<1> QED BY <1>1, <1>2 DEF vars, Counted

\* Every step keeps the count.
LEMMA NextCounted ==
  ASSUME Counted, [Next]_vars
  PROVE  Counted'
<1>1. ASSUME NEW target \in Target, Navigate(target) PROVE Counted'
  BY <1>1, NavigateCounted
<1>2. CASE ImportEnds
  BY <1>2, ImportArrivesCounted, ImportFailsCounted DEF ImportEnds
<1>3. CASE AnswerComes
  BY <1>3, AnswerCounted DEF AnswerComes
<1>4. CASE \/ \E window \in Window : ChooseWindow(window)
           \/ \E hash \in Hash : Search(hash)
           \/ \E c \in Channel : SelectChannel(c)
  BY <1>4, ChosenCounted
<1>5. ASSUME NEW filter \in Filters, Filter(filter) PROVE Counted'
  BY <1>5, FilterCounted
<1>6. CASE ToggleCoverage
  BY <1>6, ToggleCounted
<1>7. CASE UNCHANGED vars
  BY <1>7, StutterCounted
<1> QED BY <1>1, <1>2, <1>3, <1>4, <1>5, <1>6, <1>7 DEF Next

\* Types, whatever overtakes what: a page has as many handlers as there were
\* navigations at most, and as many charts, or markers, as navigations and
\* choices together (app.js navigate, pages/).
THEOREM TypesHold == Spec => []TypeOK
<1>1. Spec => []Counted
  BY InitCounted, NextCounted, PTL DEF Spec
<1> QED BY <1>1, CountedImpliesTypeOK, PTL
=============================================================================
