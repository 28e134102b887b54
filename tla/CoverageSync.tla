----------------------------- MODULE CoverageSync -----------------------------
(***************************************************************************)
(* The coverage synchronisation (src/services/coverage-sync.js): a fetch   *)
(* of the MeshMapper coverage at start and then once per interval, a cache *)
(* in memory that requests read, and two caches that survive a restart, a  *)
(* row of the table coverage_cache and a JSON file.                        *)
(*                                                                         *)
(* The coverage of MeshMapper is a version that grows.  What runs in one   *)
(* turn of the event loop (keep the data, write the row, write the file)   *)
(* is split into steps because the process may be killed between them;     *)
(* nothing else of the process runs while they are under way.  Time passes *)
(* in ticks, and not while a callback is due.                              *)
(***************************************************************************)
EXTENDS Integers

CONSTANTS
  MaxVersion,    \* bound: the last version of MeshMapper's coverage
  SyncEvery,     \* syncIntervalSeconds, in ticks
  FetchTimeout,  \* the 15 seconds after which a fetch is aborted, in ticks
  Torn           \* a file that is not JSON: cut off while it was written

None == 0   \* JavaScript's null, no row, no file
Version == 1 .. MaxVersion

\* The interval is an hour unless the configuration says otherwise; an
\* interval below 15 seconds is accepted by the code and excluded here.
ASSUME TimeoutAssumption ==
  /\ FetchTimeout \in Nat \ {0}
  /\ SyncEvery \in Nat
  /\ FetchTimeout < SyncEvery
ASSUME TornAssumption == MaxVersion \in Nat /\ Torn \notin 0 .. MaxVersion

VARIABLES
  mode,       \* "running", "stopped" after stop(), "down" without a process
  cachedData, \* what getCoverage returns
  row,        \* the row of coverage_cache for the region
  file,       \* contents of the cache file
  writing,    \* what is left to write of cachedData: "nothing", "row",
              \* "file", or "rest" once the file is truncated
  fetches,    \* fetches under way: ticks left, and the version that is on
              \* its way back or None
  countdown,  \* ticks until the interval fires
  remote,     \* environment: version MeshMapper serves
  apiUp,      \* environment: does MeshMapper answer in time?
  served,     \* history: what a request read last
  rowFailed   \* history: the last access to the table failed

vars == << mode, cachedData, row, file, writing, fetches, countdown, remote,
           apiUp, served, rowFailed >>

\* A turn of the event loop can begin.
Idle == mode # "down" /\ writing = "nothing"

-----------------------------------------------------------------------------
(* Starting and stopping.                                                  *)

\* Slip: the row alone is looked at.
FirstOfRowAlone(readable) == IF readable THEN row ELSE None

\* Slip: the file wins over the row.
FirstOfFile(readable) ==
  IF file \notin {None, Torn} THEN file ELSE IF readable THEN row ELSE None

\* Slip: the file is used as it is, without parsing it.
FirstUnparsed(readable) == IF readable /\ row # None THEN row ELSE file

\* loadInitialCache: the row if it can be read, else the file if it parses.
InitialCache(readable) ==
  IF readable /\ row # None THEN row ELSE IF file # Torn THEN file ELSE None

\* Slip: a fetch may take longer than the interval.
LongDeadline == FetchTimeout + SyncEvery

Deadline == FetchTimeout

NewFetch == [left |-> Deadline, answer |-> None]

\* start(), called once by the boot: load, sync, set the interval.
Start(readable) ==
  /\ mode = "down"
  /\ mode' = "running"
  /\ cachedData' = InitialCache(readable)
  /\ rowFailed' = (rowFailed \/ ~readable)
  /\ fetches' = {NewFetch}
  /\ countdown' = SyncEvery
  /\ UNCHANGED << row, file, writing, remote, apiUp, served >>

\* stop() clears the interval; a fetch that is under way goes on.
Stop ==
  /\ Idle /\ mode = "running"
  /\ mode' = "stopped"
  /\ UNCHANGED << cachedData, row, file, writing, fetches, countdown, remote, apiUp, served, rowFailed >>

\* The process exits or is killed, at any point.
Crash ==
  /\ mode # "down"
  /\ mode' = "down"
  /\ cachedData' = None
  /\ writing' = "nothing"
  /\ fetches' = {}
  /\ UNCHANGED << row, file, countdown, remote, apiUp, served, rowFailed >>

-----------------------------------------------------------------------------
(* One synchronisation.                                                    *)

\* Slip: only start() synchronises.
SyncOnlyOnce ==
  /\ Idle /\ mode = "running" /\ countdown = 0
  /\ countdown' = SyncEvery
  /\ UNCHANGED << mode, cachedData, row, file, writing, fetches, remote, apiUp, served, rowFailed >>

\* The callback of the interval, which starts a sync whether or not the
\* last one has ended.
IntervalFires ==
  /\ Idle /\ mode = "running" /\ countdown = 0
  /\ countdown' = SyncEvery
  /\ fetches' = fetches \cup {NewFetch}
  /\ UNCHANGED << mode, cachedData, row, file, writing, remote, apiUp, served, rowFailed >>

\* MeshMapper answers a fetch with the version it has now.
Answer(f) ==
  /\ f \in fetches /\ f.answer = None /\ remote # None
  /\ fetches' = (fetches \ {f}) \cup {[f EXCEPT !.answer = remote]}
  /\ UNCHANGED << mode, cachedData, row, file, writing, countdown, remote, apiUp, served, rowFailed >>

\* The fetch is rejected: no connection, status 429 or another error
\* status, success: false, a body that is null or no JSON, or the timeout,
\* which covers the body as well.  The cache stays as it is.
FetchFails(f) ==
  /\ Idle /\ f \in fetches /\ (~apiUp \/ remote = None)
  /\ fetches' = fetches \ {f}
  /\ UNCHANGED << mode, cachedData, row, file, writing, countdown, remote, apiUp, served, rowFailed >>

\* sync goes on with the data after the fetch.
Received(f) ==
  /\ Idle /\ f \in fetches /\ f.answer # None
  /\ fetches' = fetches \ {f}
  /\ cachedData' = f.answer
  /\ writing' = "row"
  /\ UNCHANGED << mode, row, file, countdown, remote, apiUp, served, rowFailed >>

\* writeCacheToDb; a failure is logged only.
WriteRow(succeeds) ==
  /\ writing = "row"
  /\ writing' = "file"
  /\ row' = IF succeeds THEN cachedData ELSE row
  /\ rowFailed' = ~succeeds
  /\ UNCHANGED << mode, cachedData, file, fetches, countdown, remote, apiUp, served >>

\* writeCacheToFile, mkdirSync and the opening of the file, which empties it.
OpenFile(succeeds) ==
  /\ writing = "file"
  /\ writing' = IF succeeds THEN "rest" ELSE "nothing"
  /\ file' = IF succeeds THEN Torn ELSE file
  /\ UNCHANGED << mode, cachedData, row, fetches, countdown, remote, apiUp, served, rowFailed >>

\* The rest of writeFileSync.
FinishFile(succeeds) ==
  /\ writing = "rest"
  /\ writing' = "nothing"
  /\ file' = IF succeeds THEN cachedData ELSE file
  /\ UNCHANGED << mode, cachedData, row, fetches, countdown, remote, apiUp, served, rowFailed >>

\* GET /api/coverage reads getCoverage().
GetCoverage ==
  /\ Idle /\ served # cachedData
  /\ served' = cachedData
  /\ UNCHANGED << mode, cachedData, row, file, writing, fetches, countdown, remote, apiUp, rowFailed >>

-----------------------------------------------------------------------------
(* MeshMapper and time.                                                    *)

RemoteGrows ==
  /\ remote < MaxVersion
  /\ remote' = remote + 1
  /\ UNCHANGED << mode, cachedData, row, file, writing, fetches, countdown, apiUp, served, rowFailed >>

ApiChanges ==
  /\ apiUp' = ~apiUp
  /\ UNCHANGED << mode, cachedData, row, file, writing, fetches, countdown, remote, served, rowFailed >>

Tick ==
  /\ Idle
  /\ mode = "running" => countdown > 0
  /\ \A f \in fetches : f.left > 0
  /\ fetches' = {[f EXCEPT !.left = @ - 1] : f \in fetches}
  /\ countdown' = IF mode = "running" THEN countdown - 1 ELSE countdown
  /\ UNCHANGED << mode, cachedData, row, file, writing, remote, apiUp, served, rowFailed >>

Init ==
  /\ mode = "down"
  /\ cachedData = None /\ row = None /\ file = None
  /\ writing = "nothing"
  /\ fetches = {}
  /\ countdown = SyncEvery
  /\ remote \in 0 .. MaxVersion
  /\ apiUp \in BOOLEAN
  /\ served = None
  /\ rowFailed = FALSE

Write == \E succeeds \in BOOLEAN :
  WriteRow(succeeds) \/ OpenFile(succeeds) \/ FinishFile(succeeds)

Next ==
  \/ \E readable \in BOOLEAN : Start(readable)
  \/ Stop
  \/ Crash
  \/ IntervalFires
  \/ \E f \in fetches : Answer(f) \/ FetchFails(f) \/ Received(f)
  \/ Write
  \/ GetCoverage
  \/ RemoteGrows
  \/ ApiChanges
  \/ Tick

\* The event loop runs what is due, and MeshMapper answers while it is up.
\* Nothing makes MeshMapper come up or the process be started.
Fairness ==
  /\ WF_vars(IntervalFires)
  /\ WF_vars(\E f \in fetches : apiUp /\ Answer(f))
  /\ WF_vars(\E f \in fetches : Received(f))
  /\ WF_vars(\E f \in fetches : f.left = 0 /\ FetchFails(f))
  /\ WF_vars(Write)
  /\ WF_vars(Tick)

Spec == Init /\ [][Next]_vars /\ Fairness

-----------------------------------------------------------------------------
(* Properties.                                                             *)

TypeOK ==
  /\ mode \in {"running", "stopped", "down"}
  /\ {cachedData, row, remote, served} \subseteq 0 .. MaxVersion
  /\ file \in 0 .. MaxVersion \cup {Torn}
  /\ writing \in {"nothing", "row", "file", "rest"}
  /\ fetches \subseteq [left : 0 .. FetchTimeout, answer : 0 .. MaxVersion]
  /\ countdown \in 0 .. SyncEvery
  /\ apiUp \in BOOLEAN /\ rowFailed \in BOOLEAN

\* No dashboard is shown older coverage than one was shown before, across
\* restarts and kills in the middle of a write too, unless the table could
\* not be accessed: loadInitialCache must prefer the cache written first.
ServedIsKept == mode # "down" /\ ~rowFailed => cachedData >= served

\* Coverage in an intact file is served from the start, whatever became of
\* the table.
IntactFileIsUsed == mode # "down" /\ file \in Version => cachedData # None

\* While the process runs the coverage never goes back.  sync keeps what it
\* receives without comparing; it is the timeout of a fetch, shorter than
\* the interval, that keeps answers from overtaking each other.
CacheNeverGoesBack ==
  [][mode # "down" /\ mode' # "down" => cachedData' >= cachedData]_cachedData

\* If from some time on the service runs and MeshMapper answers, then from
\* some time on the cache is what MeshMapper serves, whatever failed before.
CacheCatchesUp ==
  <>[](mode = "running" /\ apiUp) => <>[](cachedData = remote)
=============================================================================
