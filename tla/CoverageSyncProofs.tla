-------------------------- MODULE CoverageSyncProofs --------------------------
(***************************************************************************)
(* Theorems about the coverage synchronisation, for every number of        *)
(* versions and every interval longer than the timeout of a fetch.         *)
(***************************************************************************)
EXTENDS CoverageSync, TLAPS

-----------------------------------------------------------------------------
(* The inductive invariant.                                                *)

\* A fetch is as old as the time since the interval last fired, so that it
\* has ended when the interval fires again: there is at most one.
OneFetch ==
  /\ mode = "running" =>
       \A f \in fetches : countdown - f.left = SyncEvery - FetchTimeout
  /\ \A f, g \in fetches : f = g

\* Nothing is newer than MeshMapper, and an answer on its way is not older
\* than what is cached or was shown.
NothingAhead ==
  /\ cachedData <= remote /\ row <= remote /\ served <= remote
  /\ file # Torn => file <= remote
  /\ \A f \in fetches :
       /\ f.answer <= remote
       /\ f.answer # None => f.answer >= cachedData /\ f.answer >= served

\* Without a process nothing is under way.
DownIsQuiet == mode = "down" => writing = "nothing" /\ fetches = {}

\* Unless the table failed, the row is what is cached, but for the step in
\* which it is written, and not older than what was shown; the file is
\* written after the row.
RowIsCurrent ==
  /\ ~rowFailed =>
       /\ row >= served
       /\ row = None => file = None
       /\ mode # "down" /\ writing # "row" => row = cachedData
  /\ writing # "nothing" => cachedData # None /\ cachedData >= served
  /\ writing = "row" /\ ~rowFailed => cachedData >= row

IInv ==
  /\ TypeOK
  /\ OneFetch
  /\ NothingAhead
  /\ DownIsQuiet
  /\ RowIsCurrent
  /\ IntactFileIsUsed
-----------------------------------------------------------------------------
(* It holds at first, and the steps that start, end or answer a fetch, the *)
(* writes and the passing of time keep it.                                 *)

\* Nothing was fetched, kept or shown yet.
LEMMA InitInv == Init => IInv
<1> SUFFICES ASSUME Init PROVE IInv
  OBVIOUS
<1> USE TimeoutAssumption, TornAssumption DEF Init, None, Version
<1>1. TypeOK
  <2>1. {cachedData, row, remote, served} \subseteq 0 .. MaxVersion
    OBVIOUS
  <2>2. file \in 0 .. MaxVersion \cup {Torn} /\ countdown \in 0 .. SyncEvery
    OBVIOUS
  <2> QED BY <2>1, <2>2 DEF TypeOK
<1>2. OneFetch /\ NothingAhead
  BY DEF OneFetch, NothingAhead
<1>3. DownIsQuiet /\ RowIsCurrent /\ IntactFileIsUsed
  BY DEF DownIsQuiet, RowIsCurrent, IntactFileIsUsed
<1> QED BY <1>1, <1>2, <1>3 DEF IInv

\* What is loaded is the row, if it can be read, and otherwise a file that
\* is not torn, and therefore a version of MeshMapper in either case.
LEMMA InitialCacheIsKept ==
  ASSUME TypeOK, NEW readable \in BOOLEAN
  PROVE  /\ InitialCache(readable) \in 0 .. MaxVersion
         /\ InitialCache(readable) \in {row, file, None}
         /\ InitialCache(readable) = file => file # Torn
         /\ file \in Version => InitialCache(readable) # None
         /\ readable /\ (row = None => file = None) => InitialCache(readable) = row
BY TornAssumption DEF TypeOK, InitialCache, None, Version

\* A start takes what is loaded and begins the only fetch.
LEMMA StartKeeps ==
  ASSUME IInv, NEW readable \in BOOLEAN, Start(readable)
  PROVE  IInv'
<1> USE TimeoutAssumption, TornAssumption DEF IInv, Start, None, Version
<1>1. /\ cachedData' \in 0 .. MaxVersion
      /\ cachedData' \in {row, file, None}
      /\ cachedData' = file => file # Torn
      /\ file \in Version => cachedData' # None
      /\ readable /\ (row = None => file = None) => cachedData' = row
  BY InitialCacheIsKept
<1>2. fetches' = {[left |-> FetchTimeout, answer |-> 0]}
  BY DEF NewFetch, Deadline
<1>3. TypeOK'
  BY <1>1, <1>2 DEF TypeOK
<1>4. OneFetch'
  BY <1>2 DEF OneFetch
<1>5. NothingAhead'
  BY <1>1, <1>2 DEF NothingAhead, TypeOK
<1>6. DownIsQuiet' /\ RowIsCurrent'
  BY <1>1 DEF DownIsQuiet, RowIsCurrent, TypeOK
<1>7. IntactFileIsUsed'
  BY <1>1 DEF IntactFileIsUsed
<1> QED BY <1>3, <1>4, <1>5, <1>6, <1>7

\* No fetch is left when the interval fires: its time is up before.
LEMMA IntervalKeeps ==
  ASSUME IInv, IntervalFires
  PROVE  IInv'
<1> USE TimeoutAssumption, TornAssumption DEF IInv, IntervalFires, None, Version
<1>1. fetches = {}
  BY DEF OneFetch, TypeOK
<1>2. fetches' = {[left |-> FetchTimeout, answer |-> 0]}
  BY <1>1 DEF NewFetch, Deadline
<1>3. TypeOK'
  BY <1>2 DEF TypeOK
<1>4. OneFetch'
  BY <1>2 DEF OneFetch
<1>5. NothingAhead'
  BY <1>2 DEF NothingAhead, TypeOK
<1>6. DownIsQuiet' /\ RowIsCurrent' /\ IntactFileIsUsed'
  BY DEF DownIsQuiet, RowIsCurrent, IntactFileIsUsed, Idle
<1> QED BY <1>3, <1>4, <1>5, <1>6

\* An answer is what MeshMapper serves now, the newest there is.
LEMMA AnswerKeeps ==
  ASSUME IInv, NEW f \in fetches, Answer(f)
  PROVE  IInv'
<1> USE TimeoutAssumption, TornAssumption DEF IInv, Answer, None, Version
<1>1. fetches = {f}
  BY DEF OneFetch
<1>2. /\ fetches' = {[f EXCEPT !.answer = remote]}
      /\ \A g \in fetches' : g.answer = remote
  BY <1>1 DEF TypeOK
<1>3. TypeOK'
  BY <1>2 DEF TypeOK
<1>4. OneFetch'
  BY <1>2 DEF OneFetch, TypeOK
<1>5. NothingAhead'
  <2>1. {cachedData, served, remote} \subseteq Nat
    BY DEF TypeOK
  <2>2. \A g \in fetches' : g.answer <= remote /\ g.answer >= cachedData /\ g.answer >= served
    BY <1>2, <2>1 DEF NothingAhead
  <2>3. cachedData <= remote /\ row <= remote /\ served <= remote
    BY DEF NothingAhead
  <2>4. file # Torn => file <= remote
    BY DEF NothingAhead
  <2> QED BY <2>2, <2>3, <2>4 DEF NothingAhead
<1>6. DownIsQuiet' /\ RowIsCurrent' /\ IntactFileIsUsed'
  BY DEF DownIsQuiet, RowIsCurrent, IntactFileIsUsed
<1> QED BY <1>3, <1>4, <1>5, <1>6

\* A rejected fetch is forgotten and nothing else changes.
LEMMA FetchFailsKeeps ==
  ASSUME IInv, NEW f \in fetches, FetchFails(f)
  PROVE  IInv'
<1> USE DEF IInv, FetchFails
<1>1. TypeOK'
  BY DEF TypeOK
<1>2. OneFetch' /\ NothingAhead'
  BY DEF OneFetch, NothingAhead
<1>3. DownIsQuiet' /\ RowIsCurrent' /\ IntactFileIsUsed'
  BY DEF DownIsQuiet, RowIsCurrent, IntactFileIsUsed, Idle
<1> QED BY <1>1, <1>2, <1>3

\* The answer is kept without a comparison; it is the only fetch, and not
\* older than what is cached.
LEMMA ReceivedKeeps ==
  ASSUME IInv, NEW f \in fetches, Received(f)
  PROVE  IInv' /\ cachedData' >= cachedData
<1> USE TimeoutAssumption, TornAssumption DEF IInv, Received, None, Version
<1>1. fetches' = {}
  BY DEF OneFetch
<1>2. /\ f.answer \in 0 .. MaxVersion /\ f.answer <= remote
      /\ f.answer >= cachedData /\ f.answer >= served
  BY DEF NothingAhead, TypeOK
<1>3. TypeOK'
  BY <1>1, <1>2 DEF TypeOK
<1>4. OneFetch' /\ NothingAhead'
  BY <1>1, <1>2 DEF OneFetch, NothingAhead
<1>5. DownIsQuiet' /\ IntactFileIsUsed'
  BY <1>2 DEF DownIsQuiet, IntactFileIsUsed, Idle
<1>6. RowIsCurrent'
  BY <1>2 DEF RowIsCurrent, Idle, TypeOK
<1> QED BY <1>2, <1>3, <1>4, <1>5, <1>6

\* The row is written before the file, so a torn file is never alone.
LEMMA WriteKeeps ==
  ASSUME IInv, Write
  PROVE  IInv'
<1> USE TimeoutAssumption, TornAssumption DEF IInv, None, Version
<1>1. PICK succeeds \in BOOLEAN :
        WriteRow(succeeds) \/ OpenFile(succeeds) \/ FinishFile(succeeds)
  BY DEF Write
<1>2. CASE WriteRow(succeeds)
  <2> USE <1>2 DEF WriteRow
  <2>1. TypeOK' /\ OneFetch' /\ DownIsQuiet' /\ IntactFileIsUsed'
    BY DEF TypeOK, OneFetch, DownIsQuiet, IntactFileIsUsed
  <2>2. NothingAhead'
    BY DEF NothingAhead
  <2>3. RowIsCurrent'
    BY DEF RowIsCurrent, TypeOK
  <2> QED BY <2>1, <2>2, <2>3
<1>3. CASE OpenFile(succeeds) \/ FinishFile(succeeds)
  <2> USE <1>3 DEF OpenFile, FinishFile
  <2>1. TypeOK'
    BY DEF TypeOK
  <2>2. OneFetch' /\ NothingAhead' /\ DownIsQuiet'
    BY DEF OneFetch, NothingAhead, DownIsQuiet
  <2>3. IntactFileIsUsed' /\ RowIsCurrent'
    BY DEF IntactFileIsUsed, DownIsQuiet, RowIsCurrent, TypeOK
  <2> QED BY <2>1, <2>2, <2>3
<1> QED BY <1>1, <1>2, <1>3

\* What a request reads is in the row, unless the table failed.
LEMMA GetCoverageKeeps ==
  ASSUME IInv, GetCoverage
  PROVE  IInv'
<1> USE TimeoutAssumption, TornAssumption DEF IInv, GetCoverage
<1>1. TypeOK' /\ OneFetch' /\ DownIsQuiet' /\ IntactFileIsUsed'
  BY DEF TypeOK, OneFetch, DownIsQuiet, IntactFileIsUsed
<1>2. NothingAhead'
  BY DEF NothingAhead
<1>3. RowIsCurrent'
  BY DEF RowIsCurrent, Idle, TypeOK
<1> QED BY <1>1, <1>2, <1>3

\* The interval and the fetch grow older together.
LEMMA TickKeeps ==
  ASSUME IInv, Tick
  PROVE  IInv'
<1> USE TimeoutAssumption, TornAssumption DEF IInv, Tick
<1>1. \A g \in fetches' : \E f \in fetches :
        /\ g = [f EXCEPT !.left = f.left - 1]
        /\ f.left > 0 /\ f \in [left : 0 .. FetchTimeout, answer : 0 .. MaxVersion]
  BY DEF TypeOK
<1>2. \A g \in fetches' : \E f \in fetches :
        /\ g \in [left : 0 .. FetchTimeout, answer : 0 .. MaxVersion]
        /\ g.left = f.left - 1 /\ g.answer = f.answer
  BY <1>1
<1>3. TypeOK'
  BY <1>2 DEF TypeOK
<1>4. OneFetch'
  <2>1. mode' = "running" =>
          \A g \in fetches' : countdown' - g.left = SyncEvery - FetchTimeout
    BY <1>2 DEF OneFetch, TypeOK
  <2>2. \A g, h \in fetches' : g = h
    BY <1>1 DEF OneFetch
  <2> QED BY <2>1, <2>2 DEF OneFetch
<1>5. NothingAhead'
  BY <1>2 DEF NothingAhead
<1>6. DownIsQuiet' /\ RowIsCurrent' /\ IntactFileIsUsed'
  BY DEF DownIsQuiet, RowIsCurrent, IntactFileIsUsed, Idle
<1> QED BY <1>3, <1>4, <1>5, <1>6

-----------------------------------------------------------------------------
(* Every step, and the theorems.                                           *)

\* Every step keeps the invariant, and none takes the cache of a running
\* process back.
LEMMA StepKeeps ==
  ASSUME IInv, [Next]_vars
  PROVE  /\ IInv'
         /\ mode # "down" /\ mode' # "down" => cachedData' >= cachedData
<1>1. CASE \E readable \in BOOLEAN : Start(readable)
  BY <1>1, StartKeeps DEF Start
<1>2. CASE Stop
  BY <1>2 DEF Stop, IInv, TypeOK, OneFetch, NothingAhead, DownIsQuiet,
     RowIsCurrent, IntactFileIsUsed
<1>3. CASE Crash
  BY <1>3, TornAssumption DEF Crash, IInv, TypeOK, OneFetch, NothingAhead, DownIsQuiet,
     RowIsCurrent, IntactFileIsUsed, None
<1>4. CASE IntervalFires
  BY <1>4, IntervalKeeps DEF IntervalFires, IInv, TypeOK
<1>5. CASE \E f \in fetches : Answer(f) \/ FetchFails(f) \/ Received(f)
  BY <1>5, AnswerKeeps, FetchFailsKeeps, ReceivedKeeps
     DEF Answer, FetchFails, IInv, TypeOK
<1>6. CASE Write
  BY <1>6, WriteKeeps DEF Write, WriteRow, OpenFile, FinishFile, IInv, TypeOK
<1>7. CASE GetCoverage
  BY <1>7, GetCoverageKeeps DEF GetCoverage, IInv, TypeOK
<1>8. CASE RemoteGrows
  BY <1>8, TornAssumption DEF RemoteGrows, IInv, TypeOK, OneFetch, NothingAhead, DownIsQuiet,
     RowIsCurrent, IntactFileIsUsed
<1>9. CASE ApiChanges
  BY <1>9 DEF ApiChanges, IInv, TypeOK, OneFetch, NothingAhead, DownIsQuiet,
     RowIsCurrent, IntactFileIsUsed
<1>10. CASE Tick
  BY <1>10, TickKeeps DEF Tick, IInv, TypeOK
<1>11. CASE UNCHANGED vars
  BY <1>11 DEF vars, IInv, TypeOK, OneFetch, NothingAhead, DownIsQuiet,
     RowIsCurrent, IntactFileIsUsed
<1> QED BY <1>1, <1>2, <1>3, <1>4, <1>5, <1>6, <1>7, <1>8, <1>9, <1>10, <1>11 DEF Next

\* At most one fetch is under way, nothing is newer than MeshMapper and the
\* row is what is cached unless the table failed, in every behaviour.
THEOREM SyncInvariant == Spec => []IInv
<1>1. IInv /\ [Next]_vars => IInv'
  BY StepKeeps
<1> QED BY InitInv, <1>1, PTL DEF Spec

\* The caches only ever hold versions of MeshMapper, or a torn file, and the
\* interval's countdown stays within the interval.
THEOREM TypesAreKept == Spec => []TypeOK
<1>1. IInv => TypeOK
  BY DEF IInv
<1> QED BY SyncInvariant, <1>1, PTL

\* No dashboard is shown older coverage than before, across restarts and
\* kills in the middle of a write, while the table can be accessed.
THEOREM CoverageIsKept == Spec => []ServedIsKept
<1>1. IInv => ServedIsKept
  <2> SUFFICES ASSUME IInv, mode # "down", ~rowFailed
               PROVE  cachedData >= served
    BY DEF ServedIsKept
  <2> USE TornAssumption DEF IInv
  <2>1. CASE writing = "row"
    BY <2>1 DEF RowIsCurrent
  <2>2. CASE writing # "row"
    BY <2>2 DEF RowIsCurrent
  <2> QED BY <2>1, <2>2
<1> QED BY SyncInvariant, <1>1, PTL

\* Coverage in an intact file is served from the start.
THEOREM IntactFileCounts == Spec => []IntactFileIsUsed
<1>1. IInv => IntactFileIsUsed
  BY DEF IInv
<1> QED BY SyncInvariant, <1>1, PTL

\* While the process runs, no sync takes the coverage back, although none
\* compares what it receives with what it has.
THEOREM NoAnswerOvertakes == Spec => CacheNeverGoesBack
<1>1. IInv /\ [Next]_vars =>
        [mode # "down" /\ mode' # "down" => cachedData' >= cachedData]_cachedData
  BY StepKeeps
<1> QED BY SyncInvariant, <1>1, PTL DEF Spec, CacheNeverGoesBack
=============================================================================
