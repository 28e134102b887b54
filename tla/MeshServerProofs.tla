-------------------------- MODULE MeshServerProofs ---------------------------
(***************************************************************************)
(* Theorems about the server, for every fleet of nodes and observers,      *)
(* every interval, age limit and time zone, whatever is published and      *)
(* posted, with any number of failing writes and across restarts.          *)
(*                                                                         *)
(* In this order: refreshed boards are recent; induction, and what         *)
(* recursive functions and folds compute; types; packets are read as they  *)
(* were sent; score and alerts agree; boards and graph agree with the      *)
(* listing.                                                                *)
(***************************************************************************)
EXTENDS MeshServer, FiniteSetTheorems, SequenceTheorems, WellFoundedInduction, TLAPS

-----------------------------------------------------------------------------
(* The inductive invariant.                                                *)

\* While the server serves, the interval fires next within its length.
IntervalIsAhead ==
  /\ now \in Int
  /\ phase = "serving" => refreshAt \in Int /\ refreshAt - REFRESH <= now /\ now <= refreshAt

\* A row holds a time or nothing.
RowsHoldTimes == cache \in [Rows -> Int \cup {NULL}]

\* A refreshed row is as old as the interval has run, or younger, unless its
\* last write failed.
RowsFollowInterval ==
  phase = "serving" /\ refreshed =>
    \A row \in Rows \ unsaved : cache[row] \in Int /\ cache[row] >= refreshAt - REFRESH

\* What a life of the process refreshed is forgotten when it ends.
DownIsForgetful == phase = "down" => ~refreshed

\* All of it.
IInv == IntervalIsAhead /\ RowsHoldTimes /\ RowsFollowInterval /\ DownIsForgetful

-----------------------------------------------------------------------------
(* It holds at first, and steps of the cache, the clock and the process    *)
(* keep it.  The packets have no part in it.                               *)

\* The server is down and nothing is cached.
LEMMA InitInv == Init => IInv
BY ClockAssumption
   DEF Init, IInv, IntervalIsAhead, RowsHoldTimes, RowsFollowInterval, DownIsForgetful

\* Messages, posts, shutdown and exit: rows, clock and a running interval
\* stay as they are.
LEMMA ElsewhereKeeps ==
  ASSUME IInv, UNCHANGED << now, cache, unsaved >>,
         \/ UNCHANGED << phase, refreshAt, refreshed >>
         \/ phase' # "serving" /\ (phase' = "down" => ~refreshed')
  PROVE  IInv'
BY DEF IInv, IntervalIsAhead, RowsHoldTimes, RowsFollowInterval, DownIsForgetful

\* Rows take the present, which is not before the interval last fired.
LEMMA SavedHoldsTimes ==
  ASSUME IInv, NEW R, NEW failed, cache' = Saved(R, failed)
  PROVE  RowsHoldTimes'
BY DEF IInv, IntervalIsAhead, RowsHoldTimes, Saved

\* A request for a board writes one row, or leaves it marked.
LEMMA GetBoardKeeps ==
  ASSUME IInv, NEW row \in Rows, NEW written \in BOOLEAN, GetBoard(row, written)
  PROVE  IInv'
<1> DEFINE failed == IF written THEN {} ELSE {row}
<1>1. /\ UNCHANGED << now, phase, refreshAt, refreshed >>
      /\ cache' = Saved({row}, failed)
      /\ unsaved' = (unsaved \ {row}) \cup failed
  BY DEF GetBoard
<1>2. IntervalIsAhead'
  BY <1>1 DEF IInv, IntervalIsAhead
<1>3. RowsHoldTimes'
  BY <1>1, SavedHoldsTimes
<1>4. RowsFollowInterval'
  <2> SUFFICES ASSUME phase = "serving", refreshed, NEW r \in Rows, r \notin unsaved'
               PROVE  cache'[r] \in Int /\ cache'[r] >= refreshAt - REFRESH
    BY <1>1 DEF RowsFollowInterval
  <2>1. CASE r = row
    <3>1. failed = {}
      BY <1>1, <2>1
    <3>2. cache'[r] = now
      BY <1>1, <2>1, <3>1 DEF Saved
    <3> QED BY <3>2 DEF IInv, IntervalIsAhead
  <2>2. CASE r # row
    <3>1. cache'[r] = cache[r] /\ r \notin unsaved
      BY <1>1, <2>2 DEF Saved
    <3> QED BY <3>1 DEF IInv, RowsFollowInterval
  <2> QED BY <2>1, <2>2
<1> QED BY <1>1, <1>2, <1>3, <1>4 DEF IInv, DownIsForgetful

\* The interval fires: all rows take the present, but for those that fail.
LEMMA RefreshAllKeeps ==
  ASSUME IInv, NEW failed, RefreshAll(failed)
  PROVE  IInv'
<1>1. /\ phase = "serving" /\ phase' = phase /\ now' = now
      /\ refreshAt' = now + REFRESH
      /\ cache' = Saved(Rows, failed) /\ unsaved' = failed
  BY DEF RefreshAll, RowsRefreshed
<1>2. IntervalIsAhead'
  BY <1>1, ClockAssumption DEF IInv, IntervalIsAhead
<1>3. RowsHoldTimes'
  BY <1>1, SavedHoldsTimes
<1>4. ASSUME NEW r \in Rows \ unsaved'
      PROVE  cache'[r] \in Int /\ cache'[r] >= refreshAt' - REFRESH'
  <2>1. cache'[r] = now
    BY <1>1, <1>4 DEF Saved
  <2> QED BY <1>1, <2>1, ClockAssumption DEF IInv, IntervalIsAhead
<1> QED BY <1>1, <1>2, <1>3, <1>4 DEF IInv, RowsFollowInterval, DownIsForgetful

\* A boot starts the interval; nothing is refreshed in this life yet.
LEMMA BootKeeps ==
  ASSUME IInv, Boot
  PROVE  IInv'
BY ClockAssumption
   DEF Boot, stores, IInv, IntervalIsAhead, RowsHoldTimes, RowsFollowInterval,
       DownIsForgetful

\* The clock does not pass the moment at which the interval fires.
LEMMA TickKeeps ==
  ASSUME IInv, Tick
  PROVE  IInv'
BY ClockAssumption
   DEF Tick, stores, IInv, IntervalIsAhead, RowsHoldTimes, RowsFollowInterval,
       DownIsForgetful

\* Every step keeps it.
LEMMA StepKeeps == IInv /\ [Next]_vars => IInv'
<1> SUFFICES ASSUME IInv, [Next]_vars PROVE IInv'
  OBVIOUS
<1>1. ASSUME NEW bytes, NEW o, NEW meant, HandlePacket(bytes, o, meant) PROVE IInv'
  BY <1>1, ElsewhereKeeps DEF HandlePacket
<1>2. ASSUME NEW o, NEW status, HandleStatus(o, status) PROVE IInv'
  BY <1>2, ElsewhereKeeps DEF HandleStatus
<1>3. ASSUME NEW body, NEW timestamp, Post(body, timestamp) PROVE IInv'
  BY <1>3, ElsewhereKeeps DEF Post
<1>4. CASE Boot
  BY <1>4, BootKeeps
<1>5. CASE Signal \/ SocketsClosed \/ HttpClosed \/ Crash
  BY <1>5, ElsewhereKeeps DEF Signal, SocketsClosed, HttpClosed, Crash, Exit
<1>6. CASE UNCHANGED vars
  BY <1>6, ElsewhereKeeps DEF vars
<1>7. ASSUME NEW type, NEW source, NEW dest, NEW content, NEW o,
             Publish(type, source, dest, content, o)
      PROVE  IInv'
  BY <1>1, <1>7 DEF Publish
<1> QED
  BY <1>1, <1>2, <1>3, <1>4, <1>5, <1>6, <1>7, GetBoardKeeps, RefreshAllKeeps, TickKeeps, Zenon
  DEF Next

-----------------------------------------------------------------------------
\* A row whose last write succeeded is no older than the interval once this
\* life of the process has refreshed it: refreshAll and getLeaderboard,
\* restarts, failing writes and a shutdown at any moment included.
THEOREM CachedBoardsAreRecent == Spec => []CachedBoardIsRecent
<1>1. IInv => CachedBoardIsRecent
  BY ClockAssumption
     DEF CachedBoardIsRecent, IInv, IntervalIsAhead, RowsHoldTimes, RowsFollowInterval
<1>2. IInv /\ [Next]_vars => IInv'
  BY StepKeeps
<1> QED BY InitInv, <1>1, <1>2, PTL DEF Spec

-----------------------------------------------------------------------------
(* Induction.                                                              *)

\* Every set of natural numbers that is not empty has a least one.
LEMMA LeastNumber ==
  ASSUME NEW S, S \subseteq Nat, S # {}
  PROVE  \E n \in S : \A m \in S : n <= m
<1>1. PICK n \in S : \A m \in S : ~(<< m, n >> \in OpToRel(<, Nat))
  BY NatLessThanWellFounded, WFMin
<1>2. \A m \in S : ~(m < n)
  BY <1>1 DEF OpToRel
<1> QED BY <1>2

\* A set with 0 and with the successor of each of its numbers has them all.
LEMMA SetInduction ==
  ASSUME NEW S, 0 \in S, \A n \in Nat : n \in S => n + 1 \in S
  PROVE  \A n \in Nat : n \in S
<1> SUFFICES ASSUME NEW k \in Nat, k \notin S PROVE FALSE
  OBVIOUS
<1>1. PICK n \in Nat \ S : \A m \in Nat \ S : n <= m
  <2> DEFINE T == Nat \ S
  <2>1. T \subseteq Nat /\ T # {}
    OBVIOUS
  <2> HIDE DEF T
  <2>2. \E n \in T : \A m \in T : n <= m
    BY <2>1, LeastNumber
  <2> QED BY <2>2 DEF T
<1> QED BY <1>1, n - 1 \in Nat \/ n = 0

\* The same, up to a bound.
LEMMA BoundedInduction ==
  ASSUME NEW N \in Nat, NEW S, 0 \in S, \A n \in 1 .. N : n - 1 \in S => n \in S
  PROVE  \A n \in 0 .. N : n \in S
<1> DEFINE T == {n \in Nat : n <= N => n \in S}
<1>1. 0 \in T
  OBVIOUS
<1>2. \A n \in Nat : n \in T => n + 1 \in T
  OBVIOUS
<1> HIDE DEF T
<1>3. \A n \in Nat : n \in T
  BY <1>1, <1>2, SetInduction
<1> QED BY <1>3 DEF T

\* f starts with b, and each step gives a value from the one before.
Follows(f, b, step, N) == f[0] = b /\ \A n \in 1 .. N : f[n] = step[n][f[n - 1]]

\* A function can be given by its first value and by the step from each value
\* to the next.
LEMMA Recursion ==
  ASSUME NEW T, NEW b \in T, NEW N \in Nat, NEW step \in [1 .. N -> [T -> T]]
  PROVE  \E f \in [0 .. N -> T] : Follows(f, b, step, N)
<1> DEFINE Good(k, f) == Follows(f, b, step, k)
           S == {k \in 0 .. N : \E f \in [0 .. k -> T] : Good(k, f)}
<1>1. 0 \in S
  <2> DEFINE f == [m \in 0 .. 0 |-> b]
  <2>1. f \in [0 .. 0 -> T] /\ f[0] = b
    OBVIOUS
  <2>2. Good(0, f)
    BY <2>1, 1 .. 0 = {} DEF Follows
  <2> HIDE DEF f, Good
  <2> QED BY <2>1, <2>2
<1>2. ASSUME NEW k \in 1 .. N, k - 1 \in S PROVE k \in S
  <2>1. PICK f \in [0 .. k - 1 -> T] : Good(k - 1, f)
    BY <1>2
  <2> DEFINE g == [m \in 0 .. k |-> IF m = k THEN step[k][f[k - 1]] ELSE f[m]]
  <2>2. g \in [0 .. k -> T]
    OBVIOUS
  <2>3. g[0] = b
    BY <2>1 DEF Follows
  <2>4. ASSUME NEW n \in 1 .. k PROVE g[n] = step[n][g[n - 1]]
    <3>1. n - 1 \in 0 .. k /\ n \in 0 .. k /\ n - 1 # k
      OBVIOUS
    <3>2. g[n - 1] = f[n - 1]
      BY <3>1
    <3>3. CASE n = k
      <4>1. g[k] = step[k][f[k - 1]]
        OBVIOUS
      <4> HIDE DEF g
      <4> QED BY <4>1, <3>2, <3>3
    <3>4. CASE n # k
      <4>1. n \in 1 .. k - 1
        BY <3>4
      <4>2. f[n] = step[n][f[n - 1]]
        BY <4>1, <2>1 DEF Follows
      <4>3. g[n] = f[n]
        BY <3>1, <3>4
      <4> HIDE DEF g
      <4> QED BY <4>2, <4>3, <3>2
    <3> QED BY <3>3, <3>4
  <2>5. Good(k, g)
    BY <2>3, <2>4 DEF Follows
  <2> HIDE DEF Good, g
  <2> QED BY <2>2, <2>5
<1> HIDE DEF S
<1>3. \A k \in 0 .. N : k \in S
  BY <1>1, <1>2, BoundedInduction
<1>4. N \in S
  BY <1>3
<1> QED BY <1>4 DEF S

\* A finite set has subsets of every size up to its own.
LEMMA SubsetOfSize ==
  ASSUME NEW S, IsFiniteSet(S), NEW n \in 0 .. Cardinality(S)
  PROVE  \E U \in SUBSET S : Cardinality(U) = n
<1> DEFINE N == Cardinality(S)
           P == {k \in 0 .. N : \E U \in SUBSET S : Cardinality(U) = k}
<1>0. N \in Nat
  BY FS_CardinalityType
<1>1. 0 \in P
  BY <1>0, FS_EmptySet
<1>2. ASSUME NEW k \in 1 .. N, k - 1 \in P PROVE k \in P
  <2>1. PICK U \in SUBSET S : Cardinality(U) = k - 1
    BY <1>2
  <2>2. IsFiniteSet(U) /\ U # S
    BY <2>1, <1>0, FS_Subset
  <2>3. PICK x \in S : x \notin U
    BY <2>2
  <2>4. Cardinality(U \cup {x}) = k
    BY <2>1, <2>2, <2>3, FS_AddElement
  <2> QED BY <2>3, <2>4
<1> HIDE DEF P
<1>3. \A k \in 0 .. N : k \in P
  BY <1>0, <1>1, <1>2, BoundedInduction
<1> QED BY <1>3 DEF P

\* f has the picked elements of each beginning of s.
Picks(f, s, I) ==
  /\ f[0] = << >> /\ Picked(s, I) = f[Len(s)]
  /\ \A n \in 1 .. Len(s) : f[n] = IF n \in I THEN Append(f[n - 1], s[n]) ELSE f[n - 1]

\* That is what Picked computes by recursion.
LEMMA PickedRecursion ==
  ASSUME NEW S, NEW s \in Seq(S), NEW I
  PROVE  \E f \in [0 .. Len(s) -> Seq(S)] : Picks(f, s, I)
<1> DEFINE N == Len(s)
           step == [n \in 1 .. N |-> [t \in Seq(S) |->
                      IF n \in I THEN Append(t, s[n]) ELSE t]]
           Eq(f) == f = [n \in 0 .. N |->
                          IF n = 0 THEN << >>
                          ELSE IF n \in I THEN Append(f[n - 1], s[n]) ELSE f[n - 1]]
<1>0. N \in Nat /\ \A n \in 1 .. N : s[n] \in S
  OBVIOUS
<1>1. step \in [1 .. N -> [Seq(S) -> Seq(S)]]
  <2> SUFFICES ASSUME NEW n \in 1 .. N, NEW t \in Seq(S)
               PROVE  (IF n \in I THEN Append(t, s[n]) ELSE t) \in Seq(S)
    OBVIOUS
  <2> QED BY <1>0
<1>2. << >> \in Seq(S)
  OBVIOUS
<1>3. PICK f \in [0 .. N -> Seq(S)] :
        f[0] = << >> /\ \A n \in 1 .. N : f[n] = step[n][f[n - 1]]
  <2> DEFINE T == Seq(S)
             b == << >>
  <2>1. N \in Nat /\ b \in T /\ step \in [1 .. N -> [T -> T]]
    BY <1>0, <1>1
  <2> HIDE DEF N, step, T, b
  <2>2. \E g \in [0 .. N -> T] : Follows(g, b, step, N)
    BY <2>1, Recursion
  <2> QED BY <2>2 DEF T, b, Follows
<1> HIDE DEF N
<1>4. \A n \in 1 .. N : f[n - 1] \in Seq(S)
  BY <1>0
<1>5. \A n \in 1 .. N : f[n] = IF n \in I THEN Append(f[n - 1], s[n]) ELSE f[n - 1]
  BY <1>3, <1>4
<1>6. Eq(f)
  <2> DEFINE g == [n \in 0 .. N |->
                     IF n = 0 THEN << >>
                     ELSE IF n \in I THEN Append(f[n - 1], s[n]) ELSE f[n - 1]]
  <2>1. \A n \in 0 .. N : f[n] = g[n]
    <3> SUFFICES ASSUME NEW n \in 0 .. N PROVE f[n] = g[n]
      OBVIOUS
    <3>1. CASE n = 0
      BY <3>1, <1>3
    <3>2. CASE n # 0
      <4>1. n \in 1 .. N
        BY <3>2, <1>0
      <4>2. f[n] = IF n \in I THEN Append(f[n - 1], s[n]) ELSE f[n - 1]
        BY <4>1, <1>5
      <4>3. g[n] = IF n \in I THEN Append(f[n - 1], s[n]) ELSE f[n - 1]
        BY <3>2, Zenon
      <4> QED BY <4>2, <4>3, Zenon
    <3> QED BY <3>1, <3>2
  <2>2. DOMAIN f = DOMAIN g /\ f = [n \in DOMAIN f |-> f[n]] /\ g = [n \in DOMAIN g |-> g[n]]
    OBVIOUS
  <2> QED BY <2>1, <2>2, Zenon
<1> DEFINE kept == CHOOSE f_1 : Eq(f_1)
<1>7. Eq(kept)
  BY <1>6
<1>10. Picked(s, I) = kept[N]
  BY DEF Picked, N
<1> HIDE DEF kept, step
<1>8. DOMAIN kept = 0 .. N /\ kept[0] = << >>
  BY <1>7, <1>0
<1>9. ASSUME NEW n \in 1 .. N
      PROVE  kept[n] = IF n \in I THEN Append(kept[n - 1], s[n]) ELSE kept[n - 1]
  <2>1. n \in 0 .. N /\ n # 0
    BY <1>0
  <2> QED BY <2>1, <1>7, Zenon
<1> HIDE DEF Eq
<1>11. \A n \in 0 .. N : kept[n] \in Seq(S)
  <2> DEFINE P == {n \in 0 .. N : kept[n] \in Seq(S)}
  <2>1. 0 \in P
    <3>1. 0 \in 0 .. N
      BY <1>0
    <3> QED BY <3>1, <1>2, <1>8, Zenon
  <2>2. ASSUME NEW n \in 1 .. N, n - 1 \in P PROVE n \in P
    <3>1. n \in 0 .. N /\ s[n] \in S /\ kept[n - 1] \in Seq(S)
      BY <1>0, <2>2
    <3>2. Append(kept[n - 1], s[n]) \in Seq(S)
      BY <3>1
    <3>3. kept[n] \in Seq(S)
      BY <3>1, <3>2, <1>9, Zenon
    <3> QED BY <3>1, <3>3, Zenon
  <2> HIDE DEF P
  <2>3. \A n \in 0 .. N : n \in P
    BY <1>0, <2>1, <2>2, BoundedInduction
  <2> QED BY <2>3 DEF P
<1>12. kept \in [0 .. N -> Seq(S)]
  BY <1>7, <1>11 DEF Eq
<1>13. Picks(kept, s, I)
  BY <1>8, <1>9, <1>10 DEF N, Picks
<1> QED BY <1>12, <1>13 DEF N

\* Picked elements are elements at the places picked, as many, in order.
LEMMA PickedFacts ==
  ASSUME NEW S, NEW s \in Seq(S), NEW I \in SUBSET (1 .. Len(s))
  PROVE  /\ Picked(s, I) \in Seq(S)
         /\ IsFiniteSet(I) /\ Len(Picked(s, I)) = Cardinality(I)
         /\ \A k \in 1 .. Len(Picked(s, I)) : \E i \in I : Picked(s, I)[k] = s[i]
         /\ \A i \in I : \E k \in 1 .. Len(Picked(s, I)) : Picked(s, I)[k] = s[i]
<1> DEFINE N == Len(s)
           J(n) == I \cap (1 .. n)
<1>0. N \in Nat /\ \A n \in 1 .. N : s[n] \in S
  OBVIOUS
<1>10. PICK f \in [0 .. Len(s) -> Seq(S)] : Picks(f, s, I)
  BY PickedRecursion
<1>1. /\ f \in [0 .. N -> Seq(S)] /\ f[0] = << >> /\ Picked(s, I) = f[N]
      /\ \A n \in 1 .. N : f[n] = IF n \in I THEN Append(f[n - 1], s[n]) ELSE f[n - 1]
  BY <1>10 DEF Picks
<1>7. I \subseteq 1 .. N
  OBVIOUS
<1> HIDE DEF N
<1> DEFINE Good(n) ==
             /\ IsFiniteSet(J(n)) /\ Len(f[n]) = Cardinality(J(n))
             /\ \A k \in 1 .. Len(f[n]) : \E i \in J(n) : f[n][k] = s[i]
             /\ \A i \in J(n) : \E k \in 1 .. Len(f[n]) : f[n][k] = s[i]
           P == {n \in 0 .. N : Good(n)}
<1>2. Good(0)
  <2>1. J(0) = {} /\ f[0] = << >>
    BY <1>1
  <2> QED BY <2>1, FS_EmptySet
<1>3. ASSUME NEW n \in 1 .. N, Good(n - 1) PROVE Good(n)
  <2>0. /\ f[n - 1] \in Seq(S) /\ Len(f[n - 1]) \in Nat
        /\ f[n] = IF n \in I THEN Append(f[n - 1], s[n]) ELSE f[n - 1]
    BY <1>0, <1>1
  <2>1. CASE n \in I
    <3>1. J(n) = J(n - 1) \cup {n} /\ n \notin J(n - 1)
      BY <2>1
    <3>2. IsFiniteSet(J(n)) /\ Cardinality(J(n)) = Cardinality(J(n - 1)) + 1
      <4>1. IsFiniteSet(J(n - 1))
        BY <1>3
      <4> HIDE DEF J
      <4> QED BY <3>1, <4>1, FS_AddElement
    <3>3. /\ f[n] = Append(f[n - 1], s[n]) /\ Len(f[n]) = Len(f[n - 1]) + 1
          /\ f[n][Len(f[n - 1]) + 1] = s[n]
          /\ \A k \in 1 .. Len(f[n - 1]) : f[n][k] = f[n - 1][k]
      BY <2>0, <2>1, <1>0
    <3>4. ASSUME NEW k \in 1 .. Len(f[n]) PROVE \E i \in J(n) : f[n][k] = s[i]
      <4>1. CASE k = Len(f[n - 1]) + 1
        BY <4>1, <3>3, <3>1
      <4>2. CASE k # Len(f[n - 1]) + 1
        <5>1. k \in 1 .. Len(f[n - 1])
          BY <4>2, <3>3, <2>0
        <5>2. PICK i \in J(n - 1) : f[n - 1][k] = s[i]
          BY <5>1, <1>3
        <5> QED BY <5>1, <5>2, <3>1, <3>3
      <4> QED BY <4>1, <4>2
    <3>5. ASSUME NEW i \in J(n) PROVE \E k \in 1 .. Len(f[n]) : f[n][k] = s[i]
      <4>1. CASE i = n
        <5>1. Len(f[n - 1]) + 1 \in 1 .. Len(f[n])
          BY <3>3, <2>0
        <5>2. f[n][Len(f[n - 1]) + 1] = s[i]
          BY <4>1, <3>3, Zenon
        <5> QED BY <5>1, <5>2, Zenon
      <4>2. CASE i # n
        <5>1. i \in J(n - 1)
          BY <4>2, <3>1
        <5>2. PICK k \in 1 .. Len(f[n - 1]) : f[n - 1][k] = s[i]
          BY <5>1, <1>3
        <5>3. k \in 1 .. Len(f[n])
          BY <3>3, <2>0
        <5>4. f[n][k] = s[i]
          BY <5>2, <3>3, Zenon
        <5> QED BY <5>3, <5>4, Zenon
      <4> QED BY <4>1, <4>2
    <3> QED BY <3>2, <3>3, <3>4, <3>5, <1>3
  <2>2. CASE n \notin I
    <3>1. J(n) = J(n - 1) /\ f[n] = f[n - 1]
      BY <2>0, <2>2
    <3> QED BY <3>1, <1>3
  <2> QED BY <2>1, <2>2
<1> HIDE DEF Good
<1>4. 0 \in P /\ \A n \in 1 .. N : n - 1 \in P => n \in P
  <2>1. 0 \in P
    BY <1>0, <1>2
  <2>2. ASSUME NEW n \in 1 .. N, n - 1 \in P PROVE n \in P
    BY <1>0, <1>3, <2>2
  <2> QED BY <2>1, <2>2
<1> HIDE DEF P
<1>5. \A n \in 0 .. N : n \in P
  BY <1>0, <1>4, BoundedInduction
<1>6. Good(N) /\ J(N) = I
  <2>1. N \in 0 .. N
    BY <1>0
  <2>2. J(N) = I
    BY <1>7, Zenon
  <2> QED BY <2>1, <2>2, <1>5 DEF P
<1>8. Picked(s, I) \in Seq(S)
  BY <1>0, <1>1
<1> HIDE DEF J
<1>9. /\ IsFiniteSet(I) /\ Len(f[N]) = Cardinality(I)
      /\ \A k \in 1 .. Len(f[N]) : \E i \in I : f[N][k] = s[i]
      /\ \A i \in I : \E k \in 1 .. Len(f[N]) : f[N][k] = s[i]
  BY <1>6, Zenon DEF Good
<1>11. Picked(s, I) = f[N]
  BY <1>1, Zenon
<1> QED BY <1>8, <1>9, <1>11, Zenon

\* A set of numbers up to a bound that is not empty has a greatest.
LEMMA MaxFacts ==
  ASSUME NEW N \in Nat, NEW s \in SUBSET (1 .. N), s # {}
  PROVE  Max(s) \in s /\ \A n \in s : Max(s) >= n
<1> DEFINE T == {N - n : n \in s}
<1>0. \A n \in s : n \in Int /\ N - n \in Nat
  OBVIOUS
<1>1. T \subseteq Nat /\ T # {}
  BY <1>0
<1>2. PICK m \in T : \A k \in T : m <= k
  <2> HIDE DEF T
  <2> QED BY <1>1, LeastNumber
<1>3. PICK x \in s : m = N - x
  BY <1>2
<1>4. \A n \in s : N - n \in T /\ n \in 1 .. N
  OBVIOUS
<1>5. ASSUME NEW n \in s PROVE x >= n
  <2>1. m <= N - n /\ n \in Int /\ x \in Int
    BY <1>0, <1>2, <1>4
  <2> QED BY <2>1, <1>3
<1> HIDE DEF T
<1> QED BY <1>3, <1>5 DEF Max

\* f folds every set of numbers, the greatest last.
FoldsSets(f, b, step, N) ==
  /\ f[{}] = b
  /\ \A s \in SUBSET (1 .. N) : s # {} => f[s] = step[Max(s)][f[s \ {Max(s)}]]

\* A fold over the places of a sequence, from the last to the first.
LEMMA FoldRecursion ==
  ASSUME NEW T, NEW b \in T, NEW N \in Nat, NEW step \in [1 .. N -> [T -> T]]
  PROVE  \E f \in [SUBSET (1 .. N) -> T] : FoldsSets(f, b, step, N)
<1> DEFINE U == SUBSET (1 .. N)
           V == [U -> T]
           first == [s \in U |-> b]
           next == [n \in 1 .. N |-> [g \in V |->
                      [s \in U |-> IF n \in s THEN step[n][g[s]] ELSE g[s]]]]
<1>1. first \in V /\ next \in [1 .. N -> [V -> V]]
  <2>1. first \in V
    OBVIOUS
  <2>2. ASSUME NEW n \in 1 .. N, NEW g \in V, NEW s \in U
        PROVE  (IF n \in s THEN step[n][g[s]] ELSE g[s]) \in T
    <3>1. g[s] \in T /\ step[n] \in [T -> T]
      OBVIOUS
    <3> HIDE DEF U, V
    <3> QED BY <3>1
  <2> HIDE DEF U
  <2> QED BY <2>1, <2>2
<1>2. PICK G \in [0 .. N -> V] : G[0] = first /\ \A n \in 1 .. N : G[n] = next[n][G[n - 1]]
  <2> HIDE DEF V, first, next
  <2>1. \E g \in [0 .. N -> V] : Follows(g, first, next, N)
    BY <1>1, Recursion
  <2> QED BY <2>1 DEF Follows
<1>3. ASSUME NEW n \in 1 .. N, NEW s \in U
      PROVE  G[n][s] = IF n \in s THEN step[n][G[n - 1][s]] ELSE G[n - 1][s]
  <2>1. G[n] = next[n][G[n - 1]]
    BY <1>2
  <2>2. G[n - 1] \in V
    <3>1. n - 1 \in 0 .. N
      OBVIOUS
    <3> HIDE DEF V
    <3> QED BY <3>1, <1>2
  <2> QED BY <2>1, <2>2
<1>4. \A s \in U : G[0][s] = b
  BY <1>2
<1>5. \A n \in 0 .. N : G[n] \in V
  BY <1>2
<1> HIDE DEF next, first
\* Only the elements up to n count.
<1>6. ASSUME NEW s \in U, NEW t \in U, NEW m \in 0 .. N, s \cap (1 .. m) = t \cap (1 .. m)
      PROVE  \A n \in 0 .. N : n <= m => G[n][s] = G[n][t]
  <2> DEFINE P == {n \in 0 .. N : n <= m => G[n][s] = G[n][t]}
  <2>1. 0 \in P
    BY <1>4
  <2>2. ASSUME NEW n \in 1 .. N, n - 1 \in P PROVE n \in P
    <3> SUFFICES ASSUME n <= m PROVE G[n][s] = G[n][t]
      OBVIOUS
    <3>1. n \in 1 .. m /\ (n \in s <=> n \in t)
      <4>1. n \in 1 .. m
        OBVIOUS
      <4>2. n \in s \cap (1 .. m) <=> n \in t \cap (1 .. m)
        BY <1>6
      <4> QED BY <4>1, <4>2, Zenon
    <3>2. G[n - 1][s] = G[n - 1][t]
      BY <2>2, <3>1
    <3> QED BY <3>1, <3>2, <1>3
  <2> HIDE DEF P
  <2>3. \A n \in 0 .. N : n \in P
    BY <2>1, <2>2, BoundedInduction
  <2> QED BY <2>3 DEF P
\* Above the greatest element nothing changes.
<1>7. ASSUME NEW s \in U, NEW m \in 0 .. N, \A n \in s : n <= m
      PROVE  G[N][s] = G[m][s]
  <2> DEFINE P == {n \in 0 .. N : n >= m => G[n][s] = G[m][s]}
  <2>1. 0 \in P
    OBVIOUS
  <2>2. ASSUME NEW n \in 1 .. N, n - 1 \in P PROVE n \in P
    <3> SUFFICES ASSUME n >= m PROVE G[n][s] = G[m][s]
      OBVIOUS
    <3>1. CASE n = m
      BY <3>1
    <3>2. CASE n # m
      <4>1. n \notin s
        BY <1>7, <3>2
      <4>2. G[n - 1][s] = G[m][s]
        BY <2>2, <3>2
      <4> QED BY <4>1, <4>2, <1>3
    <3> QED BY <3>1, <3>2
  <2> HIDE DEF P
  <2>3. \A n \in 0 .. N : n \in P
    BY <2>1, <2>2, BoundedInduction
  <2> QED BY <2>3 DEF P
<1> DEFINE f == G[N]
<1>8. f \in [U -> T]
  <2>1. N \in 0 .. N
    OBVIOUS
  <2> QED BY <1>5, <2>1, Zenon
<1>9. {} \in U /\ f[{}] = b
  <2>1. f[{}] = G[0][{}]
    BY <1>7
  <2> QED BY <2>1, <1>4
<1>10. ASSUME NEW s \in U, s # {} PROVE f[s] = step[Max(s)][f[s \ {Max(s)}]]
  <2> DEFINE m == Max(s)
             t == s \ {m}
  <2>1. m \in s /\ m \in 1 .. N /\ \A n \in s : n <= m
    BY <1>10, MaxFacts
  <2> HIDE DEF m
  <2>2. t \in U /\ m - 1 \in 0 .. N /\ \A n \in t : n <= m - 1
    BY <2>1
  <2>3. f[s] = G[m][s]
    BY <1>7, <2>1
  <2>4. G[m][s] = step[m][G[m - 1][s]]
    BY <1>3, <2>1
  <2>5. s \cap (1 .. m - 1) = t \cap (1 .. m - 1)
    BY <2>1
  <2>6. G[m - 1][s] = G[m - 1][t]
    <3>1. m - 1 <= m - 1
      BY <2>1
    <3> QED BY <1>6, <2>2, <2>5, <3>1
  <2>7. f[t] = G[m - 1][t]
    BY <1>7, <2>2
  <2>8. f[s] = step[m][f[t]]
    BY <2>3, <2>4, <2>6, <2>7
  <2> QED BY <2>8 DEF m
<1> HIDE DEF f
<1> QED BY <1>8, <1>9, <1>10 DEF FoldsSets

\* The places up to n: n is the greatest.
LEMMA MaxOfPlaces ==
  ASSUME NEW n \in Nat \ {0}
  PROVE  Max(1 .. n) = n /\ (1 .. n) \ {n} = 1 .. n - 1
<1>1. n \in 1 .. n /\ 1 .. n \in SUBSET (1 .. n) /\ 1 .. n # {}
  OBVIOUS
<1>2. Max(1 .. n) \in 1 .. n /\ \A k \in 1 .. n : Max(1 .. n) >= k
  BY <1>1, MaxFacts
<1>3. Max(1 .. n) = n
  BY <1>1, <1>2
<1>4. (1 .. n) \ {n} = 1 .. n - 1
  OBVIOUS
<1> QED BY <1>3, <1>4

\* A sum of integers, from the left.
Totals(t, s) ==
  /\ t \in [0 .. Len(s) -> Int] /\ t[0] = 0
  /\ \A n \in 1 .. Len(s) : t[n] = t[n - 1] + s[n]

\* Sum computes it.
LEMMA SumRecursion ==
  ASSUME NEW s \in Seq(Int)
  PROVE  \E t : Totals(t, s) /\ Sum(s) = t[Len(s)]
<1> DEFINE N == Len(s)
           Eq(f) == f = [S \in SUBSET (1 .. N) |->
                          IF S = {} THEN 0 ELSE f[S \ {Max(S)}] + s[Max(S)]]
           step == [n \in 1 .. N |-> [t \in Int |-> t + s[n]]]
           total == CHOOSE f : Eq(f)
<1>0. N \in Nat /\ DOMAIN s = 1 .. N /\ \A n \in 1 .. N : s[n] \in Int
  OBVIOUS
<1>1. Sum(s) = total[1 .. N]
  BY <1>0 DEF Sum, FoldLeft, MapThenFoldSet
<1>2. step \in [1 .. N -> [Int -> Int]] /\ 0 \in Int
  BY <1>0
<1> HIDE DEF N
<1>3. PICK f \in [SUBSET (1 .. N) -> Int] : FoldsSets(f, 0, step, N)
  <2> HIDE DEF step
  <2> QED BY <1>0, <1>2, FoldRecursion
<1>4. ASSUME NEW S \in SUBSET (1 .. N), S # {}
      PROVE  f[S] = f[S \ {Max(S)}] + s[Max(S)]
  <2>1. Max(S) \in 1 .. N
    BY <1>0, <1>4, MaxFacts
  <2>2. S \ {Max(S)} \in SUBSET (1 .. N) /\ f[S \ {Max(S)}] \in Int
    OBVIOUS
  <2>3. f[S] = step[Max(S)][f[S \ {Max(S)}]]
    BY <1>3, <1>4 DEF FoldsSets
  <2> QED BY <2>1, <2>2, <2>3
<1>5. Eq(f)
  <2> DEFINE g == [S \in SUBSET (1 .. N) |->
                     IF S = {} THEN 0 ELSE f[S \ {Max(S)}] + s[Max(S)]]
  <2>1. \A S \in SUBSET (1 .. N) : f[S] = g[S]
    BY <1>3, <1>4, Zenon DEF FoldsSets
  <2>2. DOMAIN f = DOMAIN g /\ f = [S \in DOMAIN f |-> f[S]] /\ g = [S \in DOMAIN g |-> g[S]]
    OBVIOUS
  <2> QED BY <2>1, <2>2, Zenon
<1>6. Eq(total)
  BY <1>5, Zenon
<1> HIDE DEF total
<1>7. ASSUME NEW n \in 0 .. N
      PROVE  total[1 .. n] = IF n = 0 THEN 0 ELSE total[1 .. n - 1] + s[n]
  <2>1. 1 .. n \in SUBSET (1 .. N) /\ (1 .. n = {} <=> n = 0)
    BY <1>0
  <2>2. total[1 .. n] = IF 1 .. n = {} THEN 0
                        ELSE total[(1 .. n) \ {Max(1 .. n)}] + s[Max(1 .. n)]
    BY <1>6, <2>1, Zenon
  <2>3. CASE n = 0
    BY <2>1, <2>2, <2>3, Zenon
  <2>4. CASE n # 0
    <3>1. Max(1 .. n) = n /\ (1 .. n) \ {n} = 1 .. n - 1
      BY <2>4, MaxOfPlaces
    <3> QED BY <2>1, <2>2, <2>4, <3>1, Zenon
  <2> QED BY <2>3, <2>4
<1>8. \A n \in 0 .. N : total[1 .. n] \in Int
  <2> DEFINE P == {n \in 0 .. N : total[1 .. n] \in Int}
  <2>1. 0 \in P
    BY <1>0, <1>7
  <2>2. ASSUME NEW n \in 1 .. N, n - 1 \in P PROVE n \in P
    <3>1. n \in 0 .. N /\ n # 0 /\ s[n] \in Int
      BY <1>0
    <3>2. total[1 .. n] = total[1 .. n - 1] + s[n]
      BY <3>1, <1>7, Zenon
    <3>3. total[1 .. n - 1] \in Int
      BY <2>2
    <3>4. total[1 .. n] \in Int
      BY <3>1, <3>2, <3>3
    <3> QED BY <3>1, <3>4
  <2> HIDE DEF P
  <2>3. \A n \in 0 .. N : n \in P
    BY <1>0, <2>1, <2>2, BoundedInduction
  <2> QED BY <2>3 DEF P
<1> DEFINE t == [n \in 0 .. N |-> total[1 .. n]]
<1>9. t \in [0 .. N -> Int] /\ N \in 0 .. N /\ 0 \in 0 .. N
  BY <1>0, <1>8
<1>10. t[0] = 0 /\ Sum(s) = t[N]
  <2>1. t[0] = total[1 .. 0] /\ t[N] = total[1 .. N]
    BY <1>9
  <2>2. total[1 .. 0] = 0
    BY <1>7, <1>9, Zenon
  <2> QED BY <1>1, <2>1, <2>2 DEF N
<1>11. ASSUME NEW n \in 1 .. N PROVE t[n] = t[n - 1] + s[n]
  <2>1. n \in 0 .. N /\ n - 1 \in 0 .. N /\ n # 0
    BY <1>0
  <2>2. t[n] = total[1 .. n] /\ t[n - 1] = total[1 .. n - 1]
    BY <2>1
  <2>3. total[1 .. n] = total[1 .. n - 1] + s[n]
    BY <1>7, <2>1, Zenon
  <2> HIDE DEF t
  <2> QED BY <2>2, <2>3, Zenon
<1> HIDE DEF t
<1>12. Totals(t, s)
  BY <1>9, <1>10, <1>11 DEF Totals, N
<1> QED BY <1>10, <1>12 DEF N

\* The sum of integers is one.
LEMMA SumIsInt ==
  ASSUME NEW s \in Seq(Int)
  PROVE  Sum(s) \in Int
<1>1. PICK t : Totals(t, s) /\ Sum(s) = t[Len(s)]
  BY SumRecursion
<1>2. Len(s) \in 0 .. Len(s)
  OBVIOUS
<1> QED BY <1>1, <1>2 DEF Totals

-----------------------------------------------------------------------------
(* Types.                                                                  *)

\* l is a sequence.
IsListing(l) == l \in Seq({l[i] : i \in 1 .. Len(l)})

\* Packets and what was meant by them are listed side by side, with signals
\* that are numbers or missing.
ListsTyped ==
  /\ IsListing(packets) /\ IsListing(sent)
  /\ Len(packets) <= MaxSize /\ Len(sent) = Len(packets)
  /\ \A i \in 1 .. Len(packets) : packets[i].snr \in Int \cup {NULL}

\* The registries are finite, of things seen at times there were.
RegistriesTyped ==
  /\ IsFiniteSet(DOMAIN nodes) /\ IsFiniteSet(DOMAIN observers)
  /\ \A id \in DOMAIN nodes : nodes[id].lastSeen \in Time
  /\ \A o \in DOMAIN observers :
       observers[o] \in [status : {"online", "offline"}, lastHeartbeat : Time]

\* The process, its clock and its table.
ProcessTyped ==
  /\ now \in Time
  /\ phase \in {"down", "serving", "closing sockets", "closing http"}
  /\ cache \in [Rows -> Time \cup {NULL}]
  /\ unsaved \subseteq Rows
  /\ IF phase = "serving" THEN refreshAt \in now .. now + REFRESH ELSE refreshAt = NULL

\* All of it.
TInv == ListsTyped /\ RegistriesTyped /\ ProcessTyped

\* The invariant says all that TypeOK does.
LEMMA TInvImpliesTypeOK == TInv => TypeOK
BY DEF TInv, ListsTyped, RegistriesTyped, ProcessTyped, TypeOK

\* What a listing is after a packet was put in front of it.
LEMMA PushedFacts ==
  ASSUME NEW l, IsListing(l), NEW p
  PROVE  /\ IsListing(Log!Pushed(p, l))
         /\ Len(Log!Pushed(p, l)) = IF Len(l) < MaxSize THEN Len(l) + 1 ELSE MaxSize
         /\ Len(Log!Pushed(p, l)) <= MaxSize
         /\ \A i \in 1 .. Len(Log!Pushed(p, l)) :
              Log!Pushed(p, l)[i] = IF i = 1 THEN p ELSE l[i - 1]
         /\ \A i \in 1 .. Len(Log!Pushed(p, l)) : i # 1 => i - 1 \in 1 .. Len(l)
<1> DEFINE n == IF Len(l) < MaxSize THEN Len(l) + 1 ELSE MaxSize
           e(i) == IF i = 1 THEN p ELSE l[i - 1]
           m == [i \in 1 .. n |-> e(i)]
           T == {e(i) : i \in 1 .. n}
<1>1. Len(l) \in Nat
  BY DEF IsListing
<1>2. n \in Nat /\ n <= MaxSize /\ \A i \in 1 .. n : i # 1 => i - 1 \in 1 .. Len(l)
  BY <1>1, StoreAssumption
<1>3. Log!Pushed(p, l) = m
  BY DEF Log!Pushed
<1> HIDE DEF n, e
<1>4. m \in Seq(T) /\ Len(m) = n
  BY <1>2
<1>5. \A i \in 1 .. n : m[i] = e(i)
  OBVIOUS
<1>6. {m[i] : i \in 1 .. Len(m)} = T
  BY <1>4, <1>5
<1> HIDE DEF m, T
<1>7. IsListing(m)
  BY <1>4, <1>6 DEF IsListing
<1> QED BY <1>2, <1>3, <1>4, <1>5, <1>7 DEF n, e

\* What the decoder makes of a packet has no signal strength, and is dated
\* with the time it was heard.
LEMMA DecodedFacts ==
  ASSUME NEW bytes, NEW o
  PROVE  Decoded(bytes, o).snr = NULL /\ Decoded(bytes, o).timestamp.at = now
<1>1. \A hex : Gen!decodePacket(hex).snr = NULL
  BY DEF Gen!decodePacket, Gen!buildErrorPacket
<1> QED BY <1>1 DEF Decoded, HeardBy

\* Nothing is listed, nobody registered.
LEMMA NothingTyped ==
  ASSUME packets' = << >>, sent' = << >>, nodes' = << >>, observers' = << >>
  PROVE  ListsTyped' /\ RegistriesTyped'
<1>1. IsListing(<< >>) /\ DOMAIN << >> = {} /\ Len(<< >>) = 0
  BY DEF IsListing
<1>2. ListsTyped'
  BY <1>1, StoreAssumption DEF ListsTyped, IsListing
<1>3. RegistriesTyped'
  BY <1>1, FS_EmptySet DEF RegistriesTyped
<1> QED BY <1>2, <1>3

\* The server is down with empty stores.
LEMMA InitTyped == Init => TInv
<1> SUFFICES ASSUME Init PROVE TInv
  OBVIOUS
<1>1. IsListing(<< >>) /\ DOMAIN << >> = {} /\ Len(<< >>) = 0
  BY DEF IsListing
<1>2. ListsTyped
  BY <1>1, StoreAssumption DEF Init, ListsTyped
<1>3. RegistriesTyped
  BY <1>1, FS_EmptySet DEF Init, RegistriesTyped
<1>4. ProcessTyped
  BY ClockAssumption DEF Init, ProcessTyped, Time
<1> QED BY <1>2, <1>3, <1>4 DEF TInv

\* packetStore.add.
LEMMA AddTyped ==
  ASSUME ListsTyped, NEW p, NEW meant, Add(p, meant), p.snr \in Int \cup {NULL}
  PROVE  ListsTyped'
<1>1. /\ packets' = Log!Pushed(p, packets) /\ sent' = Log!Pushed(meant, sent)
      /\ IsListing(packets) /\ IsListing(sent) /\ Len(sent) = Len(packets)
      /\ \A i \in 1 .. Len(packets) : packets[i].snr \in Int \cup {NULL}
  BY DEF Add, ListsTyped
<1>2. IsListing(packets') /\ Len(packets') <= MaxSize
  BY <1>1, PushedFacts
<1>3. IsListing(sent')
  BY <1>1, PushedFacts
<1>4. Len(sent') = Len(packets')
  <2>1. Len(packets') = IF Len(packets) < MaxSize THEN Len(packets) + 1 ELSE MaxSize
    BY <1>1, PushedFacts
  <2>2. Len(sent') = IF Len(sent) < MaxSize THEN Len(sent) + 1 ELSE MaxSize
    BY <1>1, PushedFacts
  <2> QED BY <1>1, <2>1, <2>2
<1>5. ASSUME NEW i \in 1 .. Len(packets') PROVE packets'[i].snr \in Int \cup {NULL}
  <2>1. /\ packets'[i] = IF i = 1 THEN p ELSE packets[i - 1]
        /\ i # 1 => i - 1 \in 1 .. Len(packets)
    BY <1>1, PushedFacts
  <2> QED BY <1>1, <2>1
<1> QED BY <1>2, <1>3, <1>4, <1>5 DEF ListsTyped

\* A node takes its place in the registry, with the time it was heard.
LEMMA NodesTyped ==
  ASSUME RegistriesTyped, now \in Time, NEW p, p.timestamp.at = now
  PROVE  /\ IsFiniteSet(DOMAIN NodesAfter(p))
         /\ \A id \in DOMAIN NodesAfter(p) : NodesAfter(p)[id].lastSeen \in Time
<1>1. CASE p.type = "advert" /\ p.sourceId # NULL
  <2> DEFINE x == p.sourceId
             v == nodeFromAdvert(p)
             f == With(nodes, x, v)
  <2>1. NodesAfter(p) = f
    BY <1>1 DEF NodesAfter
  <2>4. v.lastSeen = now
    BY DEF nodeFromAdvert
  <2> HIDE DEF v, x
  <2>2. /\ DOMAIN f = DOMAIN nodes \cup {x} /\ f[x] = v
        /\ \A id \in DOMAIN nodes \ {x} : f[id] = nodes[id]
    BY DEF With
  <2> HIDE DEF f
  <2>3. IsFiniteSet(DOMAIN f)
    BY <2>2, FS_AddElement DEF RegistriesTyped
  <2> QED BY <2>1, <2>2, <2>3, <2>4 DEF RegistriesTyped
<1>2. CASE ~(p.type = "advert" /\ p.sourceId # NULL)
  BY <1>2 DEF NodesAfter, RegistriesTyped
<1> QED BY <1>1, <1>2

\* An observer takes its place, with a status and the time.
LEMMA ObserverTyped ==
  ASSUME RegistriesTyped, now \in Time, NEW o, NEW status \in {"online", "offline"}
  PROVE  LET f == With(observers, o, [status |-> status, lastHeartbeat |-> now])
         IN  /\ IsFiniteSet(DOMAIN f)
             /\ \A x \in DOMAIN f :
                  f[x] \in [status : {"online", "offline"}, lastHeartbeat : Time]
<1> DEFINE v == [status |-> status, lastHeartbeat |-> now]
           f == With(observers, o, v)
           R == [status : {"online", "offline"}, lastHeartbeat : Time]
<1>2. v \in R
  OBVIOUS
<1> HIDE DEF v
<1>1. /\ DOMAIN f = DOMAIN observers \cup {o} /\ f[o] = v
      /\ \A x \in DOMAIN observers \ {o} : f[x] = observers[x]
  BY DEF With
<1> HIDE DEF f
<1>3. IsFiniteSet(DOMAIN f)
  BY <1>1, FS_AddElement DEF RegistriesTyped
<1>4. \A x \in DOMAIN observers : observers[x] \in R
  BY DEF RegistriesTyped
<1> HIDE DEF R
<1>5. \A x \in DOMAIN f : f[x] \in R
  BY <1>1, <1>2, <1>4
<1> QED BY <1>3, <1>5 DEF f, v, R

\* A packet off the air.
LEMMA HandlePacketTyped ==
  ASSUME TInv, NEW bytes, NEW o, NEW meant, HandlePacket(bytes, o, meant)
  PROVE  TInv'
<1> DEFINE p == Decoded(bytes, o)
<1>1. p.snr = NULL /\ p.timestamp.at = now
  BY DecodedFacts
<1>2. /\ Add(p, meant) /\ nodes' = NodesAfter(p) /\ observers' = ObserversAfter(o)
      /\ UNCHANGED << now, phase, refreshAt, cache, unsaved >>
  BY DEF HandlePacket
<1>3. now \in Time /\ ListsTyped /\ RegistriesTyped /\ ProcessTyped
  BY DEF TInv, ProcessTyped
<1> HIDE DEF p
<1>4. ListsTyped'
  BY <1>1, <1>2, <1>3, AddTyped
<1>5. IsFiniteSet(DOMAIN nodes') /\ \A id \in DOMAIN nodes' : nodes'[id].lastSeen \in Time
  BY <1>1, <1>2, <1>3, NodesTyped
<1>6. /\ IsFiniteSet(DOMAIN observers')
      /\ \A x \in DOMAIN observers' :
           observers'[x] \in [status : {"online", "offline"}, lastHeartbeat : Time]
  <2> DEFINE status == IF o \in DOMAIN observers THEN observers[o].status ELSE "online"
  <2>1. status \in {"online", "offline"}
    BY <1>3 DEF RegistriesTyped
  <2>2. observers' = With(observers, o, [status |-> status, lastHeartbeat |-> now])
    BY <1>2 DEF ObserversAfter
  <2> HIDE DEF status
  <2> QED BY <1>3, <2>1, <2>2, ObserverTyped
<1>7. ProcessTyped'
  BY <1>2, <1>3 DEF ProcessTyped
<1> QED BY <1>4, <1>5, <1>6, <1>7 DEF TInv, RegistriesTyped, Time

\* A status.
LEMMA HandleStatusTyped ==
  ASSUME TInv, NEW o, NEW status \in {"online", "offline"}, HandleStatus(o, status)
  PROVE  TInv'
<1>1. now \in Time /\ ListsTyped /\ RegistriesTyped /\ ProcessTyped
  BY DEF TInv, ProcessTyped
<1>2. /\ UNCHANGED << now, phase, packets, nodes, sent, refreshAt, cache, unsaved >>
      /\ observers' = With(observers, o, [status |-> status, lastHeartbeat |-> now])
  BY DEF HandleStatus
<1>3. ListsTyped' /\ ProcessTyped'
  BY <1>1, <1>2 DEF ListsTyped, ProcessTyped
<1>4. /\ IsFiniteSet(DOMAIN observers')
      /\ \A x \in DOMAIN observers' :
           observers'[x] \in [status : {"online", "offline"}, lastHeartbeat : Time]
  BY <1>1, <1>2, ObserverTyped
<1> QED BY <1>1, <1>2, <1>3, <1>4 DEF TInv, RegistriesTyped, Time

\* A posted packet.
LEMMA PostTyped ==
  ASSUME TInv, NEW body \in Posts, NEW timestamp, Post(body, timestamp)
  PROVE  TInv'
<1> DEFINE p == With(body, "timestamp", timestamp)
<1>1. p.snr \in Int \cup {NULL}
  <2>1. "snr" \in DOMAIN body \ {"timestamp"}
    BY StoreAssumption
  <2>2. p["snr"] = body["snr"]
    BY <2>1 DEF With
  <2> HIDE DEF p
  <2> QED BY <2>2, StoreAssumption
<1>2. Add(p, NULL) /\ UNCHANGED << now, phase, nodes, observers, refreshAt, cache, unsaved >>
  BY DEF Post
<1> HIDE DEF p
<1>3. ListsTyped'
  BY <1>1, <1>2, AddTyped DEF TInv
<1> QED BY <1>2, <1>3 DEF TInv, RegistriesTyped, ProcessTyped, Time

\* Rows take the present.
LEMMA SavedTyped ==
  ASSUME ProcessTyped, NEW R, NEW failed
  PROVE  Saved(R, failed) \in [Rows -> Time \cup {NULL}]
BY DEF ProcessTyped, Saved

\* Every step keeps the types.
LEMMA NextTyped ==
  ASSUME TInv, [Next]_vars
  PROVE  TInv'
<1>0. ListsTyped /\ RegistriesTyped /\ ProcessTyped
  BY DEF TInv
<1>1. ASSUME UNCHANGED stores, ProcessTyped' PROVE TInv'
  BY <1>0, <1>1 DEF TInv, stores, ListsTyped, RegistriesTyped, Time
<1>2. ASSUME NEW bytes, NEW o, NEW meant, HandlePacket(bytes, o, meant) PROVE TInv'
  BY <1>2, HandlePacketTyped
<1>3. ASSUME NEW row \in Rows, NEW written \in BOOLEAN, GetBoard(row, written) PROVE TInv'
  <2> DEFINE failed == IF written THEN {} ELSE {row}
  <2>1. /\ cache' = Saved({row}, failed) /\ unsaved' = (unsaved \ {row}) \cup failed
        /\ UNCHANGED << now, phase, refreshAt >> /\ UNCHANGED stores
    BY <1>3 DEF GetBoard
  <2>2. unsaved' \subseteq Rows
    BY <1>0, <2>1 DEF ProcessTyped
  <2>3. cache' \in [Rows -> Time \cup {NULL}]
    BY <1>0, <2>1, SavedTyped
  <2>4. ProcessTyped'
    BY <1>0, <2>1, <2>2, <2>3 DEF ProcessTyped, Rows, Time
  <2> QED BY <1>1, <2>1, <2>4
<1>4. ASSUME NEW failed \in SUBSET Rows, RefreshAll(failed) PROVE TInv'
  <2>1. /\ phase = "serving" /\ phase' = phase /\ now' = now
        /\ refreshAt' = now + REFRESH /\ unsaved' = failed
        /\ cache' = Saved(RowsRefreshed, failed) /\ UNCHANGED stores
    BY <1>4 DEF RefreshAll
  <2>2. refreshAt' \in now' .. now' + REFRESH
    BY <1>0, <2>1, ClockAssumption DEF ProcessTyped, Time
  <2>3. cache' \in [Rows -> Time \cup {NULL}]
    BY <1>0, <2>1, SavedTyped
  <2>4. ProcessTyped'
    BY <1>0, <2>1, <2>2, <2>3 DEF ProcessTyped, Rows, Time
  <2> QED BY <1>1, <2>1, <2>4
<1>5. CASE Boot
  <2>1. refreshAt' \in now' .. now' + REFRESH
    BY <1>0, <1>5, ClockAssumption DEF Boot, ProcessTyped, Time
  <2>2. ProcessTyped'
    BY <1>0, <1>5, <2>1 DEF Boot, ProcessTyped, Rows, Time
  <2> QED BY <1>1, <1>5, <2>2 DEF Boot
<1>6. CASE Signal \/ SocketsClosed
  <2>1. ProcessTyped'
    BY <1>0, <1>6 DEF Signal, SocketsClosed, ProcessTyped, Rows, Time
  <2> QED BY <1>1, <1>6, <2>1 DEF Signal, SocketsClosed
<1>7. CASE HttpClosed \/ Crash
  <2>1. Exit
    BY <1>7 DEF HttpClosed, Crash
  <2>2. ProcessTyped'
    BY <1>0, <2>1 DEF Exit, ProcessTyped, Rows, Time
  <2>3. ListsTyped' /\ RegistriesTyped'
    BY <2>1, NothingTyped DEF Exit
  <2> QED BY <2>2, <2>3 DEF TInv
<1>8. CASE Tick
  <2>0. /\ now' = now + 1 /\ now < MaxNow /\ (phase = "serving" => now < refreshAt)
        /\ now \in Time /\ (phase = "serving" => refreshAt \in now .. now + REFRESH)
    BY <1>0, <1>8 DEF Tick, ProcessTyped
  <2>1. now' \in Time /\ (phase = "serving" => refreshAt \in now' .. now' + REFRESH)
    BY <2>0, ClockAssumption DEF Time
  <2>2. ProcessTyped'
    BY <1>0, <1>8, <2>1 DEF Tick, ProcessTyped, Rows, Time
  <2> QED BY <1>1, <1>8, <2>2 DEF Tick
<1>9. CASE UNCHANGED vars
  <2>1. ProcessTyped'
    BY <1>0, <1>9 DEF vars, ProcessTyped, Rows, Time
  <2> QED BY <1>1, <1>9, <2>1 DEF vars
<1>10. \A failed \in UNION {kSubset(k, Rows) : k \in 0 .. MaxFailures} : failed \in SUBSET Rows
  BY DEF kSubset
<1>11. ASSUME NEW type, NEW source, NEW dest, NEW content, NEW o,
              Publish(type, source, dest, content, o)
       PROVE  TInv'
  BY <1>2, <1>11 DEF Publish
<1>12. ASSUME NEW failed \in UNION {kSubset(k, Rows) : k \in 0 .. MaxFailures},
              RefreshAll(failed)
       PROVE  TInv'
  BY <1>4, <1>10, <1>12
<1> QED
  BY <1>2, <1>3, <1>5, <1>6, <1>7, <1>8, <1>9, <1>11, <1>12, HandleStatusTyped, PostTyped, Zenon
  DEF Next

\* Types, in every reachable state.
LEMMA TInvAlways == Spec => []TInv
BY InitTyped, NextTyped, PTL DEF Spec

\* Types: the lists are of one length and bounded, the registries hold times
\* that were, the table has times or nothing in its rows, the interval fires
\* next within its length.  Handlers, boot, shutdown, crashes at any moment.
THEOREM TypesHold == Spec => []TypeOK
BY TInvAlways, TInvImpliesTypeOK, PTL

-----------------------------------------------------------------------------
(* What the generator builds, the decoder reads.                           *)

\* Bytes are numbers.
LEMMA ByteIsInt == \A x \in Byte : x \in Int /\ 0 <= x /\ x <= 255
BY DEF Byte

\* Two digits for each byte.
LEMMA HexFacts ==
  ASSUME NEW b \in Seq(Byte)
  PROVE  /\ Len(Gen!bytesToHex(b)) = 2 * Len(b)
         /\ \A i \in 1 .. Len(b) :
              /\ Gen!bytesToHex(b)[2 * i - 1] = b[i] \div 16
              /\ Gen!bytesToHex(b)[2 * i] = b[i] % 16
<1> DEFINE n == Len(b)
           e(i) == IF i % 2 = 1 THEN b[(i + 1) \div 2] \div 16 ELSE b[i \div 2] % 16
<1>1. n \in Nat /\ 2 * n \in Nat
  OBVIOUS
<1>2. Gen!bytesToHex(b) = [i \in 1 .. 2 * n |-> e(i)]
  BY DEF Gen!bytesToHex
<1>3. ASSUME NEW i \in 1 .. n
      PROVE  /\ 2 * i - 1 \in 1 .. 2 * n /\ 2 * i \in 1 .. 2 * n
             /\ e(2 * i - 1) = b[i] \div 16 /\ e(2 * i) = b[i] % 16
  <2>1. /\ (2 * i - 1) % 2 = 1 /\ (2 * i) % 2 = 0
        /\ ((2 * i - 1) + 1) \div 2 = i /\ (2 * i) \div 2 = i
    BY <1>1
  <2>2. 2 * i - 1 \in 1 .. 2 * n /\ 2 * i \in 1 .. 2 * n
    BY <1>1
  <2> QED BY <2>1, <2>2
<1> HIDE DEF n, e
<1> QED BY <1>1, <1>2, <1>3 DEF n

\* The digits of bytes are read as the bytes.
LEMMA HexRoundTrip ==
  ASSUME NEW b \in Seq(Byte)
  PROVE  Gen!hexToBytes(Gen!bytesToHex(b)) = b
<1> DEFINE n == Len(b)
           hex == Gen!bytesToHex(b)
           r == Gen!hexToBytes(hex)
<1>1. n \in Nat /\ (2 * n) % 2 = 0 /\ (2 * n) \div 2 = n /\ b = [i \in 1 .. n |-> b[i]]
  OBVIOUS
<1>2. /\ Len(hex) = 2 * n
      /\ \A i \in 1 .. n : hex[2 * i - 1] = b[i] \div 16 /\ hex[2 * i] = b[i] % 16
  BY HexFacts
<1>3. \A i \in 1 .. n : b[i] \in Byte /\ b[i] \in Int
  BY ByteIsInt
<1> HIDE DEF hex, n
<1>4. r = [i \in 1 .. n |-> 16 * hex[2 * i - 1] + hex[2 * i]]
  <2> DEFINE f == [i \in 1 .. Len(hex) \div 2 |-> 16 * hex[2 * i - 1] + hex[2 * i]]
  <2>0. Len(hex) % 2 # 1
    BY <1>1, <1>2
  <2>1. r = f
    BY <2>0, Zenon DEF Gen!hexToBytes
  <2>2. Len(hex) \div 2 = n
    BY <1>1, <1>2
  <2> QED BY <2>1, <2>2
<1>5. ASSUME NEW i \in 1 .. n PROVE 16 * hex[2 * i - 1] + hex[2 * i] = b[i]
  <2>1. \A x \in Int : 16 * (x \div 16) + (x % 16) = x
    BY SMT
  <2>2. b[i] \in Int
    BY <1>3
  <2>3. hex[2 * i - 1] = b[i] \div 16 /\ hex[2 * i] = b[i] % 16
    BY <1>2
  <2> QED BY <2>1, <2>2, <2>3
<1> QED BY <1>1, <1>4, <1>5 DEF hex

\* Four bytes.
LEMMA WordBytes ==
  ASSUME NEW n \in Int
  PROVE  /\ Gen!uint32ToBytes(n) \in Seq(Byte) /\ Len(Gen!uint32ToBytes(n)) = 4
         /\ Gen!uint32ToBytes(n)[1] = n % 256
         /\ Gen!uint32ToBytes(n)[2] = (n \div 256) % 256
         /\ Gen!uint32ToBytes(n)[3] = (n \div 65536) % 256
         /\ Gen!uint32ToBytes(n)[4] = (n \div 16777216) % 256
BY SMT DEF Gen!uint32ToBytes, Byte

\* A number of 32 bits, with a sign.
LEMMA Int32Bounds ==
  ASSUME NEW n \in Int32
  PROVE  n \in Int /\ -MaxInt32 - 1 <= n /\ n <= MaxInt32
<1>1. MaxInt32 \in Int
  BY SMT DEF MaxInt32
<1> QED BY <1>1, SMT DEF Int32

\* The bytes of a number of 32 bits make up the number, sign included.
LEMMA WordValue ==
  ASSUME NEW n \in Int32, NEW b1, NEW b2, NEW b3, NEW b4,
         b1 = n % 256, b2 = (n \div 256) % 256,
         b3 = (n \div 65536) % 256, b4 = (n \div 16777216) % 256
  PROVE  b1 + 256 * b2 + 65536 * b3 + 16777216 * (IF b4 >= 128 THEN b4 - 256 ELSE b4) = n
<1> DEFINE q1 == n \div 256
           q2 == n \div 65536
           q3 == n \div 16777216
<1>1. n \in Int /\ -128 * 16777216 <= n /\ n < 128 * 16777216
  BY Int32Bounds, SMT DEF MaxInt32
<1>2. q1 \in Int /\ q2 \in Int /\ q3 \in Int
  BY <1>1, SMT
<1>3. n = 256 * q1 + b1 /\ b1 \in 0 .. 255
  BY <1>1, SMT
<1>4. q2 = q1 \div 256 /\ q3 = q2 \div 256
  BY <1>1, SMT
<1>5. -128 <= q3 /\ q3 <= 127
  BY <1>1, SMT
<1> HIDE DEF q1, q2, q3
<1>6. q1 = 256 * q2 + (q1 % 256) /\ q1 % 256 \in 0 .. 255
  BY <1>2, <1>4, SMT
<1>7. q2 = 256 * q3 + (q2 % 256) /\ q2 % 256 \in 0 .. 255
  BY <1>2, <1>4, SMT
<1>8. b2 = q1 % 256 /\ b3 = q2 % 256 /\ b4 = q3 % 256
  BY SMT DEF q1, q2, q3
<1>9. (IF b4 >= 128 THEN b4 - 256 ELSE b4) = q3
  BY <1>2, <1>5, <1>8, SMT
<1> QED BY <1>1, <1>2, <1>3, <1>6, <1>7, <1>8, <1>9, SMT

\* They are read as the number, wherever they are.
LEMMA WordRoundTrip ==
  ASSUME NEW bytes \in Seq(Byte), NEW at \in Nat, at + 4 <= Len(bytes), NEW n \in Int32,
         \A i \in 1 .. 4 : bytes[at + i] = Gen!uint32ToBytes(n)[i]
  PROVE  Gen!readUint32LE(bytes, at) = n /\ Gen!readFloat32LE(bytes, at) = n
<1> DEFINE b == Gen!Slice(bytes, at, at + 4)
<1>1. \A i \in 1 .. 4 : b[i] = bytes[at + i]
  BY DEF Gen!Slice
<1>2. /\ b[1] = n % 256 /\ b[2] = (n \div 256) % 256
      /\ b[3] = (n \div 65536) % 256 /\ b[4] = (n \div 16777216) % 256
  <2>1. n \in Int
    BY Int32Bounds
  <2> QED BY <1>1, <2>1, WordBytes, SMT
<1>3. ~(at + 4 > Len(bytes))
  OBVIOUS
<1> HIDE DEF b
<1>4. Gen!readUint32LE(bytes, at) =
        b[1] + 256 * b[2] + 65536 * b[3]
          + 16777216 * (IF b[4] >= 128 THEN b[4] - 256 ELSE b[4])
  BY <1>3, SMT DEF Gen!readUint32LE, b
<1> QED BY <1>2, <1>4, WordValue, SMT DEF Gen!readFloat32LE

\* c has the bytes from one place to another.
IsSlice(c, bytes, from, to) ==
  /\ c \in Seq(Byte) /\ Len(c) = to - from
  /\ \A i \in 1 .. to - from : c[i] = bytes[from + i]

\* So has a slice.
LEMMA SliceFacts ==
  ASSUME NEW bytes \in Seq(Byte), NEW from \in Nat, NEW to \in Nat,
         from <= to, to <= Len(bytes)
  PROVE  IsSlice(Gen!Slice(bytes, from, to), bytes, from, to)
<1>1. \A i \in from + 1 .. to : bytes[i] \in Byte
  OBVIOUS
<1> QED BY <1>1, SubSeqProperties DEF Gen!Slice, IsSlice

\* Equal bytes in equal places are equal slices.
LEMMA SliceIs ==
  ASSUME NEW bytes \in Seq(Byte), NEW from \in Nat, NEW b \in Seq(Byte),
         from + Len(b) <= Len(bytes), \A i \in 1 .. Len(b) : bytes[from + i] = b[i]
  PROVE  Gen!Slice(bytes, from, from + Len(b)) = b
<1> DEFINE to == from + Len(b)
           c == Gen!Slice(bytes, from, to)
<1>0. Len(b) \in Nat /\ to \in Nat /\ from <= to /\ to <= Len(bytes) /\ to - from = Len(b)
  OBVIOUS
<1> HIDE DEF to
<1>1. c \in Seq(Byte) /\ Len(c) = to - from
      /\ \A i \in 1 .. to - from : c[i] = bytes[from + i]
  BY <1>0, SliceFacts DEF IsSlice
<1> HIDE DEF c
<1>2. c = b
  BY <1>0, <1>1, SeqEqual
<1> QED BY <1>2 DEF c, to

\* Printable characters are bytes, and none is zero.
LEMMA CharFacts == \A x \in Char : x \in Byte /\ x # 0 /\ Gen!Printable(x)
BY DEF Char, Byte, Gen!Printable

\* The rest of some bytes.
LEMMA FromFacts ==
  ASSUME NEW bytes \in Seq(Byte), NEW at \in Nat, at <= Len(bytes)
  PROVE  IsSlice(Gen!From(bytes, at), bytes, at, Len(bytes))
<1>1. Len(bytes) \in Nat /\ Len(bytes) <= Len(bytes)
  OBVIOUS
<1> QED BY <1>1, SliceFacts DEF Gen!From

\* A text that ends in a zero byte is read as the text.
LEMMA TextRoundTrip ==
  ASSUME NEW text \in Seq(Char), NEW bytes \in Seq(Byte), NEW at \in Nat,
         Len(bytes) = at + Len(text) + 1,
         \A i \in 1 .. Len(text) : bytes[at + i] = text[i],
         bytes[at + Len(text) + 1] = 0
  PROVE  Gen!Text(Gen!From(bytes, at)) = text
<1> DEFINE n == Len(text)
           b == Gen!From(bytes, at)
           I == {i \in 1 .. Len(b) : b[i] = 0}
<1>0. n \in Nat /\ text = [i \in 1 .. n |-> text[i]] /\ \A i \in 1 .. n : text[i] \in Char
  OBVIOUS
<1>1. Len(b) = n + 1 /\ \A i \in 1 .. n + 1 : b[i] = bytes[at + i]
  <2>1. at <= Len(bytes) /\ Len(bytes) - at = n + 1
    BY <1>0
  <2> HIDE DEF n, b
  <2>2. /\ Len(b) = Len(bytes) - at
        /\ \A i \in 1 .. Len(bytes) - at : b[i] = bytes[at + i]
    BY <2>1, FromFacts DEF b, IsSlice
  <2> QED BY <2>1, <2>2
<1> HIDE DEF b, n
<1>2. \A i \in 1 .. n : b[i] = text[i] /\ b[i] # 0 /\ Gen!Printable(b[i])
  BY <1>0, <1>1, CharFacts DEF n
<1>3. b[n + 1] = 0
  BY <1>0, <1>1 DEF n
<1>4. I = {n + 1}
  BY <1>0, <1>1, <1>2, <1>3
<1> HIDE DEF I
<1>5. Gen!Min(I) = n + 1
  BY <1>0, <1>4 DEF Gen!Min
<1>7. n + 1 # 0 /\ (n + 1) - 1 = n
  BY <1>0
<1> DEFINE zero == IF I # {} THEN Gen!Min(I) ELSE 0
           end == IF zero = 0 THEN Len(b) ELSE zero - 1
<1>8. end = n
  BY <1>4, <1>5, <1>7
<1>9. Gen!Text(b) = [i \in 1 .. end |-> IF Gen!Printable(b[i]) THEN b[i] ELSE 46]
  <2>1. Gen!SelectInSeq(b, LAMBDA x : x = 0) = zero
    BY DEF Gen!SelectInSeq, I
  <2> HIDE DEF zero
  <2> QED BY <2>1, Zenon DEF Gen!Text
<1> HIDE DEF end
<1>10. [i \in 1 .. n |-> IF Gen!Printable(b[i]) THEN b[i] ELSE 46] = [i \in 1 .. n |-> text[i]]
  BY <1>2
<1> QED BY <1>0, <1>8, <1>9, <1>10 DEF b

\* Bytes B are those of a packet: header, form of the path, path, payload.
LaidOut(B, pt, rt, s, d, payload) ==
  /\ B \in Seq(Byte) /\ Len(B) = 10 + Len(payload)
  /\ B[1] = 4 * pt + rt /\ B[2] = 194
  /\ \A i \in 1 .. 4 : B[2 + i] = s[i] /\ B[6 + i] = d[i]
  /\ \A i \in 1 .. Len(payload) : B[10 + i] = payload[i]

\* c is a and then b.
IsRow(c, a, b) ==
  /\ a \in Seq(Byte) /\ b \in Seq(Byte)
  /\ c \in Seq(Byte) /\ Len(c) = Len(a) + Len(b)
  /\ \A i \in 1 .. Len(a) : c[i] = a[i]
  /\ \A i \in 1 .. Len(b) : c[Len(a) + i] = b[i]

\* The places of two sequences in a row.
LEMMA InARow == \A a, b \in Seq(Byte) : IsRow(a \o b, a, b)
BY DEF IsRow

\* The four parts of a packet in a row.
LEMMA RowLayout ==
  ASSUME NEW pt \in 0 .. 15, NEW rt \in 0 .. 3,
         NEW s \in Seq(Byte), NEW d \in Seq(Byte), NEW payload \in Seq(Byte),
         NEW head \in Seq(Byte), NEW h, NEW g, NEW B,
         Len(s) = 4, Len(d) = 4, Len(head) = 2, head[1] = 4 * pt + rt, head[2] = 194,
         IsRow(h, head, s), IsRow(g, h, d), IsRow(B, g, payload)
  PROVE  LaidOut(B, pt, rt, s, d, payload)
<1>1. Len(h) = 6 /\ Len(g) = 10
  BY DEF IsRow
<1>2. \A i \in 1 .. 10 : B[i] = g[i]
  BY <1>1 DEF IsRow
<1>3. \A i \in 1 .. 6 : g[i] = h[i]
  BY <1>1 DEF IsRow
<1>4. h[1] = head[1] /\ h[2] = head[2] /\ \A i \in 1 .. 4 : h[2 + i] = s[i]
  BY DEF IsRow
<1>5. \A i \in 1 .. 4 : g[6 + i] = d[i]
  <2>1. \A i \in 1 .. Len(d) : g[Len(h) + i] = d[i]
    BY DEF IsRow
  <2> QED BY <1>1, <2>1
<1>6. B[1] = head[1] /\ B[2] = head[2]
  BY <1>2, <1>3, <1>4
<1>7. \A i \in 1 .. 4 : B[2 + i] = s[i] /\ B[6 + i] = d[i]
  <2>1. \A i \in 1 .. 4 : 2 + i \in 1 .. 6 /\ 2 + i \in 1 .. 10 /\ 6 + i \in 1 .. 10
    OBVIOUS
  <2> QED BY <2>1, <1>2, <1>3, <1>4, <1>5
<1>8. /\ B \in Seq(Byte) /\ Len(B) = 10 + Len(payload)
      /\ \A i \in 1 .. Len(payload) : B[10 + i] = payload[i]
  BY <1>1 DEF IsRow
<1> QED BY <1>6, <1>7, <1>8 DEF LaidOut

\* All of four bytes.
LEMMA SliceAll == \A b \in Seq(Byte) : Len(b) = 4 => Gen!Slice(b, 0, 4) = b
<1> SUFFICES ASSUME NEW b \in Seq(Byte), Len(b) = 4 PROVE Gen!Slice(b, 0, 4) = b
  OBVIOUS
<1> QED BY DEF Gen!Slice

\* The builder lays a packet out like that.
LEMMA PacketLayout ==
  ASSUME NEW pt \in 0 .. 15, NEW rt \in 0 .. 3, NEW s \in Node, NEW d \in Node,
         NEW payload \in Seq(Byte)
  PROVE  LaidOut(Gen!buildPacket(pt, rt, s, d, payload), pt, rt, s.id, d.id, payload)
<1> DEFINE head == << 4 * pt + rt, 3 * 64 + 2 >>
<1>1. /\ s.id \in Seq(Byte) /\ Len(s.id) = 4 /\ d.id \in Seq(Byte) /\ Len(d.id) = 4
  BY GeneratorAssumption
<1>2. Gen!Slice(s.id, 0, 4) = s.id /\ Gen!Slice(d.id, 0, 4) = d.id
  BY <1>1, SliceAll
<1>3. head \in Seq(Byte) /\ Len(head) = 2 /\ head[1] = 4 * pt + rt /\ head[2] = 194
  <2>1. 4 * pt + rt \in Byte /\ 3 * 64 + 2 \in Byte
    BY DEF Byte
  <2> QED BY <2>1
<1>4. Gen!buildPacket(pt, rt, s, d, payload) = ((head \o s.id) \o d.id) \o payload
  BY <1>2 DEF Gen!buildPacket
<1> HIDE DEF head
<1>5. IsRow(head \o s.id, head, s.id)
  BY <1>1, <1>3, InARow
<1>6. IsRow((head \o s.id) \o d.id, head \o s.id, d.id)
  <2>1. head \o s.id \in Seq(Byte)
    BY <1>5 DEF IsRow
  <2> QED BY <1>1, <2>1, InARow
<1>7. IsRow(((head \o s.id) \o d.id) \o payload, (head \o s.id) \o d.id, payload)
  <2>1. (head \o s.id) \o d.id \in Seq(Byte)
    BY <1>6 DEF IsRow
  <2> QED BY <2>1, InARow
<1> DEFINE u == s.id
           v == d.id
           h == head \o u
           g == h \o v
           B == g \o payload
<1> HIDE DEF u, v, h, g, B
<1>8. LaidOut(B, pt, rt, u, v, payload)
  <2>1. u \in Seq(Byte) /\ Len(u) = 4 /\ v \in Seq(Byte) /\ Len(v) = 4
    BY <1>1 DEF u, v
  <2>2. IsRow(h, head, u) /\ IsRow(g, h, v) /\ IsRow(B, g, payload)
    BY <1>5, <1>6, <1>7 DEF B, g, h, u, v
  <2> QED BY <1>3, <2>1, <2>2, RowLayout
<1> QED BY <1>4, <1>8 DEF B, g, h, u, v

\* Bytes x are in P, from offset at on.
Holds(P, at, x) ==
  /\ P \in Seq(Byte) /\ x \in Seq(Byte)
  /\ at \in Nat /\ at + Len(x) <= Len(P)
  /\ \A i \in 1 .. Len(x) : P[at + i] = x[i]

\* x is a sequence of n bytes.
Bytes(x, n) == n \in Nat /\ x \in Seq(Byte) /\ Len(x) = n

\* Two sequences of bytes make a row.
LEMMA RowOf == \A a, b, m, n : Bytes(a, m) /\ Bytes(b, n) => IsRow(a \o b, a, b)
BY InARow DEF Bytes

\* It is as long as both.
LEMMA RowLength ==
  \A c, a, b, m, n, k :
    IsRow(c, a, b) /\ Bytes(a, m) /\ Bytes(b, n) /\ k = m + n => Bytes(c, k)
BY DEF IsRow, Bytes

\* The second comes after the first.
LEMMA RowAdds == \A c, a, b, m : IsRow(c, a, b) /\ Bytes(a, m) => Holds(c, m, b)
BY DEF IsRow, Bytes, Holds

\* What is in the first is in the row, at its place.
LEMMA RowKeeps == \A c, a, b, at, x : IsRow(c, a, b) /\ Holds(a, at, x) => Holds(c, at, x)
<1> SUFFICES ASSUME NEW c, NEW a, NEW b, NEW at, NEW x, IsRow(c, a, b), Holds(a, at, x)
             PROVE  Holds(c, at, x)
  OBVIOUS
<1>1. \A i \in 1 .. Len(x) : at + i \in 1 .. Len(a)
  BY DEF Holds
<1>2. \A i \in 1 .. Len(x) : c[at + i] = x[i]
  BY <1>1 DEF IsRow, Holds
<1>3. at + Len(x) <= Len(c)
  BY DEF IsRow, Holds
<1> QED BY <1>2, <1>3 DEF IsRow, Holds

\* What is in a part is in the whole.
LEMMA HoldsWithin ==
  \A B, P, x, from, at :
    Holds(B, from, P) /\ Holds(P, at, x) => Holds(B, from + at, x)
<1> SUFFICES ASSUME NEW B, NEW P, NEW x, NEW from, NEW at, Holds(B, from, P), Holds(P, at, x)
             PROVE  Holds(B, from + at, x)
  OBVIOUS
<1>1. \A i \in 1 .. Len(x) : at + i \in 1 .. Len(P) /\ (from + at) + i = from + (at + i)
  BY DEF Holds
<1>2. \A i \in 1 .. Len(x) : B[(from + at) + i] = x[i]
  BY <1>1 DEF Holds
<1>3. from + at \in Nat /\ (from + at) + Len(x) <= Len(B)
  BY DEF Holds
<1> QED BY <1>2, <1>3 DEF Holds

\* A slice that has the bytes x is x.
LEMMA HeldSlice ==
  ASSUME NEW B, NEW at, NEW x, Holds(B, at, x)
  PROVE  Gen!Slice(B, at, at + Len(x)) = x
BY SliceIs DEF Holds

\* So is the rest, if x is the rest.
LEMMA HeldRest ==
  ASSUME NEW B, NEW at, NEW x, Holds(B, at, x), Len(B) = at + Len(x)
  PROVE  Gen!From(B, at) = x
BY HeldSlice DEF Gen!From

\* A packet that is laid out as one holds its parts.
LEMMA LaidOutHolds ==
  ASSUME NEW B, NEW pt, NEW rt, NEW s \in Seq(Byte), NEW d \in Seq(Byte),
         NEW payload \in Seq(Byte), Len(s) = 4, Len(d) = 4, LaidOut(B, pt, rt, s, d, payload)
  PROVE  /\ Holds(B, 2, s) /\ Holds(B, 6, d) /\ Holds(B, 10, payload)
         /\ Len(B) = 10 + Len(payload) /\ B \in Seq(Byte)
<1>1. Len(payload) \in Nat
  OBVIOUS
<1> QED BY <1>1 DEF LaidOut, Holds

\* The header of a packet.
LEMMA HeaderRead ==
  ASSUME NEW pt \in 0 .. 15, NEW rt \in 0 .. 3
  PROVE  /\ Gen!parseHeader(4 * pt + rt).payloadType = pt
         /\ Gen!parseHeader(4 * pt + rt).routeType = rt
<1>1. ((4 * pt + rt) \div 4) % 16 = pt /\ (4 * pt + rt) % 4 = rt
  OBVIOUS
<1> QED BY <1>1 DEF Gen!parseHeader

\* The form of its path.
LEMMA FormRead == Gen!parsePathLen(194) = [hashSize |-> 4, hashCount |-> 2]
<1>1. (194 \div 64) + 1 = 4 /\ 194 % 64 = 2
  OBVIOUS
<1> QED BY <1>1 DEF Gen!parsePathLen

\* The path is read as the two ends.
LEMMA PathRead ==
  ASSUME NEW B \in Seq(Byte), NEW s \in Seq(Byte), NEW d \in Seq(Byte),
         Len(s) = 4, Len(d) = 4, Holds(B, 2, s), Holds(B, 6, d)
  PROVE  /\ Gen!PathFits(B, 2, [hashSize |-> 4, hashCount |-> 2])
         /\ Gen!HopPath(B, 2, [hashSize |-> 4, hashCount |-> 2])
              = << Gen!bytesToHex(s), Gen!bytesToHex(d) >>
<1> DEFINE form == [hashSize |-> 4, hashCount |-> 2]
           hop(i) == Gen!bytesToHex(Gen!Slice(B, 2 + (i - 1) * form.hashSize,
                                                 2 + i * form.hashSize))
<1>1. Gen!PathFits(B, 2, form)
  BY DEF Holds, Gen!PathFits
<1>2. Gen!Slice(B, 2, 6) = s /\ Gen!Slice(B, 6, 10) = d
  <2>1. 2 + Len(s) = 6 /\ 6 + Len(d) = 10
    OBVIOUS
  <2>2. Gen!Slice(B, 2, 2 + Len(s)) = s
    BY HeldSlice
  <2>3. Gen!Slice(B, 6, 6 + Len(d)) = d
    BY HeldSlice
  <2> QED BY <2>1, <2>2, <2>3
<1>3. hop(1) = Gen!bytesToHex(s) /\ hop(2) = Gen!bytesToHex(d)
  <2>1. /\ 2 + (1 - 1) * form.hashSize = 2 /\ 2 + 1 * form.hashSize = 6
        /\ 2 + (2 - 1) * form.hashSize = 6 /\ 2 + 2 * form.hashSize = 10
    OBVIOUS
  <2> QED BY <1>2, <2>1
<1>4. Gen!HopPath(B, 2, form) = [i \in 1 .. 2 |-> hop(i)]
  <2>1. form.hashCount = 2
    OBVIOUS
  <2> HIDE DEF form
  <2> QED BY <1>1, <2>1 DEF Gen!HopPath
<1> HIDE DEF hop
<1>5. [i \in 1 .. 2 |-> hop(i)] = << hop(1), hop(2) >>
  OBVIOUS
<1> QED BY <1>1, <1>3, <1>4, <1>5

\* What the decoder makes of a packet that is laid out as one.
Reading(B, pt, rt, s, d) ==
  [hash |-> Gen!bytesToHex(B),
   type |-> Gen!resolvePacketType(pt, rt),
   sourceId |-> Gen!bytesToHex(s), destId |-> Gen!bytesToHex(d),
   hops |-> 2, hopPath |-> << Gen!bytesToHex(s), Gen!bytesToHex(d) >>,
   snr |-> NULL,
   channel |-> IF Gen!decodePayload(pt, B, 10).kind = "channel"
               THEN Gen!decodePayload(pt, B, 10).channel ELSE NULL,
   decodedPayload |-> Gen!decodePayload(pt, B, 10)]

\* The decoder reads a packet that was laid out so.
LEMMA PacketRead ==
  ASSUME NEW pt \in 0 .. 15, NEW rt \in 1 .. 2, NEW s \in Seq(Byte), NEW d \in Seq(Byte),
         Len(s) = 4, Len(d) = 4,
         NEW payload \in Seq(Byte), NEW B, LaidOut(B, pt, rt, s, d, payload)
  PROVE  Gen!decodePacket(Gen!bytesToHex(B)) = Reading(B, pt, rt, s, d)
<1> DEFINE hex == Gen!bytesToHex(B)
           bytes == Gen!hexToBytes(hex)
           header == Gen!parseHeader(bytes[1])
           atPathLen == IF Gen!hasTransportCodes(header.routeType) THEN 5 ELSE 1
           form == Gen!parsePathLen(bytes[atPathLen + 1])
           path == Gen!HopPath(bytes, atPathLen + 1, form)
           atPayload == IF Gen!PathFits(bytes, atPathLen + 1, form)
                        THEN atPathLen + 1 + form.hashSize * form.hashCount
                        ELSE Len(bytes)
           read == Gen!decodePayload(header.payloadType, bytes, atPayload)
           two == [hashSize |-> 4, hashCount |-> 2]
           ends == << Gen!bytesToHex(s), Gen!bytesToHex(d) >>
           packet == [hash |-> hex,
             type |-> Gen!resolvePacketType(header.payloadType, header.routeType),
             sourceId |-> IF path = << >> THEN NULL ELSE path[1],
             destId |-> IF Len(path) < 2 THEN NULL ELSE path[Len(path)],
             hops |-> form.hashCount, hopPath |-> path, snr |-> NULL,
             channel |-> IF read.kind = "channel" THEN read.channel ELSE NULL,
             decodedPayload |-> read]
<1>1. /\ Holds(B, 2, s) /\ Holds(B, 6, d) /\ B \in Seq(Byte)
      /\ Len(B) >= 10 /\ Len(B) \in Nat
  BY LaidOutHolds
<1>2. bytes = B
  BY <1>1, HexRoundTrip
<1>3. B[1] = 4 * pt + rt /\ B[2] = 194
  BY DEF LaidOut
<1>4. Gen!decodePacket(hex) =
        IF Len(bytes) < 2 \/ atPathLen >= Len(bytes) THEN Gen!buildErrorPacket(hex) ELSE packet
  BY Zenon DEF Gen!decodePacket
<1> HIDE DEF bytes
<1>5. header.payloadType = pt /\ header.routeType = rt
  <2>1. bytes[1] = 4 * pt + rt /\ rt \in 0 .. 3
    BY <1>2, <1>3
  <2> HIDE DEF bytes
  <2> QED BY <2>1, HeaderRead
<1> HIDE DEF header
<1>6. atPathLen = 1 /\ atPathLen + 1 = 2
  BY <1>5 DEF Gen!hasTransportCodes
<1> HIDE DEF atPathLen
<1>7. form = two
  BY <1>2, <1>3, <1>6, FormRead
<1> HIDE DEF form
<1>8. Gen!PathFits(B, 2, two) /\ Gen!HopPath(B, 2, two) = ends
  BY <1>1, PathRead
<1>9. path = ends
  BY <1>2, <1>6, <1>7, <1>8
<1> HIDE DEF path
<1>10. atPayload = 10
  <2>1. two.hashSize * two.hashCount = 8
    OBVIOUS
  <2>2. atPayload = atPathLen + 1 + two.hashSize * two.hashCount
    BY <1>2, <1>6, <1>7, <1>8
  <2> HIDE DEF atPayload
  <2> QED BY <1>6, <2>1, <2>2
<1> HIDE DEF atPayload
<1>11. read = Gen!decodePayload(pt, B, 10)
  BY <1>2, <1>5, <1>10
<1>12. /\ (IF path = << >> THEN NULL ELSE path[1]) = Gen!bytesToHex(s)
       /\ (IF Len(path) < 2 THEN NULL ELSE path[Len(path)]) = Gen!bytesToHex(d)
  BY <1>9
<1>13. form.hashCount = 2
  BY <1>7
<1> HIDE DEF read, ends
<1>14. packet = Reading(B, pt, rt, s, d)
  BY <1>5, <1>9, <1>11, <1>12, <1>13, Zenon DEF Reading, ends
<1> HIDE DEF packet
<1>15. ~(Len(bytes) < 2 \/ atPathLen >= Len(bytes))
  BY <1>1, <1>2, <1>6
<1> HIDE DEF hex
<1>16. Gen!decodePacket(hex) = packet
  BY <1>4, <1>15
<1> QED BY <1>14, <1>16 DEF hex

\* Four bytes for a number of 32 bits.
LEMMA WordIsBytes ==
  \A n \in Int32 : Bytes(Gen!uint32ToBytes(n), 4)
BY Int32Bounds, WordBytes DEF Bytes

\* A position, or a time, is read where its bytes are held.
LEMMA HeldWord ==
  ASSUME NEW B, NEW at, NEW n \in Int32, Holds(B, at, Gen!uint32ToBytes(n))
  PROVE  Gen!readUint32LE(B, at) = n /\ Gen!readFloat32LE(B, at) = n
<1>1. n \in Int
  BY Int32Bounds
<1>2. Len(Gen!uint32ToBytes(n)) = 4
  BY <1>1, WordBytes
<1> DEFINE w == Gen!uint32ToBytes(n)
<1>3. \A i \in 1 .. 4 : B[at + i] = w[i]
  BY <1>2 DEF Holds
<1>4. B \in Seq(Byte) /\ at \in Nat /\ at + 4 <= Len(B)
  BY <1>2 DEF Holds
<1> QED BY <1>3, <1>4, WordRoundTrip

\* The first four of many bytes, in hexadecimal digits.
LEMMA KeyStartsWithId ==
  ASSUME NEW key \in Seq(Byte), NEW id \in Seq(Byte), Len(id) = 4, Len(key) >= 4,
         \A i \in 1 .. 4 : key[i] = id[i]
  PROVE  SubSeq(Gen!bytesToHex(key), 1, 8) = Gen!bytesToHex(id)
<1> DEFINE hk == Gen!bytesToHex(key)
           e(b, i) == IF i % 2 = 1 THEN b[(i + 1) \div 2] \div 16 ELSE b[i \div 2] % 16
           n == Len(key)
<1>1. n \in Nat /\ n >= 4
  OBVIOUS
<1>2. hk = [i \in 1 .. 2 * n |-> e(key, i)]
  BY DEF Gen!bytesToHex
<1>3. Gen!bytesToHex(id) = [i \in 1 .. 8 |-> e(id, i)]
  BY DEF Gen!bytesToHex
<1>4. \A i \in 1 .. 8 : e(key, i) = e(id, i)
  <2> SUFFICES ASSUME NEW i \in 1 .. 8 PROVE e(key, i) = e(id, i)
    OBVIOUS
  <2>1. i % 2 = 1 => (i + 1) \div 2 \in 1 .. 4
    OBVIOUS
  <2>2. i % 2 # 1 => i \div 2 \in 1 .. 4
    OBVIOUS
  <2> QED BY <2>1, <2>2
<1> HIDE DEF e, n, hk
<1>5. SubSeq(hk, 1, 8) = [i \in 1 .. 8 |-> hk[i]]
  OBVIOUS
<1>6. \A i \in 1 .. 8 : hk[i] = e(key, i)
  BY <1>1, <1>2
<1> QED BY <1>3, <1>4, <1>5, <1>6 DEF hk

\* Filling.
LEMMA ZerosFacts ==
  ASSUME NEW n \in Nat
  PROVE  Bytes(Gen!Zeros(n), n)
<1>1. 0 \in Byte
  BY DEF Byte
<1> QED BY <1>1 DEF Gen!Zeros, Bytes

\* The parts of an advert, from offset at on.
AdvertAt(B, at, id, t, role, lat, lng, name) ==
  /\ Holds(B, at, id \o Gen!Zeros(28))
  /\ Holds(B, at + 32, Gen!uint32ToBytes(t))
  /\ Holds(B, at + 100, << role >>)
  /\ Holds(B, at + 101, Gen!uint32ToBytes(lat))
  /\ Holds(B, at + 105, Gen!uint32ToBytes(lng))
  /\ Holds(B, at + 109, << 0, 0 >>)
  /\ Holds(B, at + 111, Gen!stringToBytes(name))
  /\ Len(B) = at + 112 + Len(name)

\* The decoder reads them.
LEMMA AdvertRead ==
  ASSUME NEW B, NEW id \in Seq(Byte), Len(id) = 4, NEW t \in Int32, NEW role \in 1 .. 3,
         NEW lat \in Int32, NEW lng \in Int32, NEW name \in Seq(Char), name # << >>,
         AdvertAt(B, 10, id, t, role, lat, lng, name)
  PROVE  Gen!decodeAdvert(B, 10) =
           [kind |-> "advert", publicKey |-> Gen!bytesToHex(id \o Gen!Zeros(28)),
            advertTimestamp |-> t, name |-> name, latitude |-> lat, longitude |-> lng,
            role |-> Gen!roleFromFlags(role), features |-> 0]
<1> DEFINE key == id \o Gen!Zeros(28)
           n == Len(name)
<1>1. /\ Holds(B, 10, key) /\ Holds(B, 42, Gen!uint32ToBytes(t)) /\ Holds(B, 110, << role >>)
      /\ Holds(B, 111, Gen!uint32ToBytes(lat)) /\ Holds(B, 115, Gen!uint32ToBytes(lng))
      /\ Holds(B, 119, << 0, 0 >>) /\ Holds(B, 121, Gen!stringToBytes(name))
      /\ Len(B) = 122 + n
  BY DEF AdvertAt
<1>2. Bytes(key, 32)
  <2>1. Bytes(id, 4)
    BY DEF Bytes
  <2>2. Bytes(Gen!Zeros(28), 28)
    BY ZerosFacts
  <2>3. IsRow(key, id, Gen!Zeros(28))
    BY <2>1, <2>2, RowOf
  <2> HIDE DEF key
  <2> QED BY <2>1, <2>2, <2>3, RowLength
<1>3. n \in Nat /\ B \in Seq(Byte) /\ Len(B) \in Nat
  BY <1>1 DEF Holds
<1> HIDE DEF key, n
<1>4. t \in Int /\ lat \in Int /\ lng \in Int /\ t # NULL /\ lat # NULL /\ lng # NULL
  BY Int32Bounds, ClockAssumption
<1>5. Gen!Slice(B, 10, 42) = key
  <2>1. Gen!Slice(B, 10, 10 + Len(key)) = key
    BY <1>1, HeldSlice
  <2>2. 10 + Len(key) = 42
    BY <1>2 DEF Bytes
  <2> QED BY <2>1, <2>2
<1>6. /\ Gen!readUint32LE(B, 42) = t
      /\ Gen!readFloat32LE(B, 111) = lat /\ Gen!readFloat32LE(B, 115) = lng
  BY <1>1, HeldWord
<1>7. B[111] = role /\ B[120] = 0 /\ B[121] = 0
  <2>1. \A i \in 1 .. 1 : B[110 + i] = << role >>[i]
    BY <1>1 DEF Holds
  <2>2. \A i \in 1 .. 2 : B[119 + i] = << 0, 0 >>[i]
    BY <1>1 DEF Holds
  <2> QED BY <2>1, <2>2
<1>8. Gen!TextOrNull(Gen!From(B, 121)) = name
  <2>1. /\ \A i \in 1 .. n : B[121 + i] = name[i]
        /\ B[121 + n + 1] = 0
    <3> DEFINE z == Gen!stringToBytes(name)
    <3>1. z = name \o << 0 >>
      BY DEF Gen!stringToBytes
    <3>2. /\ Len(z) = n + 1 /\ z[n + 1] = 0
          /\ \A i \in 1 .. n : z[i] = name[i]
      BY <3>1 DEF n
    <3>3. \A i \in 1 .. Len(z) : B[121 + i] = z[i]
      BY <1>1 DEF Holds
    <3> HIDE DEF z
    <3>4. n + 1 \in 1 .. Len(z) /\ \A i \in 1 .. n : i \in 1 .. Len(z)
      BY <3>2, <1>3
    <3>5. 121 + (n + 1) = 121 + n + 1
      BY <1>3
    <3> QED BY <3>2, <3>3, <3>4, <3>5
  <2>2. Len(B) = 121 + Len(name) + 1
    BY <1>1, <1>3 DEF n
  <2>3. Gen!Text(Gen!From(B, 121)) = name
    <3>1. 121 \in Nat /\ B \in Seq(Byte)
      BY <1>3
    <3>2. /\ \A i \in 1 .. Len(name) : B[121 + i] = name[i]
          /\ B[121 + Len(name) + 1] = 0
      BY <2>1 DEF n
    <3> QED BY <2>2, <3>1, <3>2, TextRoundTrip
  <2> QED BY <2>3 DEF Gen!TextOrNull
<1> DEFINE app == Gen!AppData(B, 110)
<1>9. app = [role |-> Gen!roleFromFlags(role), latitude |-> lat, longitude |-> lng,
             features |-> 0, name |-> name]
  <2> DEFINE hasFlags == 110 < Len(B)
             atLat == IF hasFlags THEN 110 + 1 ELSE 110
             la == Gen!readFloat32LE(B, atLat)
             atLon == IF la = NULL THEN atLat ELSE atLat + 4
             lo == Gen!readFloat32LE(B, atLon)
             atFeatures == IF lo = NULL THEN atLon ELSE atLon + 4
             hasFeatures == atFeatures + 2 <= Len(B)
             atName == IF hasFeatures THEN atFeatures + 2 ELSE atFeatures
  <2>1. app = [role |-> IF hasFlags THEN Gen!roleFromFlags(B[110 + 1]) ELSE "unknown",
               latitude |-> la, longitude |-> lo,
               features |-> IF hasFeatures
                            THEN B[atFeatures + 1] + 256 * B[atFeatures + 2] ELSE NULL,
               name |-> Gen!TextOrNull(Gen!From(B, atName))]
    BY Zenon DEF Gen!AppData
  <2>2. hasFlags /\ atLat = 111 /\ 110 + 1 = 111
    BY <1>1, <1>3
  <2> HIDE DEF hasFlags, atLat
  <2>3. la = lat /\ atLon = 115
    BY <2>2, <1>4, <1>6
  <2> HIDE DEF la, atLon
  <2>4. lo = lng /\ atFeatures = 119
    BY <2>3, <1>4, <1>6
  <2> HIDE DEF lo, atFeatures
  <2>5. hasFeatures /\ atName = 121
    BY <2>4, <1>1, <1>3
  <2> HIDE DEF hasFeatures, atName
  <2>6. B[atFeatures + 1] + 256 * B[atFeatures + 2] = 0
    BY <2>4, <1>7
  <2> HIDE DEF app
  <2> QED BY <2>1, <2>2, <2>3, <2>4, <2>5, <2>6, <1>7, <1>8
<1> HIDE DEF app
<1> DEFINE atTime == 10 + Gen!PUBKEY_LEN
           time == Gen!readUint32LE(B, atTime)
           atSignature == IF time = NULL THEN atTime ELSE atTime + 4
           k == Gen!bytesToHex(Gen!Slice(B, 10, atTime))
           a == Gen!AppData(B, atSignature + Gen!SIGNATURE_LEN)
<1>10. Gen!decodeAdvert(B, 10) =
         IF atTime > Len(B) THEN Gen!BareAdvert(NULL, NULL)
         ELSE IF atSignature + Gen!SIGNATURE_LEN > Len(B) THEN Gen!BareAdvert(k, time)
         ELSE [kind |-> "advert", publicKey |-> k, advertTimestamp |-> time,
               name |-> a.name, latitude |-> a.latitude, longitude |-> a.longitude,
               role |-> a.role, features |-> a.features]
  BY Zenon DEF Gen!decodeAdvert, Gen!FullAdvert
<1>11. atTime = 42 /\ ~(atTime > Len(B))
  BY <1>1, <1>3 DEF Gen!PUBKEY_LEN
<1> HIDE DEF atTime
<1>12. time = t
  BY <1>11, <1>6
<1>13. k = Gen!bytesToHex(key)
  BY <1>11, <1>5
<1> HIDE DEF time, k
<1>14. atSignature + Gen!SIGNATURE_LEN = 110
  BY <1>11, <1>12, <1>4 DEF Gen!SIGNATURE_LEN
<1>15. ~(atSignature + Gen!SIGNATURE_LEN > Len(B)) /\ a = app
  BY <1>14, <1>1, <1>3 DEF app
<1> HIDE DEF a, atSignature
<1>16. Gen!decodeAdvert(B, 10) =
         [kind |-> "advert", publicKey |-> k, advertTimestamp |-> time,
          name |-> a.name, latitude |-> a.latitude, longitude |-> a.longitude,
          role |-> a.role, features |-> a.features]
  BY <1>10, <1>11, <1>15, Zenon
<1>17. /\ a.name = name /\ a.latitude = lat /\ a.longitude = lng
       /\ a.role = Gen!roleFromFlags(role) /\ a.features = 0
  BY <1>9, <1>15
<1> QED BY <1>12, <1>13, <1>16, <1>17, Zenon DEF key

\* Texts are bytes.
LEMMA TextIsBytes == \A text \in Seq(Char) : Bytes(text, Len(text))
<1> SUFFICES ASSUME NEW text \in Seq(Char) PROVE Bytes(text, Len(text))
  OBVIOUS
<1>1. /\ Len(text) \in Nat /\ text = [i \in 1 .. Len(text) |-> text[i]]
      /\ \A i \in 1 .. Len(text) : text[i] \in Char
  OBVIOUS
<1>2. \A i \in 1 .. Len(text) : text[i] \in Byte
  BY <1>1, CharFacts
<1> QED BY <1>1, <1>2 DEF Bytes

\* So are texts with a zero byte at the end.
LEMMA EndedText ==
  ASSUME NEW text, NEW n \in Nat, Bytes(text, n)
  PROVE  /\ Bytes(Gen!stringToBytes(text), n + 1)
         /\ \A i \in 1 .. n : Gen!stringToBytes(text)[i] = text[i]
         /\ Gen!stringToBytes(text)[n + 1] = 0
<1>1. 0 \in Byte
  BY DEF Byte
<1> QED BY <1>1 DEF Bytes, Gen!stringToBytes

\* The builder puts an advert together like that.
LEMMA AdvertBuilt ==
  ASSUME NEW s \in Node, NEW d \in Node, NEW t \in Int32 
  PROVE  \E payload \in Seq(Byte) :
           LET B == Gen!buildAdvertPacket(s, d, t)
           IN  /\ LaidOut(B, 4, 1, s.id, d.id, payload)
               /\ AdvertAt(B, 10, s.id, t, s.role, s.lat, s.lng, s.name)
<1> DEFINE id == s.id
           name == s.name
           role == s.role
           z == Gen!stringToBytes(name)
           x1 == id \o Gen!Zeros(28)
           wt == Gen!uint32ToBytes(t)
           wa == Gen!uint32ToBytes(s.lat)
           wo == Gen!uint32ToBytes(s.lng)
           sg == Gen!Zeros(64)
           x2 == x1 \o wt
           x3 == x2 \o sg
           x4 == x3 \o << role >>
           x5 == x4 \o wa
           x6 == x5 \o wo
           x7 == x6 \o << 0, 0 >>
           x8 == x7 \o z
           n == Len(name)
<1>1. /\ id \in Seq(Byte) /\ Len(id) = 4 /\ name \in Seq(Char)
      /\ s.lat \in Int32 /\ s.lng \in Int32 /\ role \in 1 .. 3
  BY GeneratorAssumption
<1>2. Gen!buildAdvertPacket(s, d, t) = Gen!buildPacket(4, 1, s, d, x8)
  <2>1. Gen!PUBKEY_LEN - 4 = 28 /\ Gen!SIGNATURE_LEN = 64 /\ Gen!PAYLOAD_TYPES.ADVERT = 4
    BY DEF Gen!PUBKEY_LEN, Gen!SIGNATURE_LEN, Gen!PAYLOAD_TYPES
  <2> QED BY <2>1, Zenon DEF Gen!buildAdvertPacket, Gen!float32ToBytes
<1>3. n \in Nat /\ Bytes(z, n + 1)
  <2>1. n \in Nat /\ Bytes(name, n)
    BY <1>1, TextIsBytes DEF Bytes
  <2> HIDE DEF n
  <2> QED BY <2>1, EndedText
<1> DEFINE y1 == << role >>
           y2 == << 0, 0 >>
<1>4. Bytes(wt, 4) /\ Bytes(wa, 4) /\ Bytes(wo, 4)
  BY <1>1, WordIsBytes
<1>5. Bytes(Gen!Zeros(28), 28) /\ Bytes(sg, 64)
  BY ZerosFacts
<1>6. Bytes(id, 4) /\ Bytes(y1, 1) /\ Bytes(y2, 2)
  <2>1. role \in Byte /\ 0 \in Byte
    BY <1>1 DEF Byte
  <2> QED BY <1>1, <2>1 DEF Bytes
<1> HIDE DEF id, name, role, z, wt, wa, wo, sg, n, y1, y2, x1, x2, x3, x4, x5, x6, x7, x8
<1>11. Bytes(x1, 32) /\ Holds(x1, 0, x1)
  <2>0. IsRow(x1, id, Gen!Zeros(28))
    BY <1>5, <1>6, RowOf DEF x1
  <2>1. Bytes(x1, 32)
    BY <1>5, <1>6, <2>0, RowLength
  <2> QED BY <2>1 DEF Bytes, Holds
<1>12. /\ Holds(x2, 0, x1) /\ Holds(x2, 32, wt)
       /\ Bytes(x2, 36)
  <2>1. IsRow(x2, x1, wt)
    BY <1>4, <1>11, RowOf DEF x2
  <2>2. Bytes(x2, 36)
    BY <1>4, <1>11, <2>1, RowLength
  <2> QED BY <1>4, <1>11, <2>1, <2>2, RowAdds, RowKeeps
<1>13. /\ Holds(x3, 0, x1) /\ Holds(x3, 32, wt)
       /\ Bytes(x3, 100)
  <2>1. IsRow(x3, x2, sg)
    BY <1>5, <1>12, RowOf DEF x3
  <2>2. Bytes(x3, 100)
    BY <1>5, <1>12, <2>1, RowLength
  <2> QED BY <1>5, <1>12, <2>1, <2>2, RowAdds, RowKeeps
<1>14. /\ Holds(x4, 0, x1) /\ Holds(x4, 32, wt) /\ Holds(x4, 100, y1)
       /\ Bytes(x4, 101)
  <2>1. IsRow(x4, x3, y1)
    BY <1>6, <1>13, RowOf DEF x4, y1
  <2>2. Bytes(x4, 101)
    BY <1>6, <1>13, <2>1, RowLength
  <2> QED BY <1>6, <1>13, <2>1, <2>2, RowAdds, RowKeeps
<1>15. /\ Holds(x5, 0, x1) /\ Holds(x5, 32, wt) /\ Holds(x5, 100, y1) /\ Holds(x5, 101, wa)
       /\ Bytes(x5, 105)
  <2>1. IsRow(x5, x4, wa)
    BY <1>4, <1>14, RowOf DEF x5
  <2>2. Bytes(x5, 105)
    BY <1>4, <1>14, <2>1, RowLength
  <2> QED BY <1>4, <1>14, <2>1, <2>2, RowAdds, RowKeeps
<1>16. /\ Holds(x6, 0, x1) /\ Holds(x6, 32, wt) /\ Holds(x6, 100, y1) /\ Holds(x6, 101, wa)
       /\ Holds(x6, 105, wo)
       /\ Bytes(x6, 109)
  <2>1. IsRow(x6, x5, wo)
    BY <1>4, <1>15, RowOf DEF x6
  <2>2. Bytes(x6, 109)
    BY <1>4, <1>15, <2>1, RowLength
  <2> QED BY <1>4, <1>15, <2>1, <2>2, RowAdds, RowKeeps
<1>17. /\ Holds(x7, 0, x1) /\ Holds(x7, 32, wt) /\ Holds(x7, 100, y1) /\ Holds(x7, 101, wa)
       /\ Holds(x7, 105, wo) /\ Holds(x7, 109, y2)
       /\ Bytes(x7, 111)
  <2>1. IsRow(x7, x6, y2)
    BY <1>6, <1>16, RowOf DEF x7, y2
  <2>2. Bytes(x7, 111)
    BY <1>6, <1>16, <2>1, RowLength
  <2> QED BY <1>6, <1>16, <2>1, <2>2, RowAdds, RowKeeps
<1>18. /\ Holds(x8, 0, x1) /\ Holds(x8, 32, wt) /\ Holds(x8, 100, y1) /\ Holds(x8, 101, wa)
       /\ Holds(x8, 105, wo) /\ Holds(x8, 109, y2) /\ Holds(x8, 111, z)
       /\ Bytes(x8, 112 + n)
  <2>1. 111 + (n + 1) = 112 + n
    BY <1>3
  <2>2. IsRow(x8, x7, z)
    BY <1>3, <1>17, RowOf DEF x8
  <2>3. Bytes(x8, 112 + n)
    BY <1>3, <1>17, <2>1, <2>2, RowLength
  <2> QED BY <1>3, <1>17, <2>2, <2>3, RowAdds, RowKeeps
<1> DEFINE B == Gen!buildPacket(4, 1, s, d, x8)
<1>19. x8 \in Seq(Byte) /\ LaidOut(B, 4, 1, s.id, d.id, x8)
  BY <1>18, PacketLayout DEF Bytes
<1> HIDE DEF B
<1>20. Holds(B, 10, x8) /\ Len(B) = 10 + Len(x8)
  <2>1. s.id \in Seq(Byte) /\ Len(s.id) = 4 /\ d.id \in Seq(Byte) /\ Len(d.id) = 4
    BY GeneratorAssumption
  <2> QED BY <1>19, <2>1, LaidOutHolds
<1>21. /\ Holds(B, 10 + 0, x1) /\ Holds(B, 10 + 32, wt) /\ Holds(B, 10 + 100, y1)
       /\ Holds(B, 10 + 101, wa) /\ Holds(B, 10 + 105, wo) /\ Holds(B, 10 + 109, y2)
       /\ Holds(B, 10 + 111, z)
  BY <1>18, <1>20, HoldsWithin
<1>22. Len(B) = 10 + 112 + n /\ 10 + 0 = 10
  BY <1>18, <1>20, <1>3 DEF Bytes
<1>23. AdvertAt(B, 10, s.id, t, s.role, s.lat, s.lng, s.name)
  BY <1>21, <1>22 DEF AdvertAt, x1, wt, y1, wa, wo, y2, z, n, id, role, name
<1> QED BY <1>2, <1>19, <1>23 DEF B

\* An advert is read as its node.
LEMMA AdvertSays ==
  ASSUME NEW s \in Node, NEW d \in Node, NEW t \in Int32
  PROVE  LET r == Gen!decodePacket(Gen!bytesToHex(Gen!buildAdvertPacket(s, d, t)))
             read == r.decodedPayload
         IN  /\ r.type = "advert" /\ r.hopPath = << IdOf(s), IdOf(d) >>
             /\ r.sourceId = IdOf(s) /\ r.destId = IdOf(d) /\ r.hops = 2
             /\ read.name = s.name /\ read.role = RoleOf(s)
             /\ read.latitude = s.lat /\ read.longitude = s.lng
             /\ read.advertTimestamp = t /\ read.features = 0
             /\ SubSeq(read.publicKey, 1, 8) = IdOf(s)
<1> DEFINE B == Gen!buildAdvertPacket(s, d, t)
           r == Gen!decodePacket(Gen!bytesToHex(B))
           read == Gen!decodeAdvert(B, 10)
           key == s.id \o Gen!Zeros(28)
<1>1. /\ s.id \in Seq(Byte) /\ Len(s.id) = 4 /\ d.id \in Seq(Byte) /\ Len(d.id) = 4
      /\ s.name \in Seq(Char) /\ s.name # << >>
      /\ s.lat \in Int32 /\ s.lng \in Int32 /\ s.role \in 1 .. 3
  BY GeneratorAssumption
<1>2. PICK payload \in Seq(Byte) :
        /\ LaidOut(B, 4, 1, s.id, d.id, payload)
        /\ AdvertAt(B, 10, s.id, t, s.role, s.lat, s.lng, s.name)
  BY AdvertBuilt
<1> HIDE DEF B
<1>3. r = Reading(B, 4, 1, s.id, d.id)
  <2> DEFINE u == s.id
             v == d.id
  <2>1. u \in Seq(Byte) /\ Len(u) = 4 /\ v \in Seq(Byte) /\ Len(v) = 4
    BY <1>1
  <2>2. LaidOut(B, 4, 1, u, v, payload)
    BY <1>2
  <2> HIDE DEF u, v
  <2>3. r = Reading(B, 4, 1, u, v)
    BY <2>1, <2>2, PacketRead
  <2> QED BY <2>3 DEF u, v
<1>4. read = [kind |-> "advert", publicKey |-> Gen!bytesToHex(key),
              advertTimestamp |-> t, name |-> s.name, latitude |-> s.lat,
              longitude |-> s.lng, role |-> Gen!roleFromFlags(s.role), features |-> 0]
  <2> DEFINE id == s.id
             name == s.name
             role == s.role
             lat == s.lat
             lng == s.lng
  <2>1. /\ id \in Seq(Byte) /\ Len(id) = 4 /\ role \in 1 .. 3 /\ lat \in Int32
        /\ lng \in Int32 /\ name \in Seq(Char) /\ name # << >>
        /\ AdvertAt(B, 10, id, t, role, lat, lng, name)
    BY <1>1, <1>2
  <2> HIDE DEF id, name, role, lat, lng
  <2>2. read = [kind |-> "advert", publicKey |-> Gen!bytesToHex(id \o Gen!Zeros(28)),
                advertTimestamp |-> t, name |-> name, latitude |-> lat,
                longitude |-> lng, role |-> Gen!roleFromFlags(role), features |-> 0]
    BY <2>1, AdvertRead
  <2> QED BY <2>2, Zenon DEF id, name, role, lat, lng
<1>5. Gen!decodePayload(4, B, 10) = read /\ Gen!resolvePacketType(4, 1) = "advert"
  <2>1. Gen!decodePayload(4, B, 10) = read
    BY DEF Gen!decodePayload, Gen!PAYLOAD_TYPES
  <2> HIDE DEF read
  <2>2. {x \in DOMAIN Gen!PACKET_TYPES : Gen!PAYLOAD_TYPES[x] = 4} = {"ADVERT"}
    BY DEF Gen!PACKET_TYPES, Gen!PAYLOAD_TYPES
  <2>3. Gen!PACKET_TYPES["ADVERT"] = "advert"
    BY DEF Gen!PACKET_TYPES
  <2> QED BY <2>1, <2>2, <2>3 DEF Gen!resolvePacketType
<1>6. Gen!roleFromFlags(s.role) = RoleOf(s)
  <2> DEFINE role == s.role
  <2>1. role = 1 \/ role = 2 \/ role = 3
    BY <1>1
  <2> HIDE DEF role
  <2>2. Gen!roleFromFlags(role) = << "repeater", "room_server", "companion" >>[role]
    BY <2>1 DEF Gen!roleFromFlags
  <2> QED BY <2>2, Zenon DEF RoleOf, role
<1>7. SubSeq(Gen!bytesToHex(key), 1, 8) = IdOf(s)
  <2> DEFINE id == s.id
             zz == Gen!Zeros(28)
             k == id \o zz
  <2>1. id \in Seq(Byte) /\ Len(id) = 4
    BY <1>1
  <2>2. Bytes(id, 4) /\ Bytes(zz, 28)
    BY <2>1, ZerosFacts DEF Bytes
  <2> HIDE DEF id, zz
  <2>3. Holds(id, 0, id)
    BY <2>1 DEF Holds
  <2>0. IsRow(k, id, zz)
    BY <2>2, RowOf
  <2> HIDE DEF k
  <2>4. Bytes(k, 32)
    <3>1. 32 = 4 + 28
      OBVIOUS
    <3> QED BY <2>0, <2>2, <3>1, RowLength
  <2>6. Holds(k, 0, id)
    BY <2>0, <2>3, RowKeeps
  <2>5. k \in Seq(Byte) /\ Len(k) >= 4 /\ \A i \in 1 .. 4 : k[i] = id[i]
    BY <2>1, <2>4, <2>6 DEF Bytes, Holds
  <2> HIDE DEF k
  <2>7. SubSeq(Gen!bytesToHex(k), 1, 8) = Gen!bytesToHex(id)
    BY <2>1, <2>5, KeyStartsWithId
  <2> QED BY <2>7 DEF k, id, zz, IdOf
<1> HIDE DEF read
<1>8. /\ r.type = "advert" /\ r.sourceId = IdOf(s) /\ r.destId = IdOf(d) /\ r.hops = 2
      /\ r.hopPath = << IdOf(s), IdOf(d) >> /\ r.decodedPayload = read
  BY <1>3, <1>5 DEF Reading, IdOf
<1> HIDE DEF r, key
<1>9. /\ read.name = s.name /\ read.role = RoleOf(s)
      /\ read.latitude = s.lat /\ read.longitude = s.lng
      /\ read.advertTimestamp = t /\ read.features = 0
      /\ read.publicKey = Gen!bytesToHex(key)
  BY <1>4, <1>6
<1> QED BY <1>7, <1>8, <1>9 DEF r, B

\* A packet built from a payload that is bytes is read by its layout.
LEMMA BuiltRead ==
  ASSUME NEW pt \in 0 .. 15, NEW rt \in 1 .. 2, NEW s \in Node, NEW d \in Node,
         NEW payload \in Seq(Byte)
  PROVE  LET B == Gen!buildPacket(pt, rt, s, d, payload)
         IN  /\ Gen!decodePacket(Gen!bytesToHex(B)) = Reading(B, pt, rt, s.id, d.id)
             /\ Holds(B, 10, payload) /\ Len(B) = 10 + Len(payload) /\ B \in Seq(Byte)
             /\ Gen!From(B, 10) = payload
<1> DEFINE B == Gen!buildPacket(pt, rt, s, d, payload)
           u == s.id
           v == d.id
<1>1. u \in Seq(Byte) /\ Len(u) = 4 /\ v \in Seq(Byte) /\ Len(v) = 4
  BY GeneratorAssumption
<1>2. LaidOut(B, pt, rt, u, v, payload)
  BY PacketLayout
<1> HIDE DEF B, u, v
<1>3. Gen!decodePacket(Gen!bytesToHex(B)) = Reading(B, pt, rt, u, v)
  BY <1>1, <1>2, PacketRead
<1>4. Holds(B, 10, payload) /\ Len(B) = 10 + Len(payload) /\ B \in Seq(Byte)
  BY <1>1, <1>2, LaidOutHolds
<1>5. Gen!From(B, 10) = payload
  BY <1>4, HeldRest
<1> QED BY <1>3, <1>4, <1>5 DEF B, u, v

\* The size of an interval, as the decoder counts.
LEMMA SizeOfPlaces == \A n \in Nat : Gen!Cardinality(1 .. n) = n
<1>1. \A S : Gen!Cardinality(S) = Cardinality(S)
  BY DEF Cardinality, Gen!Cardinality
<1> QED BY <1>1, FS_Interval

\* A text message is read as its text.
LEMMA TextSays ==
  ASSUME NEW s \in Node, NEW d \in Node, NEW message \in Message
  PROVE  LET r == Gen!decodePacket(Gen!bytesToHex(Gen!buildTextMsgPacket(s, d, message)))
             read == r.decodedPayload
         IN  /\ r.type = "text_message" /\ r.hopPath = << IdOf(s), IdOf(d) >>
             /\ r.sourceId = IdOf(s) /\ r.destId = IdOf(d) /\ r.hops = 2
             /\ read.payload = message /\ ~read.encrypted
<1> DEFINE z == Gen!stringToBytes(message)
           B == Gen!buildPacket(2, 2, s, d, z)
           n == Len(message)
           r == Gen!decodePacket(Gen!bytesToHex(B))
           read == Gen!decodeDirect(B, 10)
<1>1. Gen!buildTextMsgPacket(s, d, message) = B
  BY DEF Gen!buildTextMsgPacket, Gen!PAYLOAD_TYPES
<1>2. n \in Nat /\ message \in Seq(Char) /\ \A i \in 1 .. n : message[i] \in Char
  BY GeneratorAssumption
<1>3. Bytes(message, n)
  BY <1>2, TextIsBytes
<1> HIDE DEF n, B
<1>4. Bytes(z, n + 1) /\ (\A i \in 1 .. n : z[i] = message[i]) /\ z[n + 1] = 0
  BY <1>2, <1>3, EndedText
<1> HIDE DEF z
<1>5. /\ r = Reading(B, 2, 2, s.id, d.id)
      /\ Holds(B, 10, z) /\ Len(B) = 10 + Len(z) /\ B \in Seq(Byte)
  <2>1. z \in Seq(Byte)
    BY <1>4 DEF Bytes
  <2> QED BY <2>1, BuiltRead DEF B
<1>6. /\ \A i \in 1 .. n : B[10 + i] = message[i]
      /\ B[10 + n + 1] = 0 /\ Len(B) = 10 + n + 1
  <2>1. Len(z) = n + 1
    BY <1>4 DEF Bytes
  <2>2. \A i \in 1 .. Len(z) : B[10 + i] = z[i]
    BY <1>5 DEF Holds
  <2>3. n + 1 \in 1 .. Len(z) /\ \A i \in 1 .. n : i \in 1 .. Len(z)
    BY <2>1, <1>2
  <2>4. 10 + (n + 1) = 10 + n + 1
    BY <1>2
  <2> QED BY <2>1, <2>2, <2>3, <2>4, <1>4, <1>5
<1>7. Gen!Text(Gen!From(B, 10)) = message
  <2>1. Len(B) = 10 + Len(message) + 1 /\ B[10 + Len(message) + 1] = 0
    BY <1>6 DEF n
  <2>2. \A i \in 1 .. Len(message) : B[10 + i] = message[i]
    BY <1>6 DEF n
  <2> QED BY <1>2, <1>5, <2>1, <2>2, TextRoundTrip
<1>8. read.payload = message /\ ~read.encrypted
  <2> DEFINE payload == Gen!Text(Gen!From(B, 10))
             shown == {i \in DOMAIN payload : Gen!Printable(B[10 + i])}
             enc == \/ 10 >= Len(B)
                    \/ payload # << >> /\ 2 * Gen!Cardinality(shown) < Len(payload)
  <2>1. read = [kind |-> "direct", payload |-> payload, encrypted |-> enc]
    BY Zenon DEF Gen!decodeDirect
  <2>2. payload = message /\ ~(10 >= Len(B))
    BY <1>2, <1>6, <1>7
  <2> HIDE DEF payload
  <2>3. shown = 1 .. n
    <3>1. DOMAIN payload = 1 .. n
      BY <2>2, <1>2 DEF n
    <3>2. \A i \in 1 .. n : Gen!Printable(B[10 + i])
      BY <1>2, <1>6, CharFacts
    <3> QED BY <3>1, <3>2
  <2> HIDE DEF shown
  <2>4. Gen!Cardinality(shown) = n
    BY <2>3, <1>2, SizeOfPlaces
  <2>5. ~enc
    BY <2>2, <2>4, <1>2 DEF n
  <2> HIDE DEF enc, read
  <2> QED BY <2>1, <2>2, <2>5
<1>9. Gen!decodePayload(2, B, 10) = read /\ Gen!resolvePacketType(2, 2) = "text_message"
  <2>1. Gen!decodePayload(2, B, 10) = read
    BY DEF Gen!decodePayload, Gen!PAYLOAD_TYPES
  <2> HIDE DEF read
  <2>2. {x \in DOMAIN Gen!PACKET_TYPES : Gen!PAYLOAD_TYPES[x] = 2} = {"TXT_MSG"}
    BY DEF Gen!PACKET_TYPES, Gen!PAYLOAD_TYPES
  <2>3. Gen!PACKET_TYPES["TXT_MSG"] = "text_message"
    BY DEF Gen!PACKET_TYPES
  <2> QED BY <2>1, <2>2, <2>3 DEF Gen!resolvePacketType
<1> HIDE DEF read
<1>10. /\ r.type = "text_message" /\ r.sourceId = IdOf(s) /\ r.destId = IdOf(d) /\ r.hops = 2
       /\ r.hopPath = << IdOf(s), IdOf(d) >> /\ r.decodedPayload = read
  BY <1>5, <1>9 DEF Reading, IdOf
<1> HIDE DEF r
<1> QED BY <1>1, <1>8, <1>10 DEF r

\* A group text is read as one that no key fits.
LEMMA GroupTextSays ==
  ASSUME NEW s \in Node, NEW d \in Node, NEW message \in Message
  PROVE  LET r == Gen!decodePacket(Gen!bytesToHex(Gen!buildGroupTextPacket(s, d, message)))
             read == r.decodedPayload
         IN  /\ r.type = "group_text" /\ r.hopPath = << IdOf(s), IdOf(d) >>
             /\ r.sourceId = IdOf(s) /\ r.destId = IdOf(d) /\ r.hops = 2
             /\ read.encrypted /\ r.channel = NULL
<1> DEFINE z == Gen!stringToBytes(message)
           B == Gen!buildPacket(5, 1, s, d, z)
           r == Gen!decodePacket(Gen!bytesToHex(B))
           read == Gen!decodeChannel(B, 10)
<1>1. Gen!buildGroupTextPacket(s, d, message) = B
  BY DEF Gen!buildGroupTextPacket, Gen!PAYLOAD_TYPES
<1>2. z \in Seq(Byte)
  <2>1. message \in Seq(Char) /\ Len(message) \in Nat
    BY GeneratorAssumption
  <2>2. Bytes(z, Len(message) + 1)
    BY <2>1, TextIsBytes, EndedText
  <2> QED BY <2>2 DEF Bytes
<1>3. \A k \in 1 .. Len(ChannelKeys) : ~Gen!verifyMac(z, ChannelKeys[k].key)
  BY GeneratorAssumption
<1> HIDE DEF z, B
<1>4. r = Reading(B, 5, 1, s.id, d.id) /\ Gen!From(B, 10) = z
  BY <1>2, BuiltRead DEF B
<1>5. read = [kind |-> "channel", channel |-> NULL, message |-> NULL, encrypted |-> TRUE]
  <2> DEFINE pay == Gen!From(B, 10)
             I == {i \in 1 .. Len(ChannelKeys) :
                     /\ Gen!verifyMac(pay, ChannelKeys[i].key)
                     /\ Gen!isValidText(Gen!PlainUnder(pay, ChannelKeys[i].key))}
  <2>1. I = {}
    BY <1>3, <1>4
  <2> HIDE DEF I
  <2>2. (IF I # {} THEN Gen!Min(I) ELSE 0) = 0
    BY <2>1
  <2>3. Gen!SelectInSeq(ChannelKeys, LAMBDA c :
          Gen!verifyMac(pay, c.key) /\ Gen!isValidText(Gen!PlainUnder(pay, c.key))) = 0
    BY <2>2, Zenon DEF Gen!SelectInSeq, I
  <2> QED BY <2>3, Zenon DEF Gen!decodeChannel
<1>6. Gen!decodePayload(5, B, 10) = read /\ Gen!resolvePacketType(5, 1) = "group_text"
  <2>1. Gen!decodePayload(5, B, 10) = read
    BY DEF Gen!decodePayload, Gen!PAYLOAD_TYPES
  <2> HIDE DEF read
  <2>2. {x \in DOMAIN Gen!PACKET_TYPES : Gen!PAYLOAD_TYPES[x] = 5} = {"GRP_TXT"}
    BY DEF Gen!PACKET_TYPES, Gen!PAYLOAD_TYPES
  <2>3. Gen!PACKET_TYPES["GRP_TXT"] = "group_text"
    BY DEF Gen!PACKET_TYPES
  <2> QED BY <2>1, <2>2, <2>3 DEF Gen!resolvePacketType
<1> HIDE DEF read
<1>7. /\ r.type = "group_text" /\ r.sourceId = IdOf(s) /\ r.destId = IdOf(d) /\ r.hops = 2
      /\ r.hopPath = << IdOf(s), IdOf(d) >> /\ r.decodedPayload = read
      /\ r.channel = IF read.kind = "channel" THEN read.channel ELSE NULL
  BY <1>4, <1>6 DEF Reading, IdOf
<1> HIDE DEF r
<1>8. read.kind = "channel" /\ read.channel = NULL /\ read.encrypted
  BY <1>5
<1> QED BY <1>1, <1>7, <1>8 DEF r

\* The ids of some nodes.
IdsOf(hops) == [i \in DOMAIN hops |-> hops[i].id]

\* x has the ids of the first n hops in a row.
HasIds(x, hops, n) ==
  /\ Bytes(x, 4 * n)
  /\ \A i \in 1 .. n : Holds(x, 4 * (i - 1), hops[i].id)

\* What the flattening of sequences computes by recursion, from one on.
Flattens(f, seqs) ==
  f = [i \in 1 .. Len(seqs) |-> IF i = 1 THEN seqs[i] ELSE f[i - 1] \o seqs[i]]

\* There is such a function.
LEMMA FlattenExists ==
  ASSUME NEW seqs, seqs \in Seq(Seq(Byte))
  PROVE  \E f : Flattens(f, seqs)
<1> DEFINE N == Len(seqs)
           T == Seq(Byte)
           b == << >>
           step == [n \in 1 .. N |-> [t \in T |-> t \o seqs[n]]]
<1>1. N \in Nat /\ \A n \in 1 .. N : seqs[n] \in T
  OBVIOUS
<1>2. b \in T
  OBVIOUS
<1>3. step \in [1 .. N -> [T -> T]]
  <2> SUFFICES ASSUME NEW n \in 1 .. N, NEW t \in T PROVE t \o seqs[n] \in T
    OBVIOUS
  <2> QED BY <1>1
<1> HIDE DEF N, b
<1>4. PICK g \in [0 .. N -> T] : Follows(g, b, step, N)
  <2> HIDE DEF T, step
  <2> QED BY <1>1, <1>2, <1>3, Recursion
<1> DEFINE f == [i \in 1 .. N |-> g[i]]
<1>5. \A i \in 1 .. N : g[i] = g[i - 1] \o seqs[i]
  <2> SUFFICES ASSUME NEW i \in 1 .. N PROVE g[i] = g[i - 1] \o seqs[i]
    OBVIOUS
  <2>1. g[i - 1] \in T
    BY <1>1
  <2>2. g[i] = step[i][g[i - 1]]
    BY <1>4 DEF Follows
  <2> HIDE DEF T
  <2> QED BY <2>1, <2>2
<1>6. ASSUME NEW i \in 1 .. N
      PROVE  f[i] = IF i = 1 THEN seqs[i] ELSE f[i - 1] \o seqs[i]
  <2>1. CASE i = 1
    <3>1. g[0] = << >>
      BY <1>4 DEF Follows, b
    <3>2. seqs[1] \in Seq(Byte)
      BY <1>1, <2>1
    <3>3. << >> \o seqs[1] = seqs[1]
      BY <3>2
    <3>4. g[1] = g[0] \o seqs[1]
      <4>1. g[i] = g[i - 1] \o seqs[i]
        BY <1>5
      <4>2. i - 1 = 0
        BY <2>1
      <4> QED BY <4>1, <4>2, <2>1
    <3> QED BY <2>1, <3>1, <3>3, <3>4
  <2>2. CASE i # 1
    <3>1. i - 1 \in 1 .. N
      BY <2>2, <1>1
    <3>2. f[i - 1] = g[i - 1] /\ f[i] = g[i]
      BY <3>1
    <3> QED BY <1>5, <2>2, <3>2, Zenon
  <2> QED BY <2>1, <2>2
<1> HIDE DEF f
<1>7. f = [i \in 1 .. N |-> f[i]]
  BY DEF f
<1>8. Flattens(f, seqs)
  BY <1>6, <1>7, Zenon DEF Flattens, N
<1> QED BY <1>8

\* Bytes hold themselves.
LEMMA HoldsItself == \A x, n : Bytes(x, n) => Holds(x, 0, x)
BY DEF Bytes, Holds

\* The ids of hops, flattened, are the ids in a row.
LEMMA FlattenedIds ==
  ASSUME NEW hops, hops \in Seq(Node)
  PROVE  HasIds(Gen!FlattenSeq(IdsOf(hops)), hops, Len(hops))
<1> DEFINE N == Len(hops)
           seqs == IdsOf(hops)
           flat == CHOOSE f : Flattens(f, seqs)
<1>1. N \in Nat /\ DOMAIN hops = 1 .. N
  OBVIOUS
<1>2. \A i \in 1 .. N : hops[i].id \in Seq(Byte) /\ Bytes(hops[i].id, 4)
  BY GeneratorAssumption DEF Bytes
<1> HIDE DEF N
<1>3. seqs \in Seq(Seq(Byte)) /\ Len(seqs) = N /\ \A i \in 1 .. N : seqs[i] = hops[i].id
  BY <1>1, <1>2 DEF IdsOf
<1> HIDE DEF seqs
<1>4. CASE N = 0
  <2>1. Gen!FlattenSeq(seqs) = seqs
    BY <1>3, <1>4 DEF Gen!FlattenSeq
  <2>2. seqs = << >>
    BY <1>3, <1>4
  <2>3. Bytes(<< >>, 0) /\ 4 * 0 = 0 /\ 1 .. 0 = {}
    BY DEF Bytes
  <2>4. Bytes(seqs, 4 * N) /\ 1 .. N = {}
    BY <2>2, <2>3, <1>4
  <2> QED BY <2>1, <2>4 DEF HasIds, N, seqs
<1>5. CASE N # 0
  <2>1. Flattens(flat, seqs)
    BY <1>3, FlattenExists
  <2>2. Gen!FlattenSeq(seqs) = flat[N]
    <3>1. Len(seqs) # 0
      BY <1>3, <1>5
    <3>2. Gen!FlattenSeq(seqs) = flat[Len(seqs)]
      BY <3>1, Zenon DEF Gen!FlattenSeq, Flattens
    <3> QED BY <3>2, <1>3
  <2> HIDE DEF flat
  <2>3. \A i \in 1 .. N : flat[i] = IF i = 1 THEN seqs[i] ELSE flat[i - 1] \o seqs[i]
    BY <2>1, <1>3, Zenon DEF Flattens
  <2> DEFINE P == {0} \cup {n \in 1 .. N : HasIds(flat[n], hops, n)}
  <2>4. ASSUME NEW n \in 1 .. N, n - 1 \in P
        PROVE  HasIds(flat[n], hops, n)
    <3> DEFINE x == flat[n]
               id == hops[n].id
    <3>1. Bytes(id, 4)
      BY <1>2
    <3>2. CASE n = 1
      <4>1. x = id
        BY <2>3, <1>3, <3>2
      <4> HIDE DEF x, id
      <4>2. Bytes(x, 4) /\ Holds(x, 0, id)
        BY <3>1, <4>1, HoldsItself
      <4>3. 4 * 1 = 4 /\ 4 * (1 - 1) = 0 /\ \A i \in 1 .. 1 : i = 1
        OBVIOUS
      <4> QED BY <3>2, <4>2, <4>3 DEF HasIds, x, id
    <3>3. CASE n # 1
      <4> DEFINE w == flat[n - 1]
      <4>1. n - 1 \in 1 .. N
        BY <3>3, <1>1
      <4>2. HasIds(w, hops, n - 1)
        BY <2>4, <4>1
      <4>3. x = w \o id
        BY <2>3, <1>3, <3>3, Zenon
      <4> HIDE DEF x, w, id
      <4>4. Bytes(w, 4 * (n - 1))
        BY <4>2 DEF HasIds
      <4>5. IsRow(x, w, id)
        BY <3>1, <4>3, <4>4, RowOf
      <4>6. 4 * n = 4 * (n - 1) + 4
        BY <1>1
      <4>7. Bytes(x, 4 * n)
        BY <3>1, <4>4, <4>5, <4>6, RowLength
      <4>8. Holds(x, 4 * (n - 1), id)
        BY <4>4, <4>5, RowAdds
      <4>9. ASSUME NEW i \in 1 .. n PROVE Holds(x, 4 * (i - 1), hops[i].id)
        <5>1. CASE i = n
          BY <5>1, <4>8 DEF id
        <5>2. CASE i # n
          <6>1. i \in 1 .. n - 1
            BY <5>2, <1>1
          <6>2. Holds(w, 4 * (i - 1), hops[i].id)
            BY <6>1, <4>2 DEF HasIds
          <6> QED BY <6>2, <4>5, RowKeeps
        <5> QED BY <5>1, <5>2
      <4> QED BY <4>7, <4>9 DEF HasIds, x
    <3> QED BY <3>2, <3>3
  <2> HIDE DEF flat
  <2>5. 0 \in P /\ \A n \in 1 .. N : n - 1 \in P => n \in P
    BY <2>4
  <2> HIDE DEF P
  <2>6. \A n \in 0 .. N : n \in P
    BY <1>1, <2>5, BoundedInduction
  <2>7. N \in P /\ N # 0
    BY <1>1, <1>5, <2>6
  <2>8. HasIds(flat[N], hops, N)
    BY <2>7 DEF P
  <2> QED BY <2>2, <2>8 DEF N, seqs
<1> QED BY <1>4, <1>5

\* The hops are read as they are in a row, after one byte.
LEMMA HopsRead ==
  ASSUME NEW hops \in Seq(Node), NEW rest \in Seq(Byte), NEW flat,
         HasIds(flat, hops, Len(hops)), Holds(rest, 1, flat), Len(rest) = 1 + Len(flat)
  PROVE  /\ (Len(rest) - 1) \div 4 = Len(hops)
         /\ \A i \in 1 .. Len(hops) :
              Gen!bytesToHex(Gen!Slice(rest, 1 + (i - 1) * 4, 1 + i * 4)) = IdOf(hops[i])
<1> DEFINE N == Len(hops)
<1>1. N \in Nat /\ \A i \in 1 .. N : hops[i] \in Node
  OBVIOUS
<1> HIDE DEF N
<1>2. (Len(rest) - 1) \div 4 = N
  <2>1. Len(flat) = 4 * N
    BY DEF HasIds, Bytes, N
  <2>2. (1 + 4 * N - 1) \div 4 = N
    BY <1>1
  <2> QED BY <2>1, <2>2
<1>3. ASSUME NEW i \in 1 .. N
      PROVE  Gen!Slice(rest, 1 + (i - 1) * 4, 1 + i * 4) = hops[i].id
  <2> DEFINE id == hops[i].id
             at == 4 * (i - 1)
  <2>1. id \in Seq(Byte) /\ Len(id) = 4
    BY <1>1, GeneratorAssumption
  <2>2. Holds(flat, at, id)
    BY DEF HasIds, N
  <2> HIDE DEF id, at
  <2>3. Holds(rest, 1 + at, id)
    BY <2>2, HoldsWithin
  <2>4. Gen!Slice(rest, 1 + at, (1 + at) + Len(id)) = id
    BY <2>3, HeldSlice
  <2>5. 1 + at = 1 + (i - 1) * 4 /\ (1 + at) + 4 = 1 + i * 4
    BY <1>1 DEF at
  <2>6. (1 + at) + Len(id) = (1 + at) + 4
    BY <2>1
  <2> QED BY <2>4, <2>5, <2>6 DEF id
<1> QED BY <1>2, <1>3 DEF N, IdOf

\* A trace is read as its direction and its hops.
LEMMA TraceSays ==
  ASSUME NEW s \in Node, NEW d \in Node, NEW isRequest \in BOOLEAN, NEW hops \in Routes
  PROVE  LET r == Gen!decodePacket(Gen!bytesToHex(Gen!buildTracePacket(s, d, isRequest, hops)))
             read == r.decodedPayload
         IN  /\ r.type = "trace" /\ r.hopPath = << IdOf(s), IdOf(d) >>
             /\ r.sourceId = IdOf(s) /\ r.destId = IdOf(d) /\ r.hops = 2
             /\ read.isRequest = isRequest
             /\ read.path = [k \in DOMAIN hops |-> IdOf(hops[k])]
<1> DEFINE way == IF isRequest THEN 0 ELSE 1
           first == << way >>
           flat == Gen!FlattenSeq(IdsOf(hops))
           z == first \o flat
           B == Gen!buildPacket(9, 1, s, d, z)
           r == Gen!decodePacket(Gen!bytesToHex(B))
           read == Gen!decodeTrace(B, 10)
<1>1. Gen!buildTracePacket(s, d, isRequest, hops) = B
  BY DEF Gen!buildTracePacket, Gen!PAYLOAD_TYPES, IdsOf
<1>2. hops \in Seq(Node)
  BY GeneratorAssumption
<1>3. HasIds(flat, hops, Len(hops))
  BY <1>2, FlattenedIds
<1>4. Bytes(first, 1) /\ first[1] = way /\ (way = 0) = isRequest
  BY DEF Bytes, Byte
<1> HIDE DEF flat, first, way, B
<1>5. Bytes(flat, Len(flat)) /\ Len(flat) \in Nat
  BY <1>3 DEF HasIds, Bytes
<1>6. z \in Seq(Byte) /\ Holds(z, 1, flat) /\ Len(z) = 1 + Len(flat) /\ z[1] = way
  <2>1. IsRow(z, first, flat)
    BY <1>4, <1>5, RowOf
  <2> HIDE DEF z
  <2>2. Bytes(z, 1 + Len(flat))
    BY <1>4, <1>5, <2>1, RowLength
  <2>3. Holds(z, 1, flat)
    BY <1>4, <2>1, RowAdds
  <2>4. Holds(z, 0, first)
    BY <1>4, <2>1, HoldsItself, RowKeeps
  <2>5. z[1] = first[1]
    <3>1. 1 \in 1 .. Len(first) /\ 0 + 1 = 1
      BY <1>4 DEF Bytes
    <3> QED BY <2>4, <3>1 DEF Holds
  <2> QED BY <1>4, <2>2, <2>3, <2>5 DEF Bytes
<1> HIDE DEF z
<1>7. r = Reading(B, 9, 1, s.id, d.id) /\ Gen!From(B, 10) = z
  BY <1>6, BuiltRead DEF B
<1>8. read = [kind |-> "trace", isRequest |-> isRequest,
              path |-> [k \in DOMAIN hops |-> IdOf(hops[k])]]
  <2> DEFINE rest == Gen!From(B, 10)
             size == Gen!NODE_PREFIX_LEN
             hop(i) == Gen!bytesToHex(Gen!Slice(rest, 1 + (i - 1) * size, 1 + i * size))
  <2>1. read = IF rest = << >> THEN [kind |-> "trace", isRequest |-> TRUE, path |-> << >>]
               ELSE [kind |-> "trace", isRequest |-> rest[1] = 0,
                     path |-> [i \in 1 .. (Len(rest) - 1) \div size |-> hop(i)]]
    BY DEF Gen!decodeTrace
  <2>2. rest = z /\ rest # << >> /\ (rest[1] = 0) = isRequest /\ size = 4
    BY <1>4, <1>5, <1>6, <1>7 DEF Gen!NODE_PREFIX_LEN
  <2>3. /\ (Len(rest) - 1) \div size = Len(hops)
        /\ \A i \in 1 .. Len(hops) : hop(i) = IdOf(hops[i])
    BY <1>2, <1>3, <1>6, <2>2, HopsRead
  <2>4. DOMAIN hops = 1 .. Len(hops)
    BY <1>2
  <2> HIDE DEF rest, size, hop, read
  <2>5. [i \in 1 .. Len(hops) |-> hop(i)] = [k \in DOMAIN hops |-> IdOf(hops[k])]
    BY <2>3, <2>4
  <2> QED BY <2>1, <2>2, <2>3, <2>5
<1>9. Gen!decodePayload(9, B, 10) = read /\ Gen!resolvePacketType(9, 1) = "trace"
  <2>1. Gen!decodePayload(9, B, 10) = read
    BY DEF Gen!decodePayload, Gen!PAYLOAD_TYPES
  <2> HIDE DEF read
  <2>2. {x \in DOMAIN Gen!PACKET_TYPES : Gen!PAYLOAD_TYPES[x] = 9} = {"TRACE"}
    BY DEF Gen!PACKET_TYPES, Gen!PAYLOAD_TYPES
  <2>3. Gen!PACKET_TYPES["TRACE"] = "trace"
    BY DEF Gen!PACKET_TYPES
  <2> QED BY <2>1, <2>2, <2>3 DEF Gen!resolvePacketType
<1> HIDE DEF read
<1>10. /\ r.type = "trace" /\ r.sourceId = IdOf(s) /\ r.destId = IdOf(d) /\ r.hops = 2
       /\ r.hopPath = << IdOf(s), IdOf(d) >> /\ r.decodedPayload = read
  BY <1>7, <1>9 DEF Reading, IdOf
<1> HIDE DEF r
<1>11. /\ read.isRequest = isRequest
       /\ read.path = [k \in DOMAIN hops |-> IdOf(hops[k])]
  BY <1>8
<1> QED BY <1>1, <1>10, <1>11 DEF r

\* What the generator may put into a packet of a type.
Fits(type, content) ==
  \/ type = "advert"
  \/ type \in {"group_text", "text_message"} /\ content \in Message
  \/ type = "trace" /\ \E isRequest \in BOOLEAN, hops \in Routes :
       content = [isRequest |-> isRequest, hops |-> hops]

\* The parts of what the server makes of some bytes.
LEMMA DecodedParts ==
  ASSUME NEW bytes, NEW o
  PROVE  LET p == Decoded(bytes, o)
             r == Gen!decodePacket(Gen!bytesToHex(bytes))
         IN  /\ p.type = r.type /\ p.hopPath = r.hopPath /\ p.sourceId = r.sourceId
             /\ p.destId = r.destId /\ p.hops = r.hops /\ p.channel = r.channel
             /\ p.decodedPayload = r.decodedPayload
BY DEF Decoded, HeardBy

\* Each packet the generator builds says what was meant by it.
LEMMA BuiltSays ==
  ASSUME now \in Time, NEW type, NEW source \in Node, NEW dest \in Node, NEW content,
         NEW o, Fits(type, content)
  PROVE  Says(Decoded(Gen!Built(type, source, dest, content, now), o),
              [type |-> type, source |-> source, dest |-> dest, content |-> content,
               at |-> now])
<1> DEFINE B == Gen!Built(type, source, dest, content, now)
           p == Decoded(B, o)
           r == Gen!decodePacket(Gen!bytesToHex(B))
           read == r.decodedPayload
           s == [type |-> type, source |-> source, dest |-> dest, content |-> content,
                 at |-> now]
<1>1. /\ p.type = r.type /\ p.hopPath = r.hopPath /\ p.sourceId = r.sourceId
      /\ p.destId = r.destId /\ p.hops = r.hops /\ p.channel = r.channel
      /\ p.decodedPayload = read
  BY DecodedParts
<1>2. /\ s.type = type /\ s.source = source /\ s.dest = dest /\ s.content = content
      /\ s.at = now
  OBVIOUS
<1> HIDE DEF p, s
<1> DEFINE Path == /\ r.hopPath = << IdOf(source), IdOf(dest) >>
                   /\ r.sourceId = IdOf(source) /\ r.destId = IdOf(dest) /\ r.hops = 2
<1>3. ASSUME type = "advert" PROVE Says(p, s)
  <2>1. B = Gen!buildAdvertPacket(source, dest, now)
    BY <1>3 DEF Gen!Built
  <2>2. now \in Int32
    BY GeneratorAssumption
  <2> DEFINE b == Gen!buildAdvertPacket(source, dest, now)
             q == Gen!decodePacket(Gen!bytesToHex(b))
  <2>3. /\ q.type = "advert" /\ q.hopPath = << IdOf(source), IdOf(dest) >>
        /\ q.sourceId = IdOf(source) /\ q.destId = IdOf(dest) /\ q.hops = 2
        /\ q.decodedPayload.name = source.name
        /\ q.decodedPayload.role = RoleOf(source)
        /\ q.decodedPayload.latitude = source.lat
        /\ q.decodedPayload.longitude = source.lng
        /\ q.decodedPayload.advertTimestamp = now /\ q.decodedPayload.features = 0
        /\ SubSeq(q.decodedPayload.publicKey, 1, 8) = IdOf(source)
    BY <2>2, AdvertSays
  <2>4. r = q
    BY <2>1
  <2> HIDE DEF r, q
  <2> QED BY <1>1, <1>2, <1>3, <2>3, <2>4 DEF Says
<1>4. ASSUME type = "text_message" /\ content \in Message PROVE Says(p, s)
  <2>1. B = Gen!buildTextMsgPacket(source, dest, content)
    BY <1>4 DEF Gen!Built
  <2> DEFINE b == Gen!buildTextMsgPacket(source, dest, content)
             q == Gen!decodePacket(Gen!bytesToHex(b))
  <2>3. /\ q.type = "text_message" /\ q.hopPath = << IdOf(source), IdOf(dest) >>
        /\ q.sourceId = IdOf(source) /\ q.destId = IdOf(dest) /\ q.hops = 2
        /\ q.decodedPayload.payload = content /\ ~q.decodedPayload.encrypted
    BY <1>4, TextSays
  <2>4. r = q
    BY <2>1
  <2> HIDE DEF r, q
  <2> QED BY <1>1, <1>2, <1>4, <2>3, <2>4 DEF Says
<1>5. ASSUME type = "group_text" /\ content \in Message PROVE Says(p, s)
  <2>1. B = Gen!buildGroupTextPacket(source, dest, content)
    BY <1>5 DEF Gen!Built
  <2> DEFINE b == Gen!buildGroupTextPacket(source, dest, content)
             q == Gen!decodePacket(Gen!bytesToHex(b))
  <2>3. /\ q.type = "group_text" /\ q.hopPath = << IdOf(source), IdOf(dest) >>
        /\ q.sourceId = IdOf(source) /\ q.destId = IdOf(dest) /\ q.hops = 2
        /\ q.decodedPayload.encrypted /\ q.channel = NULL
    BY <1>5, GroupTextSays
  <2>4. r = q
    BY <2>1
  <2> HIDE DEF r, q
  <2> QED BY <1>1, <1>2, <1>5, <2>3, <2>4 DEF Says
<1>6. ASSUME type = "trace", NEW isRequest \in BOOLEAN, NEW hops \in Routes,
             content = [isRequest |-> isRequest, hops |-> hops]
      PROVE  Says(p, s)
  <2>0. content.isRequest = isRequest /\ content.hops = hops
    BY <1>6
  <2>1. B = Gen!buildTracePacket(source, dest, isRequest, hops)
    BY <1>6, <2>0 DEF Gen!Built
  <2> DEFINE b == Gen!buildTracePacket(source, dest, isRequest, hops)
             q == Gen!decodePacket(Gen!bytesToHex(b))
  <2>3. /\ q.type = "trace" /\ q.hopPath = << IdOf(source), IdOf(dest) >>
        /\ q.sourceId = IdOf(source) /\ q.destId = IdOf(dest) /\ q.hops = 2
        /\ q.decodedPayload.isRequest = isRequest
        /\ q.decodedPayload.path = [k \in DOMAIN hops |-> IdOf(hops[k])]
    BY TraceSays
  <2>4. r = q
    BY <2>1
  <2> HIDE DEF r, q
  <2> QED BY <1>1, <1>2, <1>6, <2>0, <2>3, <2>4 DEF Says
<1> QED BY <1>3, <1>4, <1>5, <1>6 DEF Fits, p, s

\* A packet that says what was meant by it goes on a listing of such packets.
LEMMA AddSays ==
  ASSUME ListsTyped, ReadAsSent, NEW p, NEW meant, Add(p, meant),
         meant # NULL => Says(p, meant)
  PROVE  ReadAsSent'
<1>1. /\ packets' = Log!Pushed(p, packets) /\ sent' = Log!Pushed(meant, sent)
      /\ IsListing(packets) /\ IsListing(sent) /\ Len(sent) = Len(packets)
  BY DEF Add, ListsTyped
<1>2. DOMAIN sent = 1 .. Len(sent)
  BY <1>1 DEF IsListing
<1>3. IsListing(sent')
  BY <1>1, PushedFacts
<1>4. DOMAIN sent' = 1 .. Len(sent')
  BY <1>3 DEF IsListing
<1>5. Len(sent') = Len(packets')
  <2>1. Len(packets') = IF Len(packets) < MaxSize THEN Len(packets) + 1 ELSE MaxSize
    BY <1>1, PushedFacts
  <2>2. Len(sent') = IF Len(sent) < MaxSize THEN Len(sent) + 1 ELSE MaxSize
    BY <1>1, PushedFacts
  <2> QED BY <1>1, <2>1, <2>2
<1>6. ASSUME NEW i \in 1 .. Len(sent'), sent'[i] # NULL PROVE Says(packets'[i], sent'[i])
  <2>1. packets'[i] = IF i = 1 THEN p ELSE packets[i - 1]
    BY <1>1, <1>5, PushedFacts
  <2>2. /\ sent'[i] = IF i = 1 THEN meant ELSE sent[i - 1]
        /\ i # 1 => i - 1 \in 1 .. Len(sent)
    BY <1>1, PushedFacts
  <2>3. CASE i = 1
    BY <1>6, <2>1, <2>2, <2>3
  <2>4. CASE i # 1
    <3>1. i - 1 \in {k \in DOMAIN sent : sent[k] # NULL}
      BY <1>2, <1>6, <2>2, <2>4
    <3>2. Says(packets[i - 1], sent[i - 1])
      BY <3>1 DEF ReadAsSent
    <3> QED BY <2>1, <2>2, <2>4, <3>2
  <2> QED BY <2>3, <2>4
<1> QED BY <1>4, <1>6 DEF ReadAsSent

\* Every step keeps that.
LEMMA NextSays ==
  ASSUME TInv, ReadAsSent, [Next]_vars
  PROVE  ReadAsSent'
<1>0. ListsTyped /\ now \in Time
  BY DEF TInv, ProcessTyped
<1>1. ASSUME UNCHANGED << packets, sent >> PROVE ReadAsSent'
  BY <1>1 DEF ReadAsSent
<1>2. ASSUME NEW type, NEW source \in Node, NEW dest \in Node, NEW content, NEW o,
             Fits(type, content), Publish(type, source, dest, content, o)
      PROVE  ReadAsSent'
  <2> DEFINE p == Decoded(Gen!Built(type, source, dest, content, now), o)
             s == [type |-> type, source |-> source, dest |-> dest, content |-> content,
                   at |-> now]
  <2>1. Add(p, s)
    BY <1>2 DEF Publish, HandlePacket
  <2>2. Says(p, s)
    BY <1>0, <1>2, BuiltSays
  <2> HIDE DEF p, s
  <2> QED BY <1>0, <2>1, <2>2, AddSays
<1>3. ASSUME NEW bytes, NEW o, HandlePacket(bytes, o, NULL) PROVE ReadAsSent'
  <2>1. Add(Decoded(bytes, o), NULL)
    BY <1>3 DEF HandlePacket
  <2> QED BY <1>0, <2>1, AddSays
<1>4. ASSUME NEW body, NEW timestamp, Post(body, timestamp) PROVE ReadAsSent'
  <2>1. Add(With(body, "timestamp", timestamp), NULL)
    BY <1>4 DEF Post
  <2> QED BY <1>0, <2>1, AddSays
<1>5. CASE \E source, dest \in Node, o \in Observer :
             \/ Publish("advert", source, dest, NULL, o)
             \/ \E type \in {"group_text", "text_message"}, message \in Message :
                  Publish(type, source, dest, message, o)
             \/ \E isRequest \in BOOLEAN, hops \in Routes :
                  Publish("trace", source, dest, [isRequest |-> isRequest, hops |-> hops], o)
  <2>1. PICK source \in Node, dest \in Node, o \in Observer :
             \/ Publish("advert", source, dest, NULL, o)
             \/ \E type \in {"group_text", "text_message"}, message \in Message :
                  Publish(type, source, dest, message, o)
             \/ \E isRequest \in BOOLEAN, hops \in Routes :
                  Publish("trace", source, dest, [isRequest |-> isRequest, hops |-> hops], o)
    BY <1>5, Zenon
  <2>2. CASE Publish("advert", source, dest, NULL, o)
    <3>1. Fits("advert", NULL)
      BY DEF Fits
    <3> QED BY <1>2, <2>2, <3>1
  <2>3. ASSUME NEW type \in {"group_text", "text_message"}, NEW message \in Message,
               Publish(type, source, dest, message, o)
        PROVE  ReadAsSent'
    <3>1. Fits(type, message)
      BY DEF Fits
    <3> QED BY <1>2, <2>3, <3>1
  <2>4. ASSUME NEW isRequest \in BOOLEAN, NEW hops \in Routes,
               Publish("trace", source, dest, [isRequest |-> isRequest, hops |-> hops], o)
        PROVE  ReadAsSent'
    <3>1. Fits("trace", [isRequest |-> isRequest, hops |-> hops])
      BY DEF Fits
    <3> QED BY <1>2, <2>4, <3>1
  <2> QED BY <2>1, <2>2, <2>3, <2>4, Zenon
<1>6. ASSUME NEW o, NEW status, HandleStatus(o, status) PROVE ReadAsSent'
  BY <1>1, <1>6 DEF HandleStatus
<1>8. ASSUME NEW row, NEW written, GetBoard(row, written) PROVE ReadAsSent'
  BY <1>1, <1>8 DEF GetBoard, stores
<1>9. ASSUME NEW failed, RefreshAll(failed) PROVE ReadAsSent'
  BY <1>1, <1>9 DEF RefreshAll, stores
<1>10. CASE Boot \/ Signal \/ SocketsClosed \/ Tick
  BY <1>1, <1>10 DEF Boot, Signal, SocketsClosed, Tick, stores
<1>11. CASE UNCHANGED vars
  BY <1>1, <1>11 DEF vars, stores
<1>7. CASE HttpClosed \/ Crash
  <2>1. sent' = << >>
    BY <1>7 DEF HttpClosed, Crash, Exit
  <2>2. {k \in DOMAIN sent' : sent'[k] # NULL} = {}
    BY <2>1
  <2> QED BY <2>2 DEF ReadAsSent
<1> QED BY <1>3, <1>4, <1>5, <1>6, <1>7, <1>8, <1>9, <1>10, <1>11, Zenon DEF Next

\* What the generator means is what the decoder reads and the store lists,
\* for all nodes, texts and routes, whatever else comes in.
THEOREM PacketsAreReadAsSent == Spec => []ReadAsSent
<1>1. Init => ReadAsSent
  BY DEF Init, ReadAsSent
<1>2. TInv /\ ReadAsSent /\ [Next]_vars => ReadAsSent'
  BY NextSays
<1> QED BY <1>1, <1>2, TInvAlways, PTL DEF Spec

-----------------------------------------------------------------------------
(* Scores and alerts.                                                      *)

\* Rounding is to the nearest.
LEMMA RoundFacts ==
  ASSUME NEW n \in Int, NEW d \in Nat \ {0}
  PROVE  /\ Round(n, d) \in Int
         /\ 2 * d * Round(n, d) <= 2 * n + d
         /\ 2 * n + d < 2 * d * Round(n, d) + 2 * d
<1> DEFINE a == 2 * n + d
           b == 2 * d
           q == a \div b
<1>1. a \in Int /\ b \in Nat \ {0}
  OBVIOUS
<1>2. Round(n, d) = q
  BY DEF Round
<1> HIDE DEF a, b
<1>3. q \in Int /\ b * q <= a /\ a < b * q + b
  BY <1>1, SMT
<1> HIDE DEF q
<1> QED BY <1>2, <1>3, SMT DEF a, b

\* What is clamped is a percentage.
LEMMA ClampFacts ==
  ASSUME NEW v \in Int
  PROVE  /\ Clamp(v) \in 0 .. 100
         /\ \A m \in 0 .. 100 : v <= m => Clamp(v) <= m
BY DEF Clamp

\* A share is a percentage, and one of less than 200 that are not all there is
\* not rounded up to all.
LEMMA ShareFacts ==
  ASSUME NEW whole, NEW part \in SUBSET whole, IsFiniteSet(whole)
  PROVE  /\ Share(part, whole) \in 0 .. 100
         /\ part # whole /\ Cardinality(whole) < 200 => Share(part, whole) < 100
<1>1. CASE whole = {}
  BY <1>1 DEF Share
<1>2. CASE whole # {}
  <2> DEFINE c == Cardinality(part)
             d == Cardinality(whole)
             r == Round(100 * c, d)
  <2>1. d \in Nat \ {0} /\ c \in Nat /\ c <= d /\ (part # whole => c < d)
    BY <1>2, FS_Subset, FS_CardinalityType, FS_EmptySet
  <2>2. Share(part, whole) = Clamp(r)
    BY <1>2 DEF Share, Percent
  <2> HIDE DEF c, d
  <2>3. r \in Int /\ 2 * d * r <= 2 * (100 * c) + d
    BY <2>1, RoundFacts
  <2> HIDE DEF r
  <2>4. ASSUME c < d, d < 200 PROVE r <= 99
    <3>1. SUFFICES ASSUME r >= 100 PROVE FALSE
      BY <2>3
    <3>2. d * r >= d * 100
      BY <2>1, <2>3, <3>1, SMT
    <3> QED BY <2>1, <2>3, <2>4, <3>2, SMT
  <2>5. Clamp(r) \in 0 .. 100 /\ (r <= 99 => Clamp(r) <= 99)
    BY <2>3, ClampFacts
  <2> QED BY <2>1, <2>2, <2>4, <2>5 DEF d
<1> QED BY <1>1, <1>2

\* Uptime is lost in rounding only if one of more than 20000 nodes is active.
LEMMA UptimeFacts ==
  ASSUME NEW active \in Nat, NEW d \in Nat \ {0}, d <= 20000
  PROVE  Percent(100 * active, d) = 0 <=> active = 0
<1> DEFINE r == Round(100 * (100 * active), d)
<1>1. /\ r \in Int /\ 2 * d * r <= 2 * (100 * (100 * active)) + d
      /\ 2 * (100 * (100 * active)) + d < 2 * d * r + 2 * d
  BY RoundFacts
<1>2. Percent(100 * active, d) = r
  BY DEF Percent
<1> HIDE DEF r
<1>3. ASSUME r = 0 PROVE active = 0
  BY <1>1, <1>3, SMT
<1>4. ASSUME active = 0 PROVE r = 0
  <2>1. d * r <= 0 \/ 2 * (d * r) <= d
    BY <1>1, <1>4, SMT
  <2>2. r < 1
    <3>1. SUFFICES ASSUME r >= 1 PROVE FALSE
      BY <1>1
    <3>2. d * r >= d
      BY <1>1, <3>1, SMT
    <3> QED BY <2>1, <3>2, <1>1, SMT
  <2>3. r > -1
    <3>1. SUFFICES ASSUME r <= -1 PROVE FALSE
      BY <1>1
    <3>2. d * r <= -d
      BY <1>1, <3>1, SMT
    <3> QED BY <1>1, <1>4, <3>2, SMT
  <2> QED BY <1>1, <2>2, <2>3
<1> QED BY <1>2, <1>3, <1>4

\* l is a listing of packets whose signal is a number or missing.
Heard(l) == IsListing(l) /\ \A i \in 1 .. Len(l) : l[i].snr \in Int \cup {NULL}

\* A part of such a listing is one.
LEMMA PickedHeard ==
  ASSUME NEW l, Heard(l), NEW I \in SUBSET (1 .. Len(l))
  PROVE  Heard(Picked(l, I))
<1> DEFINE S == {l[i] : i \in 1 .. Len(l)}
           m == Picked(l, I)
           T == {m[k] : k \in 1 .. Len(m)}
<1>1. l \in Seq(S)
  BY DEF Heard, IsListing
<1> HIDE DEF S
<1>2. /\ m \in Seq(S)
      /\ \A k \in 1 .. Len(m) : \E i \in I : m[k] = l[i]
  BY <1>1, PickedFacts
<1> HIDE DEF m
<1>3. m \in Seq(T)
  <2>1. Len(m) \in Nat /\ m = [k \in 1 .. Len(m) |-> m[k]]
    BY <1>2
  <2> QED BY <2>1
<1>4. \A k \in 1 .. Len(m) : m[k].snr \in Int \cup {NULL}
  BY <1>2 DEF Heard
<1> QED BY <1>3, <1>4 DEF Heard, IsListing, m

\* The packets of the last while are a part of the listing.
LEMMA SinceHeard ==
  ASSUME Heard(packets), NEW time
  PROVE  Heard(getPacketsSince(packets, time))
<1> DEFINE I == {i \in DOMAIN packets :
                   ~packets[i].timestamp.ms /\ packets[i].timestamp.at > time}
<1>1. I \in SUBSET (1 .. Len(packets))
  BY DEF Heard, IsListing
<1>2. getPacketsSince(packets, time) = Picked(packets, I)
  BY DEF getPacketsSince, Where
<1> HIDE DEF I
<1> QED BY <1>1, <1>2, PickedHeard

\* The signals of a listing are numbers.
LEMMA SnrFacts ==
  ASSUME NEW l, Heard(l)
  PROVE  SnrValues(l) \in Seq(Int)
<1> DEFINE I == {i \in DOMAIN l : l[i].snr # NULL}
           m == Picked(l, I)
           S == {l[i] : i \in 1 .. Len(l)}
<1>1. I \in SUBSET (1 .. Len(l)) /\ l \in Seq(S)
  BY DEF Heard, IsListing
<1>2. SnrValues(l) = [i \in DOMAIN m |-> m[i].snr]
  BY DEF SnrValues, Where
<1>3. \A i \in I : l[i].snr \in Int
  BY <1>1 DEF Heard
<1> HIDE DEF I, S
<1>4. m \in Seq(S) /\ \A k \in 1 .. Len(m) : \E i \in I : m[k] = l[i]
  BY <1>1, PickedFacts
<1> HIDE DEF m
<1>5. Len(m) \in Nat /\ DOMAIN m = 1 .. Len(m) /\ \A k \in 1 .. Len(m) : m[k].snr \in Int
  BY <1>3, <1>4
<1> QED BY <1>2, <1>5

\* The rate of delivery is a percentage.
LEMMA DeliveryFacts ==
  ASSUME NEW l, Heard(l)
  PROVE  computePacketDeliveryRate(l) \in 0 .. 100
<1>1. CASE l = << >>
  BY <1>1 DEF computePacketDeliveryRate
<1>2. CASE l # << >>
  <2> DEFINE I == {i \in DOMAIN l : l[i].type \in NonFloodTypes}
             S == {l[i] : i \in 1 .. Len(l)}
             c == Len(Picked(l, I))
             v == Round(100 * c, Len(l))
  <2>1. I \in SUBSET (1 .. Len(l)) /\ l \in Seq(S)
    BY DEF Heard, IsListing
  <2>2. computePacketDeliveryRate(l) = Clamp(v)
    BY <1>2 DEF computePacketDeliveryRate, Count, Where, Percent
  <2> HIDE DEF I, S
  <2>3. c \in Nat /\ Len(l) \in Nat \ {0}
    BY <1>2, <2>1, PickedFacts
  <2> HIDE DEF c
  <2>4. v \in Int
    BY <2>3, RoundFacts
  <2> HIDE DEF v
  <2> QED BY <2>2, <2>4, ClampFacts
<1> QED BY <1>1, <1>2

\* The signal is scored in percent, and a low one not above the middle.
LEMMA SnrScore ==
  ASSUME NEW l, Heard(l)
  PROVE  /\ computeAverageSnr(l) \in 0 .. 100
         /\ SnrIsLow(l) => computeAverageSnr(l) <= 50
<1> DEFINE s == SnrValues(l)
           n == Len(s)
           t == Sum(s)
           v == Round(100 * (t + 20 * n), 30 * n)
<1>1. n \in Nat /\ t \in Int /\ (s = << >> <=> n = 0)
  BY SnrFacts, SumIsInt
<1>2. /\ computeAverageSnr(l) = IF s = << >> THEN 75 ELSE Clamp(v)
      /\ SnrIsLow(l) <=> s # << >> /\ t < SNR_THRESHOLD * n
  BY DEF computeAverageSnr, SnrIsLow
<1> HIDE DEF s, n, t
<1>3. CASE s = << >>
  BY <1>2, <1>3
<1>4. CASE s # << >>
  <2>1. n \in Nat \ {0} /\ 100 * (t + 20 * n) \in Int /\ 30 * n \in Nat \ {0}
    BY <1>1, <1>4
  <2>2. v \in Int /\ 2 * (30 * n) * v <= 2 * (100 * (t + 20 * n)) + 30 * n
    BY <2>1, RoundFacts
  <2> HIDE DEF v
  <2>3. ASSUME t < SNR_THRESHOLD * n PROVE v <= 50
    <3>1. SNR_THRESHOLD * n <= -5 * n
      BY <2>1, HealthAssumption, SMT
    <3>2. t < -5 * n
      BY <1>1, <2>1, <2>3, <3>1, HealthAssumption, SMT
    <3>3. SUFFICES ASSUME v >= 51 PROVE FALSE
      BY <2>2
    <3>4. n * v >= n * 51
      BY <2>1, <2>2, <3>3, SMT
    <3> QED BY <1>1, <2>1, <2>2, <3>2, <3>4, SMT
  <2>4. Clamp(v) \in 0 .. 100 /\ (v <= 50 => Clamp(v) <= 50)
    BY <2>2, ClampFacts
  <2> QED BY <1>2, <1>4, <2>3, <2>4
<1> QED BY <1>3, <1>4

\* A page of ids holds some of them, and all if they fit on it.
LEMMA PageFacts ==
  ASSUME NEW ids, IsFiniteSet(ids), NEW n \in Nat
  PROVE  /\ FirstOf(ids, n) \in SUBSET ids
         /\ Cardinality(ids) <= n => FirstOf(ids, n) = ids
<1>1. CASE Cardinality(ids) <= n
  BY <1>1 DEF FirstOf
<1>2. CASE ~(Cardinality(ids) <= n)
  <2>1. Cardinality(ids) \in Nat /\ n \in 0 .. Cardinality(ids)
    BY <1>2, FS_CardinalityType
  <2>2. \E U \in SUBSET ids : Cardinality(U) = n
    BY <2>1, SubsetOfSize
  <2>3. (CHOOSE U \in SUBSET ids : Cardinality(U) = n) \in SUBSET ids
    BY <2>2
  <2> QED BY <1>2, <2>3 DEF FirstOf
<1> QED BY <1>1, <1>2

\* A weighted mean of percentages is a number.
LEMMA MeanIsInt ==
  ASSUME NEW a \in 0 .. 100, NEW b \in 0 .. 100, NEW x \in 0 .. 100,
         NEW y \in 0 .. 100, NEW z \in 0 .. 100
  PROVE  25 * a + 25 * b + 20 * x + 15 * y + 15 * z \in Int
OBVIOUS

\* The score is a percentage if what it is computed from are.
LEMMA ScoreFacts ==
  ASSUME NEW c,
         c.observerAvailability \in 0 .. 100, c.packetDeliveryRate \in 0 .. 100,
         c.averageSnr \in 0 .. 100, c.nodeChurnRate \in 0 .. 100, c.repeaterUptime \in 0 .. 100
  PROVE  HealthScore(c) \in 0 .. 100
<1> DEFINE n == 25 * c.observerAvailability + 25 * c.packetDeliveryRate + 20 * c.averageSnr
                  + 15 * c.nodeChurnRate + 15 * c.repeaterUptime
<1>1. n \in Int
  BY MeanIsInt
<1>2. HealthScore(c) = Clamp(Round(n, 100))
  BY DEF HealthScore
<1> HIDE DEF n
<1>3. Round(n, 100) \in Int
  BY <1>1, RoundFacts
<1> QED BY <1>2, <1>3, ClampFacts

\* Which alerts there are.
LEMMA AlertFacts ==
  LET alerts == buildAlerts(packets, nodes, observers, now)
  IN  /\ \A o : << "observer_offline", o >> \in alerts <=> o \in SilentObservers(observers, now)
      /\ << "snr_degradation" >> \in alerts => SnrIsLow(getPacketsSince(packets, now - HOUR))
      /\ \A id : << "repeater_disappeared", id >> \in alerts <=> id \in LostRepeaters(nodes, now)
<1> DEFINE A == {<< "observer_offline", o >> : o \in SilentObservers(observers, now)}
           recent == getPacketsSince(packets, now - HOUR)
           V == VolumeAlert(Len(packets), Len(recent))
           B == IF SnrIsLow(recent) THEN {<< "snr_degradation" >>} ELSE {}
           C == {<< a >> : a \in V}
           D == {<< "repeater_disappeared", id >> : id \in LostRepeaters(nodes, now)}
<1>1. buildAlerts(packets, nodes, observers, now) = A \cup B \cup C \cup D
  BY DEF buildAlerts
<1>2. V \subseteq {"high_packet_volume", "low_packet_volume"}
  BY DEF VolumeAlert
<1> HIDE DEF V, recent
<1>3. \A o : << "observer_offline", o >> \in A \cup B \cup C \cup D
               <=> o \in SilentObservers(observers, now)
  OBVIOUS
<1>4. << "snr_degradation" >> \in A \cup B \cup C \cup D => SnrIsLow(recent)
  BY <1>2
<1>5. \A id : << "repeater_disappeared", id >> \in A \cup B \cup C \cup D
                <=> id \in LostRepeaters(nodes, now)
  OBVIOUS
<1> HIDE DEF A, B, C, D
<1> QED BY <1>1, <1>3, <1>4, <1>5 DEF recent

\* The repeaters on the page.
LEMMA RepeaterFacts ==
  ASSUME RegistriesTyped
  PROVE  LET repeaters == WithRole(nodes, "repeater")
         IN  /\ getRepeaters(nodes) \in SUBSET repeaters /\ repeaters \in SUBSET DOMAIN nodes
             /\ IsFiniteSet(getRepeaters(nodes))
             /\ Cardinality(repeaters) <= REPEATER_LIMIT => getRepeaters(nodes) = repeaters
<1> DEFINE repeaters == WithRole(nodes, "repeater")
<1>1. repeaters \in SUBSET DOMAIN nodes /\ IsFiniteSet(DOMAIN nodes)
  BY DEF WithRole, RegistriesTyped
<1> HIDE DEF repeaters
<1>2. IsFiniteSet(repeaters)
  BY <1>1, FS_Subset
<1>3. /\ getRepeaters(nodes) \in SUBSET repeaters
      /\ Cardinality(repeaters) <= REPEATER_LIMIT => getRepeaters(nodes) = repeaters
  BY <1>2, PageFacts, HealthAssumption DEF getRepeaters, repeaters
<1>4. IsFiniteSet(getRepeaters(nodes))
  BY <1>2, <1>3, FS_Subset
<1> QED BY <1>1, <1>3, <1>4 DEF repeaters

\* What is up is not lost, and what is offline not active.
LEMMA RepeatersAgree ==
  ASSUME RegistriesTyped, now \in Time,
         Cardinality(WithRole(nodes, "repeater")) <= REPEATER_LIMIT,
         NEW id \in WithRole(nodes, "repeater")
  PROVE  /\ id \in UpRepeaters(nodes, now) <=> id \notin LostRepeaters(nodes, now)
         /\ id \in listRepeaters(nodes, "offline", now)
              <=> id \notin getActive(nodes, FIVE_MINUTES, now)
<1> DEFINE R == getRepeaters(nodes)
           t == nodes[id].lastSeen
           offline == {x \in R : nodes[x].lastSeen < now - FIVE_MINUTES}
<1>1. id \in R /\ id \in DOMAIN nodes
  BY RepeaterFacts
<1>2. t \in Int /\ now \in Int /\ DAY \in Int /\ FIVE_MINUTES \in Int
  BY <1>1, ClockAssumption, HealthAssumption DEF RegistriesTyped, Time
<1>3. /\ id \in UpRepeaters(nodes, now) <=> t >= now - DAY
      /\ id \in LostRepeaters(nodes, now) <=> t < now - DAY
      /\ id \in getActive(nodes, FIVE_MINUTES, now) <=> t >= now - FIVE_MINUTES
  BY <1>1 DEF UpRepeaters, LostRepeaters, getActive, SeenSince
<1>4. listRepeaters(nodes, "offline", now) = offline
  BY DEF listRepeaters
<1>5. id \in offline <=> t < now - FIVE_MINUTES
  BY <1>1
<1> HIDE DEF t, offline
<1> QED BY <1>2, <1>3, <1>4, <1>5

\* The components of the score are percentages; a silent observer and a low
\* signal show in theirs.
LEMMA ComponentFacts ==
  ASSUME RegistriesTyped, Heard(packets)
  PROVE  LET c == healthComponents(packets, nodes, observers, now)
         IN  /\ DOMAIN c = {"observerAvailability", "packetDeliveryRate", "averageSnr",
                            "nodeChurnRate", "repeaterUptime"}
             /\ c.observerAvailability \in 0 .. 100 /\ c.packetDeliveryRate \in 0 .. 100
             /\ c.averageSnr \in 0 .. 100 /\ c.nodeChurnRate \in 0 .. 100
             /\ c.repeaterUptime \in 0 .. 100
             /\ Cardinality(DOMAIN observers) < 200 /\ SilentObservers(observers, now) # {} =>
                  c.observerAvailability < 100
             /\ SnrIsLow(getPacketsSince(packets, now - HOUR)) => c.averageSnr <= 50
<1> DEFINE recent == getPacketsSince(packets, now - HOUR)
           c1 == Share(getOnline(observers), DOMAIN observers)
           c2 == computePacketDeliveryRate(recent)
           c3 == computeAverageSnr(recent)
           c4 == Share(getActive(nodes, HOUR, now), DOMAIN nodes)
           c5 == Share(UpRepeaters(nodes, now), getRepeaters(nodes))
<1>1. healthComponents(packets, nodes, observers, now)
        = [observerAvailability |-> c1, packetDeliveryRate |-> c2, averageSnr |-> c3,
           nodeChurnRate |-> c4, repeaterUptime |-> c5]
  BY DEF healthComponents
<1>2. /\ c1 \in 0 .. 100
      /\ Cardinality(DOMAIN observers) < 200 /\ SilentObservers(observers, now) # {} => c1 < 100
  <2>1. IsFiniteSet(DOMAIN observers) /\ getOnline(observers) \in SUBSET DOMAIN observers
    BY DEF RegistriesTyped, getOnline
  <2>2. SilentObservers(observers, now) # {} => getOnline(observers) # DOMAIN observers
    BY DEF SilentObservers
  <2> QED BY <2>1, <2>2, ShareFacts
<1>3. Heard(recent)
  BY SinceHeard
<1>4. c2 \in 0 .. 100 /\ c3 \in 0 .. 100 /\ (SnrIsLow(recent) => c3 <= 50)
  BY <1>3, DeliveryFacts, SnrScore
<1>5. c4 \in 0 .. 100
  <2>1. IsFiniteSet(DOMAIN nodes) /\ getActive(nodes, HOUR, now) \in SUBSET DOMAIN nodes
    BY DEF RegistriesTyped, getActive, SeenSince
  <2> QED BY <2>1, ShareFacts
<1>6. c5 \in 0 .. 100
  <2>1. UpRepeaters(nodes, now) \in SUBSET getRepeaters(nodes)
    BY DEF UpRepeaters, SeenSince
  <2> QED BY <2>1, RepeaterFacts, ShareFacts
<1> HIDE DEF c1, c2, c3, c4, c5
<1> QED BY <1>1, <1>2, <1>4, <1>5, <1>6

\* The uptime of the statistics is zero when nothing is active.
LEMMA UptimeAgrees ==
  ASSUME RegistriesTyped, Cardinality(DOMAIN nodes) <= 20000
  PROVE  getStats(packets, nodes, observers, now).uptimePercent = 0
           <=> getActive(nodes, FIVE_MINUTES, now) = {}
<1> DEFINE A == getActive(nodes, FIVE_MINUTES, now)
           active == Cardinality(A)
           d == Cardinality(DOMAIN nodes)
<1>1. IsFiniteSet(DOMAIN nodes) /\ A \in SUBSET DOMAIN nodes
  BY DEF RegistriesTyped, getActive, SeenSince
<1>2. getStats(packets, nodes, observers, now).uptimePercent
        = IF DOMAIN nodes = {} THEN 0 ELSE Percent(100 * active, d)
  BY DEF getStats
<1> HIDE DEF A
<1>3. /\ active \in Nat /\ d \in Nat /\ (active = 0 <=> A = {})
      /\ d = 0 <=> DOMAIN nodes = {}
  BY <1>1, FS_Subset, FS_CardinalityType, FS_EmptySet
<1>4. CASE DOMAIN nodes = {}
  BY <1>1, <1>2, <1>4 DEF A
<1>5. CASE DOMAIN nodes # {}
  <2>1. d \in Nat \ {0} /\ d <= 20000
    BY <1>3, <1>5
  <2> HIDE DEF active, d
  <2>2. Percent(100 * active, d) = 0 <=> active = 0
    BY <1>3, <2>1, UptimeFacts
  <2> QED BY <1>2, <1>3, <1>5, <2>2 DEF A
<1> QED BY <1>4, <1>5

\* In every typed state scores, alerts and lists agree.
LEMMA TypedAgrees == TInv => ScoreAgreesWithAlerts
<1> SUFFICES ASSUME TInv PROVE ScoreAgreesWithAlerts
  OBVIOUS
<1> DEFINE repeaters == WithRole(nodes, "repeater")
           alerts == buildAlerts(packets, nodes, observers, now)
           c == healthComponents(packets, nodes, observers, now)
           health == getHealthScore(packets, nodes, observers, now)
<1>1. RegistriesTyped /\ Heard(packets) /\ now \in Time
  BY DEF TInv, ListsTyped, ProcessTyped, Heard
<1>2. health.components = c /\ health.score = HealthScore(c)
  BY DEF getHealthScore
<1> HIDE DEF c, health
<1>3. Cardinality(repeaters) <= REPEATER_LIMIT =>
        \A id \in repeaters :
          /\ (id \in UpRepeaters(nodes, now)) # (<< "repeater_disappeared", id >> \in alerts)
          /\ (id \in listRepeaters(nodes, "offline", now))
               # (id \in getActive(nodes, FIVE_MINUTES, now))
  <2> SUFFICES ASSUME Cardinality(repeaters) <= REPEATER_LIMIT, NEW id \in repeaters
               PROVE  /\ (id \in UpRepeaters(nodes, now))
                           # (<< "repeater_disappeared", id >> \in alerts)
                      /\ (id \in listRepeaters(nodes, "offline", now))
                           # (id \in getActive(nodes, FIVE_MINUTES, now))
    OBVIOUS
  <2>1. << "repeater_disappeared", id >> \in alerts <=> id \in LostRepeaters(nodes, now)
    BY AlertFacts
  <2>2. /\ id \in UpRepeaters(nodes, now) <=> id \notin LostRepeaters(nodes, now)
        /\ id \in listRepeaters(nodes, "offline", now)
             <=> id \notin getActive(nodes, FIVE_MINUTES, now)
    BY <1>1, RepeatersAgree
  <2> HIDE DEF alerts
  <2> QED BY <2>1, <2>2
<1>4. /\ Cardinality(DOMAIN observers) < 200 => \A o \in DOMAIN observers :
           << "observer_offline", o >> \in alerts => health.components.observerAvailability < 100
      /\ << "snr_degradation" >> \in alerts => health.components.averageSnr <= 50
  <2>1. \A o : << "observer_offline", o >> \in alerts => SilentObservers(observers, now) # {}
    BY AlertFacts
  <2>2. << "snr_degradation" >> \in alerts => SnrIsLow(getPacketsSince(packets, now - HOUR))
    BY AlertFacts
  <2>3. /\ Cardinality(DOMAIN observers) < 200 /\ SilentObservers(observers, now) # {} =>
             c.observerAvailability < 100
        /\ SnrIsLow(getPacketsSince(packets, now - HOUR)) => c.averageSnr <= 50
    BY <1>1, ComponentFacts DEF c
  <2> HIDE DEF alerts
  <2> QED BY <1>2, <2>1, <2>2, <2>3
<1>5. Cardinality(DOMAIN nodes) <= 20000 =>
        (getStats(packets, nodes, observers, now).uptimePercent = 0)
          = (getActive(nodes, FIVE_MINUTES, now) = {})
  BY <1>1, UptimeAgrees
<1>6. /\ \A f \in DOMAIN health.components : health.components[f] \in 0 .. 100
      /\ health.score \in 0 .. 100
  <2>1. /\ DOMAIN c = {"observerAvailability", "packetDeliveryRate", "averageSnr",
                       "nodeChurnRate", "repeaterUptime"}
        /\ c.observerAvailability \in 0 .. 100 /\ c.packetDeliveryRate \in 0 .. 100
        /\ c.averageSnr \in 0 .. 100 /\ c.nodeChurnRate \in 0 .. 100
        /\ c.repeaterUptime \in 0 .. 100
    BY <1>1, ComponentFacts DEF c
  <2>2. HealthScore(c) \in 0 .. 100
    BY <2>1, ScoreFacts
  <2> QED BY <1>2, <2>1, <2>2
<1> QED BY <1>3, <1>4, <1>5, <1>6 DEF ScoreAgreesWithAlerts, health, c

\* Scores, alerts and lists agree, whatever was heard, posted or missed.
THEOREM ScoresAgreeWithAlerts == Spec => []ScoreAgreesWithAlerts
BY TInvAlways, TypedAgrees, PTL

-----------------------------------------------------------------------------
(* Boards are in order.                                                    *)

\* How many come before i.
Before(D, R, i) == {j \in D : << j, i >> \in R}

\* In a strict order of a finite set every place is taken once.
LEMMA Places ==
  ASSUME NEW D, IsFiniteSet(D), NEW R,
         \A i \in D : << i, i >> \notin R,
         \A i, j, k \in D : << i, j >> \in R /\ << j, k >> \in R => << i, k >> \in R,
         \A i, j \in D : i # j => << i, j >> \in R \/ << j, i >> \in R
  PROVE  /\ \A i \in D : Cardinality(Before(D, R, i)) \in 0 .. Cardinality(D) - 1
         /\ \A i, j \in D : << i, j >> \in R =>
              Cardinality(Before(D, R, i)) < Cardinality(Before(D, R, j))
         /\ \A n \in 0 .. Cardinality(D) - 1 :
              \E i \in D : Cardinality(Before(D, R, i)) = n
<1> DEFINE N == Cardinality(D)
           place == [i \in D |-> Cardinality(Before(D, R, i))]
<1>0. N \in Nat
  BY FS_CardinalityType
<1>1. ASSUME NEW i \in D
      PROVE  Before(D, R, i) \in SUBSET (D \ {i}) /\ IsFiniteSet(D \ {i})
             /\ Cardinality(D \ {i}) = N - 1
  BY FS_RemoveElement DEF Before
<1>2. ASSUME NEW i \in D
      PROVE  IsFiniteSet(Before(D, R, i)) /\ Cardinality(Before(D, R, i)) \in 0 .. N - 1
  <2>1. IsFiniteSet(Before(D, R, i)) /\ Cardinality(Before(D, R, i)) <= N - 1
    <3> DEFINE T == D \ {i}
               B == Before(D, R, i)
    <3>1. B \in SUBSET T /\ IsFiniteSet(T) /\ Cardinality(T) = N - 1
      BY <1>1
    <3> HIDE DEF T, B, N
    <3>2. IsFiniteSet(B) /\ Cardinality(B) <= Cardinality(T)
      BY <3>1, FS_Subset
    <3> QED BY <3>1, <3>2 DEF B
  <2>2. Cardinality(Before(D, R, i)) \in Nat
    BY <2>1, FS_CardinalityType
  <2>3. Cardinality(Before(D, R, i)) \in 0 .. N - 1
    <3> HIDE DEF N
    <3> QED BY <1>0, <2>1, <2>2
  <2> QED BY <2>1, <2>3
<1>3. ASSUME NEW i \in D, NEW j \in D, << i, j >> \in R
      PROVE  Cardinality(Before(D, R, i)) < Cardinality(Before(D, R, j))
  <2> DEFINE A == Before(D, R, i)
             B == Before(D, R, j)
  <2>1. i \in B /\ A \in SUBSET (B \ {i})
    BY <1>3 DEF Before
  <2>2. IsFiniteSet(B) /\ Cardinality(A) \in Int /\ Cardinality(B) \in Int
    BY <1>2
  <2> HIDE DEF A, B
  <2>3. IsFiniteSet(B \ {i}) /\ Cardinality(B \ {i}) = Cardinality(B) - 1
    BY <2>1, <2>2, FS_RemoveElement
  <2>4. Cardinality(A) <= Cardinality(B \ {i})
    BY <2>1, <2>3, FS_Subset
  <2>5. Cardinality(A) < Cardinality(B)
    BY <2>2, <2>3, <2>4
  <2> QED BY <2>5 DEF A, B
<1>4. place \in Injection(D, 0 .. N - 1)
  <2>1. place \in [D -> 0 .. N - 1]
    BY <1>2
  <2>2. ASSUME NEW i \in D, NEW j \in D, i # j PROVE place[i] # place[j]
    <3>1. << i, j >> \in R \/ << j, i >> \in R
      BY <2>2
    <3>2. Cardinality(Before(D, R, i)) \in Int /\ Cardinality(Before(D, R, j)) \in Int
      BY <1>2
    <3>3. Cardinality(Before(D, R, i)) # Cardinality(Before(D, R, j))
      BY <1>3, <3>1, <3>2
    <3> QED BY <3>3
  <2> HIDE DEF place
  <2> QED BY <2>1, <2>2 DEF Injection, IsInjective
<1>5. IsFiniteSet(0 .. N - 1) /\ Cardinality(0 .. N - 1) = N
  <2>1. 0 \in Int /\ N - 1 \in Int /\ (IF 0 > N - 1 THEN 0 ELSE N - 1 - 0 + 1) = N
    BY <1>0
  <2> QED BY <2>1, FS_Interval
<1>6. place \in Surjection(D, 0 .. N - 1)
  <2> HIDE DEF place, N
  <2> QED BY <1>4, <1>5, FS_Injection DEF N
<1>7. \A n \in 0 .. N - 1 : \E i \in D : place[i] = n
  <2> HIDE DEF place
  <2> QED BY <1>6 DEF Surjection
<1> QED BY <1>2, <1>3, <1>7

\* b ranks the entries of e: pos says which.
Ranks(b, e, pos) ==
  /\ DOMAIN b = 1 .. Len(b) /\ Len(b) = (IF Len(e) < TOP_N THEN Len(e) ELSE TOP_N)
  /\ pos \in [1 .. Len(b) -> 1 .. Len(e)]
  /\ \A r \in 1 .. Len(b) : b[r] = e[pos[r]]
  /\ \A r, q \in 1 .. Len(b) : r < q =>
       pos[r] # pos[q] /\ e[pos[r]].value >= e[pos[q]].value
  /\ \A i \in 1 .. Len(e) : Len(e) <= TOP_N => \E r \in 1 .. Len(b) : pos[r] = i
  /\ \A i \in 1 .. Len(e) : Len(b) >= 1 => e[pos[1]].value >= e[i].value

\* e lists entries with a number each.
Valued(e) ==
  Len(e) \in Nat /\ DOMAIN e = 1 .. Len(e) /\ \A i \in 1 .. Len(e) : e[i].value \in Int

\* A board ranks the entries it is made from.
LEMMA RankedFacts ==
  ASSUME NEW e, Valued(e)
  PROVE  \E pos : Ranks(Ranked(e), e, pos)
<1> DEFINE N == Len(e)
           D == 1 .. N
           before(i, j) == \/ e[i].value > e[j].value
                           \/ e[i].value = e[j].value /\ i < j
           R == {x \in D \X D : before(x[1], x[2])}
           rank(i) == Cardinality({j \in D : before(j, i)}) + 1
           size == IF N < TOP_N THEN N ELSE TOP_N
           pos == [r \in 1 .. size |-> CHOOSE i \in D : rank(i) = r]
           b == Ranked(e)
<1>0. N \in Nat /\ DOMAIN e = D /\ \A i \in D : e[i].value \in Int /\ i \in Int
  BY DEF Valued
<1>1. b = [r \in 1 .. size |-> e[CHOOSE i \in D : rank(i) = r]]
  <2>1. b = [r \in 1 .. size |-> e[CHOOSE i \in DOMAIN e :
               Cardinality({j \in DOMAIN e : before(j, i)}) + 1 = r]]
    BY DEF Ranked
  <2> QED BY <1>0, <2>1
<1>2. size \in Nat /\ size <= N /\ (N <= TOP_N => size = N) /\ TOP_N \in Nat \ {0}
  <2> HIDE DEF N
  <2> QED BY <1>0, BoardAssumption
<1>3. \A i, j \in D : << i, j >> \in R <=> before(i, j)
  OBVIOUS
<1> HIDE DEF R
<1>4. /\ \A i \in D : << i, i >> \notin R
      /\ \A i, j, k \in D : << i, j >> \in R /\ << j, k >> \in R => << i, k >> \in R
      /\ \A i, j \in D : i # j => << i, j >> \in R \/ << j, i >> \in R
  <2>1. \A i \in D : << i, i >> \notin R
    BY <1>0, <1>3
  <2>2. ASSUME NEW i \in D, NEW j \in D, NEW k \in D, << i, j >> \in R, << j, k >> \in R
        PROVE  << i, k >> \in R
    <3>1. before(i, j) /\ before(j, k)
      BY <1>3, <2>2
    <3>2. e[i].value \in Int /\ e[j].value \in Int /\ e[k].value \in Int
      BY <1>0
    <3>3. before(i, k)
      BY <1>0, <3>1, <3>2
    <3> QED BY <1>3, <3>3
  <2>3. ASSUME NEW i \in D, NEW j \in D, i # j PROVE << i, j >> \in R \/ << j, i >> \in R
    <3>1. e[i].value \in Int /\ e[j].value \in Int
      BY <1>0
    <3>2. before(i, j) \/ before(j, i)
      BY <1>0, <2>3, <3>1
    <3> QED BY <1>3, <3>2
  <2> QED BY <2>1, <2>2, <2>3
<1>5. \A i \in D : rank(i) = Cardinality(Before(D, R, i)) + 1
  <2> SUFFICES ASSUME NEW i \in D PROVE {j \in D : before(j, i)} = Before(D, R, i)
    BY Zenon
  <2> QED BY <1>3 DEF Before
<1>6. IsFiniteSet(D) /\ Cardinality(D) = N
  <2>1. 1 \in Int /\ N \in Int /\ (IF 1 > N THEN 0 ELSE N - 1 + 1) = N
    BY <1>0
  <2> QED BY <2>1, FS_Interval
<1> HIDE DEF D, rank, before
<1>7. /\ \A i \in D : Cardinality(Before(D, R, i)) \in 0 .. N - 1
      /\ \A i, j \in D : << i, j >> \in R =>
           Cardinality(Before(D, R, i)) < Cardinality(Before(D, R, j))
      /\ \A n \in 0 .. N - 1 : \E i \in D : Cardinality(Before(D, R, i)) = n
  <2> HIDE DEF N
  <2> QED BY <1>4, <1>6, Places
<1>8. /\ \A i \in D : rank(i) \in 1 .. N
      /\ \A i, j \in D : << i, j >> \in R => rank(i) < rank(j)
      /\ \A r \in 1 .. N : \E i \in D : rank(i) = r
  <2>1. \A i \in D : rank(i) \in 1 .. N
    BY <1>0, <1>5, <1>7
  <2>2. ASSUME NEW i \in D, NEW j \in D, << i, j >> \in R PROVE rank(i) < rank(j)
    <3>1. /\ Cardinality(Before(D, R, i)) \in Int /\ Cardinality(Before(D, R, j)) \in Int
          /\ Cardinality(Before(D, R, i)) < Cardinality(Before(D, R, j))
      BY <1>7, <2>2
    <3> QED BY <1>5, <3>1
  <2>3. ASSUME NEW r \in 1 .. N PROVE \E i \in D : rank(i) = r
    <3>1. r - 1 \in 0 .. N - 1 /\ r \in Int
      BY <1>0
    <3>2. PICK i \in D : Cardinality(Before(D, R, i)) = r - 1
      BY <1>7, <3>1
    <3> QED BY <1>5, <3>1, <3>2
  <2> QED BY <2>1, <2>2, <2>3
<1>9. \A r \in 1 .. size : pos[r] \in D /\ rank(pos[r]) = r
  <2> SUFFICES ASSUME NEW r \in 1 .. size PROVE pos[r] \in D /\ rank(pos[r]) = r
    OBVIOUS
  <2>1. r \in 1 .. N
    BY <1>0, <1>2
  <2>2. \E i \in D : rank(i) = r
    BY <1>8, <2>1
  <2>3. pos[r] = CHOOSE i \in D : rank(i) = r
    OBVIOUS
  <2> QED BY <2>2, <2>3
<1>10. \A i, j \in D : rank(i) = rank(j) => i = j
  <2> SUFFICES ASSUME NEW i \in D, NEW j \in D, rank(i) = rank(j), i # j PROVE FALSE
    OBVIOUS
  <2>1. rank(i) \in Int /\ rank(j) \in Int
    BY <1>0, <1>8
  <2>2. rank(i) < rank(j) \/ rank(j) < rank(i)
    BY <1>4, <1>8
  <2> QED BY <2>1, <2>2
<1>11. \A i, j \in D : rank(i) <= rank(j) => e[i].value >= e[j].value
  <2> SUFFICES ASSUME NEW i \in D, NEW j \in D, rank(i) <= rank(j)
               PROVE  e[i].value >= e[j].value
    OBVIOUS
  <2>1. e[i].value \in Int /\ e[j].value \in Int /\ rank(i) \in Int /\ rank(j) \in Int
    BY <1>0, <1>8
  <2>2. CASE i = j
    BY <2>1, <2>2
  <2>3. CASE i # j
    <3>1. << i, j >> \in R
      <4>1. << j, i >> \notin R
        BY <1>8, <2>1
      <4> QED BY <1>4, <2>3, <4>1
    <3>2. before(i, j)
      BY <1>3, <3>1
    <3> QED BY <2>1, <3>2 DEF before
  <2> QED BY <2>2, <2>3
<1>12. /\ DOMAIN b = 1 .. size /\ Len(b) = size /\ \A r \in 1 .. size : b[r] = e[pos[r]]
  BY <1>1, <1>2
<1>13. pos \in [1 .. size -> D]
  BY <1>9
<1> HIDE DEF pos, b, size
<1>14. ASSUME NEW r \in 1 .. size, NEW q \in 1 .. size, r < q
       PROVE  pos[r] # pos[q] /\ e[pos[r]].value >= e[pos[q]].value
  <2>1. pos[r] \in D /\ pos[q] \in D /\ rank(pos[r]) = r /\ rank(pos[q]) = q
    BY <1>9
  <2>2. r # q /\ r <= q
    BY <1>14
  <2> QED BY <1>11, <2>1, <2>2
<1>15. ASSUME NEW i \in D, N <= TOP_N PROVE \E r \in 1 .. size : pos[r] = i
  <2>1. rank(i) \in 1 .. size
    BY <1>2, <1>8, <1>15
  <2>2. pos[rank(i)] = i
    BY <1>9, <1>10, <2>1
  <2> QED BY <2>1, <2>2
<1>16. ASSUME NEW i \in D, size >= 1 PROVE e[pos[1]].value >= e[i].value
  <2>1. 1 \in 1 .. size
    BY <1>2, <1>16
  <2>2. pos[1] \in D /\ rank(pos[1]) = 1 /\ rank(i) \in 1 .. N
    BY <1>8, <1>9, <2>1
  <2>3. rank(pos[1]) <= rank(i)
    BY <1>0, <2>2
  <2> QED BY <1>11, <2>2, <2>3
<1>17. Ranks(b, e, pos)
  BY <1>12, <1>13, <1>14, <1>15, <1>16 DEF Ranks, D, size
<1> QED BY <1>17 DEF b

\* m has the elements of s at the places in I, in order: pos says which.
KeepsOrder(m, s, I, pos) ==
  /\ pos \in [1 .. Len(m) -> I]
  /\ \A k \in 1 .. Len(m) : m[k] = s[pos[k]]
  /\ \A k, l \in 1 .. Len(m) : k < l => pos[k] < pos[l]
  /\ \A i \in I : \E k \in 1 .. Len(m) : pos[k] = i

\* What is picked keeps its order.
LEMMA PickedOrder ==
  ASSUME NEW S, NEW s \in Seq(S), NEW I \in SUBSET (1 .. Len(s))
  PROVE  \E pos : KeepsOrder(Picked(s, I), s, I, pos)
<1> DEFINE N == Len(s)
           J(n) == I \cap (1 .. n)
<1>0. N \in Nat /\ \A n \in 1 .. N : s[n] \in S
  OBVIOUS
<1>10. PICK f \in [0 .. Len(s) -> Seq(S)] : Picks(f, s, I)
  BY PickedRecursion
<1>1. /\ f \in [0 .. N -> Seq(S)] /\ f[0] = << >> /\ Picked(s, I) = f[N]
      /\ \A n \in 1 .. N : f[n] = IF n \in I THEN Append(f[n - 1], s[n]) ELSE f[n - 1]
  BY <1>10 DEF Picks
<1>7. I \subseteq 1 .. N
  OBVIOUS
<1> HIDE DEF N
<1> DEFINE P == {n \in 0 .. N : \E pos : KeepsOrder(f[n], s, J(n), pos)}
<1>2. 0 \in P
  <2> DEFINE pos == << >>
  <2>1. J(0) = {} /\ f[0] = << >> /\ 0 \in 0 .. N
    BY <1>0, <1>1
  <2>2. KeepsOrder(f[0], s, J(0), pos)
    BY <2>1 DEF KeepsOrder
  <2> HIDE DEF pos
  <2> QED BY <2>1, <2>2
<1>3. ASSUME NEW n \in 1 .. N, n - 1 \in P PROVE n \in P
  <2>0. /\ f[n - 1] \in Seq(S) /\ Len(f[n - 1]) \in Nat /\ n \in 0 .. N
        /\ f[n] = IF n \in I THEN Append(f[n - 1], s[n]) ELSE f[n - 1]
    BY <1>0, <1>1
  <2>1. PICK pos : KeepsOrder(f[n - 1], s, J(n - 1), pos)
    BY <1>3
  <2>2. CASE n \in I
    <3> DEFINE L == Len(f[n - 1])
               new == [k \in 1 .. L + 1 |-> IF k = L + 1 THEN n ELSE pos[k]]
    <3>1. J(n) = J(n - 1) \cup {n} /\ \A i \in J(n - 1) : i \in Int /\ i < n
      BY <2>2
    <3>2. /\ Len(f[n]) = L + 1 /\ f[n][L + 1] = s[n]
          /\ \A k \in 1 .. L : f[n][k] = f[n - 1][k]
      BY <2>0, <2>2, <1>0
    <3>3. /\ pos \in [1 .. L -> J(n - 1)] /\ \A k \in 1 .. L : f[n - 1][k] = s[pos[k]]
          /\ \A k, l \in 1 .. L : k < l => pos[k] < pos[l]
          /\ \A i \in J(n - 1) : \E k \in 1 .. L : pos[k] = i
      BY <2>1 DEF KeepsOrder
    <3>4. L \in Nat
      BY <2>0
    <3> HIDE DEF L, J
    <3>5. /\ new[L + 1] = n /\ \A k \in 1 .. L : new[k] = pos[k]
          /\ L + 1 \in 1 .. L + 1 /\ \A k \in 1 .. L : k \in 1 .. L + 1
          /\ \A k \in 1 .. L + 1 : k = L + 1 \/ k \in 1 .. L
      BY <3>4
    <3>6. new \in [1 .. L + 1 -> J(n)]
      <4>1. \A k \in 1 .. L + 1 : new[k] \in J(n)
        BY <3>1, <3>3, <3>5
      <4> QED BY <4>1
    <3> HIDE DEF new
    <3>7. \A k \in 1 .. L + 1 : f[n][k] = s[new[k]]
      BY <3>2, <3>3, <3>5
    <3>8. ASSUME NEW k \in 1 .. L + 1, NEW l \in 1 .. L + 1, k < l PROVE new[k] < new[l]
      <4>1. k \in 1 .. L
        BY <3>4, <3>8
      <4>2. pos[k] \in J(n - 1) /\ new[k] = pos[k]
        BY <3>3, <3>5, <4>1
      <4>3. CASE l = L + 1
        BY <3>1, <3>5, <4>2, <4>3
      <4>4. CASE l \in 1 .. L
        BY <3>3, <3>5, <3>8, <4>1, <4>4
      <4> QED BY <3>5, <4>3, <4>4
    <3>9. ASSUME NEW i \in J(n) PROVE \E k \in 1 .. L + 1 : new[k] = i
      BY <3>1, <3>3, <3>5
    <3>10. KeepsOrder(f[n], s, J(n), new)
      BY <3>2, <3>6, <3>7, <3>8, <3>9 DEF KeepsOrder
    <3> QED BY <2>0, <3>10
  <2>3. CASE n \notin I
    <3>1. J(n) = J(n - 1) /\ f[n] = f[n - 1]
      BY <2>0, <2>3
    <3> QED BY <2>0, <2>1, <3>1
  <2> QED BY <2>2, <2>3
<1> HIDE DEF P
<1>4. \A n \in 0 .. N : n \in P
  BY <1>0, <1>2, <1>3, BoundedInduction
<1>5. N \in 0 .. N /\ J(N) = I
  <2>1. N \in 0 .. N
    BY <1>0
  <2>2. J(N) = I
    BY <1>7, Zenon
  <2> QED BY <2>1, <2>2
<1> HIDE DEF J
<1>6. \E pos : KeepsOrder(f[N], s, J(N), pos)
  BY <1>4, <1>5 DEF P
<1> QED BY <1>1, <1>5, <1>6

\* Keys are the values there are, but for null, and each is there once.
LEMMA KeysFacts ==
  ASSUME NEW S, NEW s \in Seq(S)
  PROVE  /\ Keys(s) \in Seq(S) /\ Len(Keys(s)) <= Len(s)
         /\ \A k \in 1 .. Len(Keys(s)) :
              Keys(s)[k] # NULL /\ \E i \in 1 .. Len(s) : s[i] = Keys(s)[k]
         /\ \A k, l \in 1 .. Len(Keys(s)) : k < l => Keys(s)[k] # Keys(s)[l]
         /\ \A i \in 1 .. Len(s) : s[i] # NULL => \E k \in 1 .. Len(Keys(s)) : Keys(s)[k] = s[i]
<1> DEFINE I == {i \in 1 .. Len(s) : s[i] # NULL /\ \A j \in 1 .. i - 1 : s[j] # s[i]}
           m == Picked(s, I)
<1>0. Len(s) \in Nat /\ DOMAIN s = 1 .. Len(s)
  OBVIOUS
<1>1. Keys(s) = m
  BY <1>0 DEF Keys
<1>2. I \in SUBSET (1 .. Len(s)) /\ \A i \in I : s[i] # NULL /\ \A j \in 1 .. i - 1 : s[j] # s[i]
  OBVIOUS
<1>3. ASSUME NEW i \in 1 .. Len(s), s[i] # NULL PROVE \E j \in I : s[j] = s[i]
  <2> DEFINE T == {j \in 1 .. Len(s) : s[j] = s[i]}
  <2>1. T \subseteq Nat /\ T # {}
    OBVIOUS
  <2>2. PICK n \in T : \A k \in T : n <= k
    <3> HIDE DEF T
    <3> QED BY <2>1, LeastNumber
  <2>3. ASSUME NEW j \in 1 .. n - 1 PROVE s[j] # s[n]
    <3>1. j \in 1 .. Len(s) /\ ~(n <= j)
      BY <1>0
    <3> QED BY <2>2, <3>1
  <2> QED BY <1>3, <2>3
<1> HIDE DEF I
<1>4. m \in Seq(S) /\ Len(m) = Cardinality(I) /\ IsFiniteSet(I)
  BY <1>2, PickedFacts
<1>5. PICK pos : KeepsOrder(m, s, I, pos)
  BY <1>2, PickedOrder
<1>6. Len(m) <= Len(s)
  <2>1. IsFiniteSet(1 .. Len(s)) /\ Cardinality(1 .. Len(s)) = Len(s)
    <3>1. 1 \in Int /\ Len(s) \in Int /\ (IF 1 > Len(s) THEN 0 ELSE Len(s) - 1 + 1) = Len(s)
      BY <1>0
    <3> QED BY <3>1, FS_Interval
  <2>2. Cardinality(I) <= Cardinality(1 .. Len(s))
    BY <1>2, <2>1, FS_Subset
  <2> QED BY <1>4, <2>1, <2>2
<1> HIDE DEF m
<1>7. \A k \in 1 .. Len(m) : pos[k] \in I /\ m[k] = s[pos[k]]
  BY <1>5 DEF KeepsOrder
<1>8. ASSUME NEW k \in 1 .. Len(m), NEW l \in 1 .. Len(m), k < l PROVE m[k] # m[l]
  <2>1. pos[k] < pos[l] /\ pos[k] \in 1 .. Len(s) /\ pos[l] \in 1 .. Len(s)
    BY <1>2, <1>5, <1>7, <1>8 DEF KeepsOrder
  <2>2. pos[k] \in 1 .. pos[l] - 1
    BY <1>0, <2>1
  <2>3. m[k] = s[pos[k]] /\ m[l] = s[pos[l]] /\ pos[l] \in I
    BY <1>7
  <2>4. s[pos[k]] # s[pos[l]]
    BY <1>2, <2>2, <2>3
  <2> QED BY <2>3, <2>4
<1>9. ASSUME NEW i \in 1 .. Len(s), s[i] # NULL PROVE \E k \in 1 .. Len(m) : m[k] = s[i]
  <2>1. PICK j \in I : s[j] = s[i]
    BY <1>3, <1>9
  <2>2. PICK k \in 1 .. Len(m) : pos[k] = j
    BY <1>5 DEF KeepsOrder
  <2> QED BY <1>7, <2>1, <2>2
<1>10. \A k \in 1 .. Len(m) : m[k] # NULL /\ \E i \in 1 .. Len(s) : s[i] = m[k]
  BY <1>2, <1>7
<1>11. \A k, l \in 1 .. Len(m) : k < l => m[k] # m[l]
  BY <1>8
<1>12. \A i \in 1 .. Len(s) : s[i] # NULL => \E k \in 1 .. Len(m) : m[k] = s[i]
  BY <1>9
<1> QED BY <1>1, <1>4, <1>6, <1>10, <1>11, <1>12, Zenon

-----------------------------------------------------------------------------
(* Streaks.                                                                *)

\* s has the numbers of H, the least first.
Sorts(s, H) ==
  /\ Cardinality(H) \in Nat /\ Len(s) = Cardinality(H)
  /\ s \in [1 .. Cardinality(H) -> H]
  /\ \A k, l \in 1 .. Cardinality(H) : k < l => s[k] < s[l]
  /\ \A h \in H : \E k \in 1 .. Cardinality(H) : s[k] = h

\* Sorting sorts.
LEMMA SortedFacts ==
  ASSUME NEW H, H \subseteq Int, IsFiniteSet(H)
  PROVE  Sorts(Sorted(H), H)
<1> DEFINE n == Cardinality(H)
           R == {x \in H \X H : x[1] < x[2]}
           place(h) == Cardinality(Before(H, R, h))
           s == [k \in 1 .. n |-> CHOOSE h \in H : Cardinality({m \in H : m < h}) = k - 1]
<1>0. n \in Nat /\ \A h \in H : h \in Int
  BY FS_CardinalityType
<1>1. Sorted(H) = s
  BY DEF Sorted
<1>2. \A h, m \in H : << m, h >> \in R <=> m < h
  OBVIOUS
<1> HIDE DEF R
<1>3. \A h \in H : {m \in H : m < h} = Before(H, R, h)
  BY <1>2 DEF Before
<1>4. /\ \A h \in H : place(h) \in 0 .. n - 1
      /\ \A h, m \in H : << h, m >> \in R => place(h) < place(m)
      /\ \A k \in 0 .. n - 1 : \E h \in H : place(h) = k
  <2>1. \A h \in H : << h, h >> \notin R
    BY <1>0, <1>2
  <2>2. \A h, m, l \in H : << h, m >> \in R /\ << m, l >> \in R => << h, l >> \in R
    BY <1>0, <1>2
  <2>3. \A h, m \in H : h # m => << h, m >> \in R \/ << m, h >> \in R
    BY <1>0, <1>2
  <2> QED BY <2>1, <2>2, <2>3, Places
<1>5. ASSUME NEW k \in 1 .. n PROVE s[k] \in H /\ place(s[k]) = k - 1
  <2>1. k - 1 \in 0 .. n - 1
    BY <1>0
  <2>2. \E h \in H : Cardinality({m \in H : m < h}) = k - 1
    BY <1>3, <1>4, <2>1
  <2>3. s[k] \in H /\ Cardinality({m \in H : m < s[k]}) = k - 1
    BY <2>2
  <2> HIDE DEF s
  <2> QED BY <1>3, <2>3
<1>6. s \in [1 .. n -> H] /\ Len(s) = n
  <2>1. \A k \in 1 .. n : s[k] \in H
    BY <1>5
  <2>2. Len(s) = n
    BY <1>0
  <2> QED BY <2>1, <2>2
<1> HIDE DEF s
<1>7. ASSUME NEW k \in 1 .. n, NEW l \in 1 .. n, k < l PROVE s[k] < s[l]
  <2>1. /\ s[k] \in H /\ s[l] \in H /\ s[k] \in Int /\ s[l] \in Int
        /\ place(s[k]) = k - 1 /\ place(s[l]) = l - 1
    BY <1>0, <1>5
  <2>2. CASE s[l] < s[k]
    <3>1. place(s[l]) < place(s[k])
      BY <1>2, <1>4, <2>1, <2>2
    <3> QED BY <1>7, <2>1, <3>1
  <2>3. CASE s[l] = s[k]
    <3>1. k - 1 = l - 1
      BY <2>1, <2>3, Zenon
    <3> QED BY <1>7, <3>1
  <2> QED BY <2>1, <2>2, <2>3
<1>8. ASSUME NEW h \in H PROVE \E k \in 1 .. n : s[k] = h
  <2> DEFINE k == place(h) + 1
  <2>1. k \in 1 .. n /\ place(h) = k - 1
    BY <1>0, <1>4
  <2>2. s[k] \in H /\ place(s[k]) = place(h)
    <3> HIDE DEF k
    <3>1. s[k] \in H /\ place(s[k]) = k - 1
      BY <1>5, <2>1
    <3> QED BY <2>1, <3>1
  <2> HIDE DEF k
  <2>3. ASSUME h < s[k] PROVE FALSE
    <3>1. << h, s[k] >> \in R
      BY <1>2, <2>2, <2>3
    <3>2. place(h) < place(s[k]) /\ place(h) \in 0 .. n - 1
      BY <1>4, <2>2, <3>1
    <3> QED BY <1>0, <2>2, <3>2
  <2>4. ASSUME s[k] < h PROVE FALSE
    <3>1. << s[k], h >> \in R
      BY <1>2, <2>2, <2>4
    <3>2. place(s[k]) < place(h) /\ place(h) \in 0 .. n - 1
      BY <1>4, <2>2, <3>1
    <3> QED BY <1>0, <2>2, <3>2
  <2>5. s[k] = h
    <3>1. h \in Int /\ s[k] \in Int
      BY <1>0, <2>2
    <3>2. ~(h < s[k]) /\ ~(s[k] < h)
      BY <2>3, <2>4
    <3> QED BY <3>1, <3>2
  <2> QED BY <2>1, <2>5
<1> QED BY <1>0, <1>1, <1>6, <1>7, <1>8 DEF Sorts

\* The greatest of a set.
LEMMA MaxIs ==
  ASSUME NEW T, T \subseteq Int, NEW m \in T, \A x \in T : m >= x
  PROVE  Max(T) = m
<1>1. \E x \in T : \A y \in T : x >= y
  OBVIOUS
<1>2. Max(T) \in T /\ \A y \in T : Max(T) >= y
  BY <1>1 DEF Max
<1>3. Max(T) \in Int /\ m \in Int /\ Max(T) >= m /\ m >= Max(T)
  BY <1>2
<1> QED BY <1>3

\* c has the length of the run up to each of the n sorted numbers.
Streaks(c, s, n) ==
  /\ c \in [0 .. n -> Nat] /\ c[0] = 0
  /\ \A k \in 1 .. n : c[k] = IF k > 1 /\ s[k] = s[k - 1] + 1 THEN c[k - 1] + 1 ELSE 1

\* What the pass over the sorted hours computes by recursion.
LEMMA StreakRecursion ==
  ASSUME NEW H, IsFiniteSet(H)
  PROVE  \E c : /\ Streaks(c, Sorted(H), Cardinality(H))
               /\ longestConsecutiveStreak(H) = Max({c[k] : k \in 0 .. Cardinality(H)})
<1> DEFINE N == Cardinality(H)
           s == Sorted(H)
           goes(k) == k > 1 /\ s[k] = s[k - 1] + 1
           step == [k \in 1 .. N |-> [t \in Nat |-> IF goes(k) THEN t + 1 ELSE 1]]
           Eq(f) == f = [k \in 0 .. N |->
                          IF k = 0 THEN 0
                          ELSE IF goes(k) THEN f[k - 1] + 1 ELSE 1]
<1>0. N \in Nat
  BY FS_CardinalityType
<1>1. Len(s) = N
  BY <1>0 DEF Sorted
<1>2. PICK f \in [0 .. N -> Nat] :
        f[0] = 0 /\ \A k \in 1 .. N : f[k] = step[k][f[k - 1]]
  <2>1. step \in [1 .. N -> [Nat -> Nat]] /\ 0 \in Nat
    OBVIOUS
  <2> HIDE DEF N, step
  <2>2. \E g \in [0 .. N -> Nat] : Follows(g, 0, step, N)
    BY <1>0, <2>1, Recursion
  <2> QED BY <2>2 DEF Follows
<1> DEFINE c == CHOOSE f_1 : Eq(f_1)
<1>10. longestConsecutiveStreak(H) = Max({c[k] : k \in 0 .. N})
  BY <1>1 DEF longestConsecutiveStreak
<1> HIDE DEF N, goes
<1>3. \A k \in 1 .. N : f[k - 1] \in Nat
  BY <1>0
<1>4. \A k \in 1 .. N : f[k] = IF goes(k) THEN f[k - 1] + 1 ELSE 1
  BY <1>2, <1>3
<1>5. Eq(f)
  <2> DEFINE g == [k \in 0 .. N |->
                     IF k = 0 THEN 0 ELSE IF goes(k) THEN f[k - 1] + 1 ELSE 1]
  <2>1. ASSUME NEW k \in 0 .. N PROVE f[k] = g[k]
    <3>1. CASE k = 0
      BY <3>1, <1>2
    <3>2. CASE k # 0
      <4>1. k \in 1 .. N
        BY <3>2, <1>0
      <4> QED BY <3>2, <4>1, <1>4, Zenon
    <3> QED BY <3>1, <3>2
  <2>2. DOMAIN f = DOMAIN g /\ f = [k \in DOMAIN f |-> f[k]] /\ g = [k \in DOMAIN g |-> g[k]]
    OBVIOUS
  <2> QED BY <2>1, <2>2, Zenon
<1>6. Eq(c)
  BY <1>5
<1> HIDE DEF c, step
<1>7. DOMAIN c = 0 .. N /\ c[0] = 0
  BY <1>0, <1>6
<1>8. ASSUME NEW k \in 1 .. N
      PROVE  c[k] = IF goes(k) THEN c[k - 1] + 1 ELSE 1
  <2>1. k \in 0 .. N /\ k # 0
    BY <1>0
  <2> QED BY <2>1, <1>6, Zenon
<1>9. \A k \in 0 .. N : c[k] \in Nat
  <2> DEFINE P == {k \in 0 .. N : c[k] \in Nat}
  <2>1. 0 \in P
    BY <1>0, <1>7
  <2>2. ASSUME NEW k \in 1 .. N, k - 1 \in P PROVE k \in P
    BY <1>8, <2>2
  <2> HIDE DEF P
  <2>3. \A k \in 0 .. N : k \in P
    BY <1>0, <2>1, <2>2, BoundedInduction
  <2> QED BY <2>3 DEF P
<1>11. c = [k \in 0 .. N |-> c[k]]
  <2>1. c = [k \in DOMAIN c |-> c[k]]
    BY <1>6 DEF Eq
  <2> QED BY <2>1, <1>7
<1> HIDE DEF Eq
<1>12. c \in [0 .. N -> Nat]
  BY <1>9, <1>11
<1>13. \A k \in 1 .. N : c[k] = IF k > 1 /\ s[k] = s[k - 1] + 1 THEN c[k - 1] + 1 ELSE 1
  BY <1>8 DEF goes
<1> HIDE DEF s
<1>14. Streaks(c, s, N)
  BY <1>7, <1>12, <1>13 DEF Streaks
<1> QED BY <1>10, <1>14 DEF N, s

\* The pass over the sorted hours finds the longest run.
LEMMA StreakFacts ==
  ASSUME NEW H, H \subseteq Int, IsFiniteSet(H), H # {}
  PROVE  /\ longestConsecutiveStreak(H) \in Nat
         /\ longestConsecutiveStreak(H)
              = Max({run[2] - run[1] + 1 : run \in {run \in H \X H : run[1] .. run[2] \subseteq H}})
<1> DEFINE n == Cardinality(H)
           s == Sorted(H)
           lengths == {run[2] - run[1] + 1 :
                         run \in {run \in H \X H : run[1] .. run[2] \subseteq H}}
<1>0. /\ n \in Nat \ {0} /\ s \in [1 .. n -> H] /\ \A h \in H : h \in Int
      /\ \A k, l \in 1 .. n : k < l => s[k] < s[l]
      /\ \A h \in H : \E k \in 1 .. n : s[k] = h
  <2>1. Sorts(s, H)
    BY SortedFacts
  <2>2. n # 0
    BY FS_EmptySet
  <2> HIDE DEF s
  <2> QED BY <2>1, <2>2 DEF Sorts
<1> HIDE DEF n, s
<1>8. PICK c : Streaks(c, s, n) /\ longestConsecutiveStreak(H) = Max({c[k] : k \in 0 .. n})
  BY StreakRecursion DEF n, s
<1>1. /\ c \in [0 .. n -> Nat] /\ c[0] = 0
      /\ \A k \in 1 .. n :
           c[k] = IF k > 1 /\ s[k] = s[k - 1] + 1 THEN c[k - 1] + 1 ELSE 1
  BY <1>8 DEF Streaks
<1>7. \A k \in 1 .. n : s[k] \in H /\ s[k] \in Int /\ k \in Int
  <2>1. ASSUME NEW k \in 1 .. n PROVE s[k] \in H /\ k \in Int
    BY <1>0
  <2>2. \A h \in H : h \in Int
    OBVIOUS
  <2> QED BY <2>1, <2>2
\* The run up to k is in H, and H has a gap before it.
<1> DEFINE Good(k) == /\ c[k] \in 1 .. k
                      /\ s[k] - c[k] + 1 .. s[k] \subseteq H
                      /\ s[k] - c[k] \notin H
           P == {k \in 0 .. n : k # 0 => Good(k)}
<1>2. ASSUME NEW k \in 1 .. n, k - 1 \in P PROVE Good(k)
  <2>0. s[k] \in H /\ s[k] \in Int /\ k \in Int
    BY <1>7
  <2>1. CASE k > 1 /\ s[k] = s[k - 1] + 1
    <3>1. k - 1 \in 1 .. n /\ k - 1 # 0
      BY <1>0, <2>1
    <3>2. /\ c[k - 1] \in 1 .. k - 1
          /\ s[k - 1] - c[k - 1] + 1 .. s[k - 1] \subseteq H
          /\ s[k - 1] - c[k - 1] \notin H
      BY <1>2, <3>1
    <3>3. c[k] = c[k - 1] + 1
      BY <1>1, <2>1
    <3>4. s[k - 1] \in Int
      BY <1>7, <3>1
    <3>5. c[k] \in 1 .. k
      BY <2>0, <3>2, <3>3
    <3>6. s[k] - c[k] = s[k - 1] - c[k - 1]
      BY <2>1, <3>2, <3>3, <3>4
    <3>7. \A h \in s[k] - c[k] + 1 .. s[k] : h \in H
      <4> SUFFICES ASSUME NEW h \in s[k] - c[k] + 1 .. s[k] PROVE h \in H
        OBVIOUS
      <4>1. CASE h = s[k]
        BY <2>0, <4>1
      <4>2. CASE h # s[k]
        <5>1. h \in s[k - 1] - c[k - 1] + 1 .. s[k - 1]
          BY <2>0, <2>1, <3>2, <3>3, <3>4, <4>2
        <5> QED BY <3>2, <5>1
      <4> QED BY <4>1, <4>2
    <3>8. s[k] - c[k] \notin H
      BY <3>2, <3>6
    <3> QED BY <3>5, <3>7, <3>8
  <2>2. CASE ~(k > 1 /\ s[k] = s[k - 1] + 1)
    <3>1. c[k] = 1
      BY <1>1, <2>2
    <3>2. s[k] - 1 \notin H
      <4> SUFFICES ASSUME s[k] - 1 \in H PROVE FALSE
        OBVIOUS
      <4>1. PICK j \in 1 .. n : s[j] = s[k] - 1
        BY <1>0
      <4>2. j < k
        <5>1. ~(k < j) /\ k # j
          <6>1. s[j] < s[k] /\ s[j] \in Int
            BY <2>0, <4>1
          <6>2. k < j => s[k] < s[j]
            BY <1>0
          <6> QED BY <2>0, <6>1, <6>2
        <5> QED BY <1>0, <5>1
      <4>3. k > 1 /\ k - 1 \in 1 .. n
        BY <1>0, <4>2
      <4>4. s[k - 1] < s[k] /\ s[k - 1] \in Int
        <5>1. k - 1 < k
          BY <2>0
        <5> QED BY <1>0, <1>7, <4>3, <5>1
      <4>5. j = k - 1 \/ j < k - 1
        BY <2>0, <4>2
      <4>6. j < k - 1 => s[j] < s[k - 1]
        BY <1>0, <4>3
      <4>7. j = k - 1
        BY <2>0, <4>1, <4>4, <4>5, <4>6
      <4> QED BY <2>0, <2>2, <4>1, <4>3, <4>4, <4>7
    <3>3. s[k] - c[k] + 1 .. s[k] \subseteq H
      <4>1. \A h \in s[k] - 1 + 1 .. s[k] : h = s[k]
        BY <2>0
      <4> QED BY <2>0, <3>1, <4>1
    <3>4. 1 \in 1 .. k
      BY <2>0
    <3> QED BY <3>1, <3>2, <3>3, <3>4
  <2> QED BY <2>1, <2>2
<1>3. \A k \in 1 .. n : Good(k)
  <2>1. 0 \in P
    BY <1>0
  <2>2. \A k \in 1 .. n : k - 1 \in P => k \in P
    <3> SUFFICES ASSUME NEW k \in 1 .. n, k - 1 \in P PROVE k \in P
      OBVIOUS
    <3>1. Good(k)
      BY <1>2
    <3> HIDE DEF Good
    <3> QED BY <1>0, <3>1
  <2> HIDE DEF P
  <2>3. \A k \in 0 .. n : k \in P
    BY <1>0, <2>1, <2>2, BoundedInduction
  <2>4. \A k \in 1 .. n : k \in P /\ k # 0
    BY <1>0, <2>3
  <2> QED BY <2>4 DEF P
<1> HIDE DEF P
\* One of the lengths is the greatest.
<1>4. PICK m \in 1 .. n : \A k \in 1 .. n : c[m] >= c[k]
  <2> DEFINE T == {n - c[k] : k \in 1 .. n}
  <2>1. \A k \in 1 .. n : c[k] \in Int /\ n - c[k] \in Nat
    BY <1>0, <1>3
  <2>2. T \subseteq Nat /\ T # {}
    BY <1>0, <2>1
  <2>3. PICK x \in T : \A y \in T : x <= y
    <3> HIDE DEF T
    <3> QED BY <2>2, LeastNumber
  <2>4. PICK k \in 1 .. n : x = n - c[k]
    BY <2>3
  <2>5. ASSUME NEW l \in 1 .. n PROVE c[k] >= c[l]
    <3>1. n - c[k] <= n - c[l]
      BY <2>3, <2>4
    <3> QED BY <1>0, <2>1, <3>1
  <2> QED BY <2>5
<1>5. Max({c[k] : k \in 0 .. n}) = c[m]
  <2> DEFINE T == {c[k] : k \in 0 .. n}
  <2>1. T \subseteq Int
    BY <1>1
  <2>2. c[m] \in T /\ c[m] >= 1
    BY <1>0, <1>3
  <2>3. \A x \in T : c[m] >= x
    <3> SUFFICES ASSUME NEW k \in 0 .. n PROVE c[m] >= c[k]
      OBVIOUS
    <3>1. CASE k = 0
      BY <1>1, <2>1, <2>2, <3>1
    <3>2. CASE k # 0
      BY <1>0, <1>4, <3>2
    <3> QED BY <3>1, <3>2
  <2> HIDE DEF T
  <2> DEFINE x == c[m]
  <2>4. x \in T /\ \A y \in T : x >= y
    BY <2>2, <2>3
  <2> HIDE DEF x
  <2>5. Max(T) = x
    BY <2>1, <2>4, MaxIs
  <2> QED BY <2>5 DEF T, x
<1>6. Max(lengths) = c[m]
  <2>0. c[m] \in 1 .. m /\ s[m] \in H /\ s[m] \in Int
    BY <1>0, <1>3
  <2>1. lengths \subseteq Int
    <3>1. \A run \in H \X H : run[1] \in Int /\ run[2] \in Int
      OBVIOUS
    <3>2. \A run \in H \X H : run[2] - run[1] + 1 \in Int
      BY <3>1
    <3> QED BY <3>2
  <2>2. c[m] \in lengths
    <3> DEFINE run == << s[m] - c[m] + 1, s[m] >>
    <3>1. s[m] - c[m] + 1 \in s[m] - c[m] + 1 .. s[m]
      BY <2>0
    <3>2. run[1] .. run[2] \subseteq H /\ run \in H \X H
      BY <1>3, <2>0, <3>1
    <3>3. run[2] - run[1] + 1 = c[m]
      BY <2>0
    <3> HIDE DEF run
    <3> QED BY <3>2, <3>3
  <2>3. ASSUME NEW run \in H \X H, run[1] .. run[2] \subseteq H
        PROVE  c[m] >= run[2] - run[1] + 1
    <3>1. PICK k \in 1 .. n : s[k] = run[2]
      BY <1>0
    <3>2. run[1] \in Int /\ run[2] \in Int /\ c[k] \in 1 .. k /\ c[m] >= c[k]
      BY <1>0, <1>3, <1>4
    <3>3. ASSUME run[2] - run[1] + 1 > c[k] PROVE FALSE
      <4>1. run[2] - c[k] \in run[1] .. run[2]
        BY <3>2, <3>3
      <4>2. run[2] - c[k] \in H
        BY <2>3, <4>1
      <4> QED BY <1>3, <3>1, <4>2
    <3> QED BY <2>0, <3>2, <3>3
  <2>4. \A x \in lengths : c[m] >= x
    BY <2>3
  <2> HIDE DEF lengths
  <2> DEFINE x == c[m]
  <2>5. x \in lengths /\ \A y \in lengths : x >= y
    BY <2>2, <2>4
  <2> HIDE DEF x
  <2>6. Max(lengths) = x
    BY <2>1, <2>5, MaxIs
  <2> QED BY <2>6 DEF x
<1>9. c[m] \in Nat
  BY <1>0, <1>1
<1> QED BY <1>5, <1>6, <1>8, <1>9

-----------------------------------------------------------------------------
(* Parts of a listing.                                                     *)

\* Who picks every place has the whole sequence.
LEMMA PickedAll ==
  ASSUME NEW S, NEW s \in Seq(S), NEW I, I = DOMAIN s
  PROVE  Picked(s, I) = s
<1> DEFINE N == Len(s)
<1>0. N \in Nat /\ DOMAIN s = 1 .. N /\ s \in [1 .. N -> S]
  OBVIOUS
<1>10. PICK f \in [0 .. Len(s) -> Seq(S)] : Picks(f, s, I)
  BY PickedRecursion
<1>1. /\ f \in [0 .. N -> Seq(S)] /\ f[0] = << >> /\ Picked(s, I) = f[N]
      /\ \A n \in 1 .. N : f[n] = IF n \in I THEN Append(f[n - 1], s[n]) ELSE f[n - 1]
  BY <1>10 DEF Picks
<1>9. I = 1 .. N
  BY <1>0
<1> HIDE DEF N
<1> DEFINE Good(n) == Len(f[n]) = n /\ \A k \in 1 .. n : f[n][k] = s[k]
           P == {n \in 0 .. N : Good(n)}
<1>2. 0 \in P
  BY <1>0, <1>1
<1>3. ASSUME NEW n \in 1 .. N, n - 1 \in P PROVE n \in P
  <2>0. n - 1 \in 0 .. N /\ n \in 0 .. N /\ n \in Int
    BY <1>0
  <2>1. f[n - 1] \in Seq(S) /\ Good(n - 1) /\ s[n] \in S /\ n \in 0 .. N
    <3>1. f[n - 1] \in Seq(S)
      BY <2>0
    <3>2. s[n] \in S
      BY <1>0
    <3> QED BY <1>3, <2>0, <3>1, <3>2
  <2>2. f[n] = Append(f[n - 1], s[n])
    BY <1>1, <1>9 DEF N
  <2>3. /\ Len(f[n]) = n /\ f[n][n] = s[n]
        /\ \A k \in 1 .. n - 1 : f[n][k] = f[n - 1][k]
    BY <2>0, <2>1, <2>2
  <2>4. ASSUME NEW k \in 1 .. n PROVE f[n][k] = s[k]
    <3>1. CASE k = n
      BY <2>3, <3>1
    <3>2. CASE k # n
      <4>1. k \in 1 .. n - 1
        BY <2>0, <3>2
      <4> QED BY <2>1, <2>3, <4>1
    <3> QED BY <3>1, <3>2
  <2> QED BY <2>1, <2>3, <2>4
<1> HIDE DEF P
<1>4. \A n \in 0 .. N : n \in P
  BY <1>0, <1>2, <1>3, BoundedInduction
<1>5. N \in P /\ f[N] \in Seq(S)
  BY <1>0, <1>4
<1>6. Len(f[N]) = N /\ \A k \in 1 .. N : f[N][k] = s[k]
  BY <1>5 DEF P
<1>7. f[N] = [k \in 1 .. N |-> f[N][k]] /\ s = [k \in 1 .. N |-> s[k]]
  BY <1>0, <1>5, <1>6
<1>8. f[N] = s
  BY <1>6, <1>7
<1> QED BY <1>1, <1>8 DEF N

\* The window of all time has every packet.
LEMMA AllTime ==
  ASSUME NEW l, IsListing(l)
  PROVE  Windowed(l, "all", now) = l
<1> DEFINE I == {i \in DOMAIN l : isWithinWindow(l[i].timestamp, "all", now)}
<1>1. I = DOMAIN l
  BY DEF isWithinWindow
<1>2. Windowed(l, "all", now) = Picked(l, I)
  BY DEF Windowed, Where
<1> HIDE DEF I
<1>3. Picked(l, I) = l
  BY <1>1, PickedAll DEF IsListing
<1> QED BY <1>2, <1>3

\* The packets of a window are some of the listing.
LEMMA WindowIsPicked ==
  ASSUME NEW l, NEW w
  PROVE  \E I \in SUBSET (DOMAIN l) : Windowed(l, w, now) = Picked(l, I)
<1> DEFINE I == {i \in DOMAIN l : isWithinWindow(l[i].timestamp, w, now)}
<1>1. I \in SUBSET (DOMAIN l)
  OBVIOUS
<1>2. Windowed(l, w, now) = Picked(l, I)
  BY DEF Windowed, Where
<1> HIDE DEF I
<1> QED BY <1>1, <1>2

\* A part of a listing is a listing of the packets at those places.
LEMMA PickedListing ==
  ASSUME NEW l, IsListing(l), NEW I \in SUBSET (DOMAIN l)
  PROVE  /\ IsListing(Picked(l, I)) /\ IsListing(l)
         /\ Len(Picked(l, I)) \in Nat /\ DOMAIN Picked(l, I) = 1 .. Len(Picked(l, I))
         /\ IsFiniteSet(I) /\ Len(Picked(l, I)) = Cardinality(I)
         /\ \A k \in 1 .. Len(Picked(l, I)) : \E i \in I : Picked(l, I)[k] = l[i]
         /\ \A i \in I : \E k \in 1 .. Len(Picked(l, I)) : Picked(l, I)[k] = l[i]
<1> DEFINE S == {l[i] : i \in 1 .. Len(l)}
           m == Picked(l, I)
           T == {m[k] : k \in 1 .. Len(m)}
<1>1. l \in Seq(S) /\ I \in SUBSET (1 .. Len(l))
  BY DEF IsListing
<1> HIDE DEF S
<1>2. /\ m \in Seq(S) /\ IsFiniteSet(I) /\ Len(m) = Cardinality(I)
      /\ \A k \in 1 .. Len(m) : \E i \in I : m[k] = l[i]
      /\ \A i \in I : \E k \in 1 .. Len(m) : m[k] = l[i]
  BY <1>1, PickedFacts
<1> HIDE DEF m
<1>3. Len(m) \in Nat /\ DOMAIN m = 1 .. Len(m) /\ m = [k \in 1 .. Len(m) |-> m[k]]
  BY <1>2
<1>4. m \in Seq(T)
  BY <1>3
<1>5. IsListing(m)
  BY <1>4 DEF IsListing
<1> QED BY <1>2, <1>3, <1>5 DEF m

\* What a function has as values on a finite set is finite.
LEMMA ImageIsFinite ==
  ASSUME NEW f, IsFiniteSet(DOMAIN f)
  PROVE  /\ IsFiniteSet({f[x] : x \in DOMAIN f})
         /\ Cardinality({f[x] : x \in DOMAIN f}) \in Nat
         /\ Cardinality({f[x] : x \in DOMAIN f}) <= Cardinality(DOMAIN f)
<1> DEFINE D == DOMAIN f
           T == {f[x] : x \in D}
           g == [x \in D |-> f[x]]
<1>1. g \in Surjection(D, T)
  BY DEF Surjection
<1> HIDE DEF T, g
<1>2. IsFiniteSet(T) /\ Cardinality(T) <= Cardinality(D)
  BY <1>1, FS_Surjection
<1> QED BY <1>2, FS_CardinalityType DEF T

\* So are the places of a sequence.
LEMMA PlacesAreFinite ==
  ASSUME NEW n \in Nat
  PROVE  IsFiniteSet(1 .. n) /\ Cardinality(1 .. n) = n
<1>1. 1 \in Int /\ n \in Int /\ (IF 1 > n THEN 0 ELSE n - 1 + 1) = n
  OBVIOUS
<1> QED BY <1>1, FS_Interval

\* Every packet of l has a time.
Dated(l) == IsListing(l) /\ \A i \in 1 .. Len(l) : l[i].timestamp.at \in Int

\* The hours in which a node sent are numbers, finitely many.
LEMMA HoursFacts ==
  ASSUME NEW l, Dated(l), NEW id
  PROVE  /\ Hours(l, id) \subseteq Int /\ IsFiniteSet(Hours(l, id))
         /\ \A i \in 1 .. Len(l) : l[i].sourceId = id => Hours(l, id) # {}
<1> DEFINE I == {i \in DOMAIN l : l[i].sourceId = id}
           m == Picked(l, I)
           f == [k \in DOMAIN m |-> toHourKey(m[k].timestamp)]
           T == {f[k] : k \in DOMAIN f}
<1>1. Hours(l, id) = T
  <2>1. Hours(l, id) = {toHourKey(p.timestamp) : p \in {m[k] : k \in DOMAIN m}}
    BY DEF Hours, ToSet, Sent, Where
  <2> HIDE DEF m
  <2> QED BY <2>1
<1>2. IsListing(l) /\ I \in SUBSET (DOMAIN l)
  BY DEF Dated
<1>6. DOMAIN l = 1 .. Len(l)
  BY <1>2 DEF IsListing
<1>7. \A i \in I : l[i].timestamp.at \in Int
  BY <1>6 DEF Dated
<1>8. \A i \in 1 .. Len(l) : l[i].sourceId = id => i \in I
  BY <1>6
<1> HIDE DEF I
<1>3. /\ Len(m) \in Nat /\ DOMAIN m = 1 .. Len(m)
      /\ \A k \in 1 .. Len(m) : \E i \in I : m[k] = l[i]
      /\ \A i \in I : \E k \in 1 .. Len(m) : m[k] = l[i]
  BY <1>2, PickedListing
<1> HIDE DEF m
<1>4. DOMAIN f = 1 .. Len(m) /\ IsFiniteSet(DOMAIN f)
  BY <1>3, PlacesAreFinite
<1>5. \A k \in DOMAIN f : f[k] \in Int
  <2> SUFFICES ASSUME NEW k \in 1 .. Len(m) PROVE m[k].timestamp.at \div HOUR \in Int
    BY <1>3, <1>4 DEF toHourKey
  <2>1. m[k].timestamp.at \in Int
    BY <1>3, <1>7
  <2> QED BY <2>1, BoardAssumption
<1>9. ASSUME NEW i \in 1 .. Len(l), l[i].sourceId = id PROVE T # {}
  <2>1. PICK k \in 1 .. Len(m) : m[k] = l[i]
    BY <1>3, <1>8, <1>9
  <2>2. k \in DOMAIN f
    BY <1>4
  <2> HIDE DEF f
  <2> QED BY <2>2
<1> HIDE DEF f
<1>10. T \subseteq Int /\ IsFiniteSet(T)
  BY <1>4, <1>5, ImageIsFinite
<1> QED BY <1>1, <1>9, <1>10

-----------------------------------------------------------------------------
(* Boards of one entry per key.                                            *)

\* A function on the places up to n is a sequence.
LEMMA ListingOf ==
  ASSUME NEW n \in Nat, NEW x, x = [i \in 1 .. n |-> x[i]]
  PROVE  IsListing(x) /\ Len(x) = n /\ DOMAIN x = 1 .. n
<1> DEFINE S == {x[i] : i \in 1 .. n}
           t == [i \in 1 .. n |-> x[i]]
<1>1. t \in Seq(S) /\ Len(t) = n /\ DOMAIN t = 1 .. n
  OBVIOUS
<1> HIDE DEF t
<1>2. x \in Seq(S) /\ Len(x) = n /\ DOMAIN x = 1 .. n
  <2>1. x = t
    BY DEF t
  <2> QED BY <1>1, <2>1, Zenon
<1> QED BY <1>2 DEF IsListing

\* s has something else at each place.
Distinct(s) == IsListing(s) /\ \A k, l \in 1 .. Len(s) : k < l => s[k] # s[l]

\* A list of entries with a number for each key.
Keyed(e, keys) ==
  /\ DOMAIN e = 1 .. Len(keys) /\ Len(e) = Len(keys)
  /\ \A i \in 1 .. Len(keys) : e[i].id = keys[i] /\ e[i].value \in Int

\* The best come first, and nobody comes twice.
InOrder(b) == \A r, q \in DOMAIN b : r < q => b[r].value >= b[q].value
NobodyTwice(b) == \A r, q \in DOMAIN b : r < q => b[r].id # b[q].id

\* Keys are values of s, each once.
LEMMA KeysAreDistinct ==
  ASSUME NEW s, IsListing(s)
  PROVE  /\ Distinct(Keys(s)) /\ Len(Keys(s)) <= Len(s)
         /\ \A k \in 1 .. Len(Keys(s)) :
              Keys(s)[k] # NULL /\ \E i \in 1 .. Len(s) : s[i] = Keys(s)[k]
         /\ \A i \in 1 .. Len(s) : s[i] # NULL => \E k \in 1 .. Len(Keys(s)) : Keys(s)[k] = s[i]
<1> DEFINE S == {s[i] : i \in 1 .. Len(s)}
           m == Keys(s)
<1>1. s \in Seq(S)
  BY DEF IsListing
<1> HIDE DEF S
<1>2. /\ m \in Seq(S) /\ Len(m) <= Len(s)
      /\ \A k \in 1 .. Len(m) : m[k] # NULL /\ \E i \in 1 .. Len(s) : s[i] = m[k]
      /\ \A k, l \in 1 .. Len(m) : k < l => m[k] # m[l]
      /\ \A i \in 1 .. Len(s) : s[i] # NULL => \E k \in 1 .. Len(m) : m[k] = s[i]
  BY <1>1, KeysFacts
<1> HIDE DEF m
<1>3. Len(m) \in Nat /\ m = [k \in 1 .. Len(m) |-> m[k]]
  BY <1>2
<1>4. IsListing(m)
  BY <1>3, ListingOf
<1>5. Distinct(m)
  BY <1>2, <1>4 DEF Distinct
<1> QED BY <1>2, <1>5 DEF m

\* Some of different things are different.
LEMMA PickedDistinct ==
  ASSUME NEW s, Distinct(s), NEW I \in SUBSET (DOMAIN s)
  PROVE  Distinct(Picked(s, I))
<1> DEFINE S == {s[i] : i \in 1 .. Len(s)}
           m == Picked(s, I)
<1>1. s \in Seq(S) /\ I \in SUBSET (1 .. Len(s))
  BY DEF Distinct, IsListing
<1> HIDE DEF S
<1>2. PICK pos : KeepsOrder(m, s, I, pos)
  BY <1>1, PickedOrder
<1>3. IsListing(m)
  BY PickedListing DEF Distinct
<1> HIDE DEF m
<1>4. ASSUME NEW k \in 1 .. Len(m), NEW l \in 1 .. Len(m), k < l PROVE m[k] # m[l]
  <2>1. pos[k] \in 1 .. Len(s) /\ pos[l] \in 1 .. Len(s) /\ pos[k] < pos[l]
    BY <1>1, <1>2, <1>4 DEF KeepsOrder
  <2>2. s[pos[k]] # s[pos[l]]
    BY <2>1 DEF Distinct
  <2> QED BY <1>2, <2>2 DEF KeepsOrder
<1>5. Distinct(m)
  BY <1>3, <1>4 DEF Distinct
<1> QED BY <1>5 DEF m

\* b shows entries of e, and all of them if there is room.
Shows(b, keys, e) ==
  /\ Len(b) = (IF Len(keys) < TOP_N THEN Len(keys) ELSE TOP_N)
  /\ \A r \in 1 .. Len(b) : \E i \in 1 .. Len(keys) :
       b[r].id = keys[i] /\ b[r].value = e[i].value
  /\ Len(keys) <= TOP_N => \A i \in 1 .. Len(keys) :
       \E r \in 1 .. Len(b) : b[r].id = keys[i] /\ b[r].value = e[i].value

\* A board of one entry per key.
LEMMA KeyedBoard ==
  ASSUME NEW keys, Distinct(keys), NEW e, Keyed(e, keys), NEW b, b = Ranked(e)
  PROVE  IsListing(b) /\ InOrder(b) /\ NobodyTwice(b) /\ Shows(b, keys, e)
<1>0. Len(keys) \in Nat /\ Len(e) = Len(keys) /\ TOP_N \in Nat
  BY BoardAssumption DEF Distinct, IsListing, Keyed
<1>1. Valued(e)
  BY <1>0 DEF Keyed, Valued
<1>2. PICK pos : Ranks(b, e, pos)
  <2>1. \E pos : Ranks(Ranked(e), e, pos)
    BY <1>1, RankedFacts
  <2> QED BY <2>1
<1>7. b = [r \in 1 .. Len(b) |-> b[r]]
  <2> DEFINE size == IF Len(e) < TOP_N THEN Len(e) ELSE TOP_N
  <2>1. DOMAIN b = 1 .. Len(b)
    BY <1>2 DEF Ranks
  <2>2. Ranked(e) = [r \in DOMAIN Ranked(e) |-> Ranked(e)[r]]
    BY DEF Ranked
  <2>3. b = [r \in DOMAIN b |-> b[r]]
    BY <2>2
  <2> QED BY <2>1, <2>3
<1>3. /\ DOMAIN b = 1 .. Len(b)
      /\ Len(b) = (IF Len(keys) < TOP_N THEN Len(keys) ELSE TOP_N) /\ Len(b) \in Nat
      /\ \A r \in 1 .. Len(b) : pos[r] \in 1 .. Len(keys) /\ b[r] = e[pos[r]]
      /\ \A r, q \in 1 .. Len(b) : r < q => pos[r] # pos[q] /\ e[pos[r]].value >= e[pos[q]].value
      /\ \A i \in 1 .. Len(keys) : Len(keys) <= TOP_N => \E r \in 1 .. Len(b) : pos[r] = i
  BY <1>0, <1>2 DEF Ranks
<1>4. IsListing(b)
  BY <1>3, <1>7, ListingOf
<1>5. InOrder(b)
  BY <1>3 DEF InOrder
<1>6. NobodyTwice(b)
  <2> SUFFICES ASSUME NEW r \in 1 .. Len(b), NEW q \in 1 .. Len(b), r < q
               PROVE  b[r].id # b[q].id
    BY <1>3 DEF NobodyTwice
  <2>1. /\ pos[r] \in 1 .. Len(keys) /\ pos[q] \in 1 .. Len(keys) /\ pos[r] # pos[q]
        /\ b[r] = e[pos[r]] /\ b[q] = e[pos[q]]
    BY <1>3
  <2>2. b[r].id = keys[pos[r]] /\ b[q].id = keys[pos[q]]
    BY <2>1 DEF Keyed
  <2>3. pos[r] < pos[q] \/ pos[q] < pos[r]
    BY <1>0, <2>1
  <2>4. keys[pos[r]] # keys[pos[q]]
    BY <2>1, <2>3 DEF Distinct
  <2> QED BY <2>2, <2>4
<1>8. ASSUME NEW r \in 1 .. Len(b)
      PROVE  \E i \in 1 .. Len(keys) : b[r].id = keys[i] /\ b[r].value = e[i].value
  BY <1>3 DEF Keyed
<1>9. ASSUME NEW i \in 1 .. Len(keys), Len(keys) <= TOP_N
      PROVE  \E r \in 1 .. Len(b) : b[r].id = keys[i] /\ b[r].value = e[i].value
  <2>1. PICK r \in 1 .. Len(b) : pos[r] = i
    BY <1>3, <1>9
  <2>2. b[r] = e[i] /\ e[i].id = keys[i]
    BY <1>3, <2>1 DEF Keyed
  <2> QED BY <2>2
<1>10. Shows(b, keys, e)
  BY <1>3, <1>8, <1>9 DEF Shows
<1> QED BY <1>4, <1>5, <1>6, <1>10

-----------------------------------------------------------------------------
(* Streaks of the boards, and what windows count.                          *)

\* The boards over the whole listing, and that of the observers over any
\* window.
LEMMA BoardsAre ==
  ASSUME IsListing(packets)
  PROVE  /\ getLeaderboard("distance", "all", packets, nodes, now)
              = [singleHop |-> longestSingleHop(packets, nodes),
                 multiHop |-> longestMultiHopPath(packets, nodes),
                 directMessage |-> longestDirectMessage(packets, nodes)]
         /\ getLeaderboard("activity", "all", packets, nodes, now)
              = [activeRepeater |-> mostActiveRepeater(packets, nodes),
                 reliableRepeater |-> mostReliableRepeater(packets, nodes),
                 bestSnr |-> bestSnrChampion(packets),
                 connectedNode |-> mostConnectedNode(packets),
                 observer |-> busiestObserver(packets)]
         /\ getLeaderboard("fun", "all", packets, nodes, now)
              = [nightOwl |-> nightOwl(packets), earlyBird |-> earlyBird(packets),
                 marathonRunner |-> marathonRunner(packets),
                 newKid |-> newKidOnTheBlock(packets, nodes, now)]
         /\ \A w : getLeaderboard("activity", w, packets, nodes, now).observer
                     = busiestObserver(Windowed(packets, w, now))
<1> DEFINE l == Windowed(packets, "all", now)
<1>1. l = packets
  BY AllTime
<1> HIDE DEF l
<1>2. \A m : Boards("distance", m, nodes, now)
              = [singleHop |-> longestSingleHop(m, nodes),
                 multiHop |-> longestMultiHopPath(m, nodes),
                 directMessage |-> longestDirectMessage(m, nodes)]
  BY DEF Boards
<1>3. \A m : Boards("activity", m, nodes, now)
              = [activeRepeater |-> mostActiveRepeater(m, nodes),
                 reliableRepeater |-> mostReliableRepeater(m, nodes),
                 bestSnr |-> bestSnrChampion(m),
                 connectedNode |-> mostConnectedNode(m),
                 observer |-> busiestObserver(m)]
  BY DEF Boards
<1>4. \A m : Boards("fun", m, nodes, now)
              = [nightOwl |-> nightOwl(m), earlyBird |-> earlyBird(m),
                 marathonRunner |-> marathonRunner(m),
                 newKid |-> newKidOnTheBlock(m, nodes, now)]
  BY DEF Boards
<1>5. \A c : getLeaderboard(c, "all", packets, nodes, now) = Boards(c, packets, nodes, now)
  BY <1>1 DEF getLeaderboard, l
<1>6. \A w : getLeaderboard("activity", w, packets, nodes, now)
              = Boards("activity", Windowed(packets, w, now), nodes, now)
  BY DEF getLeaderboard
<1>7. \A w : getLeaderboard("activity", w, packets, nodes, now).observer
              = busiestObserver(Windowed(packets, w, now))
  BY <1>3, <1>6
<1>8. getLeaderboard("distance", "all", packets, nodes, now)
        = Boards("distance", packets, nodes, now)
  BY <1>5
<1>9. getLeaderboard("activity", "all", packets, nodes, now)
        = Boards("activity", packets, nodes, now)
  BY <1>5
<1>10. getLeaderboard("fun", "all", packets, nodes, now) = Boards("fun", packets, nodes, now)
  BY <1>5
<1> QED BY <1>2, <1>3, <1>4, <1>7, <1>8, <1>9, <1>10, Zenon

\* The sources of a listing are different, and sources of its packets.
LEMMA SourcesFacts ==
  ASSUME NEW l, IsListing(l)
  PROVE  /\ Distinct(Sources(l))
         /\ \A k \in 1 .. Len(Sources(l)) : \E i \in 1 .. Len(l) : l[i].sourceId = Sources(l)[k]
<1> DEFINE s == [i \in DOMAIN l |-> l[i].sourceId]
<1>1. Len(l) \in Nat /\ DOMAIN l = 1 .. Len(l)
  BY DEF IsListing
<1>2. s = [i \in 1 .. Len(l) |-> s[i]] /\ \A i \in 1 .. Len(l) : s[i] = l[i].sourceId
  BY <1>1
<1>3. Sources(l) = Keys(s)
  BY DEF Sources
<1> HIDE DEF s
<1>4. IsListing(s) /\ Len(s) = Len(l)
  BY <1>1, <1>2, ListingOf
<1>5. /\ Distinct(Keys(s))
      /\ \A k \in 1 .. Len(Keys(s)) : \E i \in 1 .. Len(s) : s[i] = Keys(s)[k]
  BY <1>4, KeysAreDistinct
<1>6. ASSUME NEW k \in 1 .. Len(Sources(l))
      PROVE  \E i \in 1 .. Len(l) : l[i].sourceId = Sources(l)[k]
  <2>1. PICK i \in 1 .. Len(s) : s[i] = Sources(l)[k]
    BY <1>3, <1>5
  <2> QED BY <1>2, <1>4, <2>1
<1> QED BY <1>3, <1>5, <1>6

\* The marathon board lists nodes that sent, with their streaks.
LEMMA MarathonFacts ==
  ASSUME NEW l, Dated(l)
  PROVE  LET b == marathonRunner(l)
         IN  /\ IsListing(b) /\ InOrder(b) /\ NobodyTwice(b)
             /\ \A r \in DOMAIN b : /\ Hours(l, b[r].id) # {}
                                    /\ b[r].value = longestConsecutiveStreak(Hours(l, b[r].id))
<1> DEFINE keys == Sources(l)
           streak(id) == longestConsecutiveStreak(Hours(l, id))
           e == [i \in DOMAIN keys |-> [id |-> keys[i], value |-> streak(keys[i])]]
           b == Ranked(e)
<1>1. /\ Distinct(keys)
      /\ \A k \in 1 .. Len(keys) : \E i \in 1 .. Len(l) : l[i].sourceId = keys[k]
  BY SourcesFacts DEF Dated
<1>2. marathonRunner(l) = b
  BY DEF marathonRunner, BoardOf
<1> HIDE DEF keys
<1>3. Len(keys) \in Nat /\ DOMAIN keys = 1 .. Len(keys)
  BY <1>1 DEF Distinct, IsListing
<1>4. ASSUME NEW k \in 1 .. Len(keys)
      PROVE  Hours(l, keys[k]) # {} /\ streak(keys[k]) \in Nat
  <2>1. Hours(l, keys[k]) \subseteq Int /\ IsFiniteSet(Hours(l, keys[k])) /\ Hours(l, keys[k]) # {}
    BY <1>1, HoursFacts
  <2> QED BY <2>1, StreakFacts
<1> HIDE DEF streak
<1>5. /\ DOMAIN e = 1 .. Len(keys) /\ Len(e) = Len(keys)
      /\ \A k \in 1 .. Len(keys) : e[k].id = keys[k] /\ e[k].value = streak(keys[k])
  BY <1>3
<1> HIDE DEF e
<1>6. Keyed(e, keys)
  BY <1>4, <1>5 DEF Keyed
<1>7. /\ IsListing(b) /\ InOrder(b) /\ NobodyTwice(b)
      /\ \A r \in 1 .. Len(b) : \E i \in 1 .. Len(keys) :
           b[r].id = keys[i] /\ b[r].value = e[i].value
  <2> HIDE DEF b
  <2>1. b = Ranked(e)
    BY DEF b
  <2>2. IsListing(b) /\ InOrder(b) /\ NobodyTwice(b) /\ Shows(b, keys, e)
    BY <1>1, <1>6, <2>1, KeyedBoard
  <2> QED BY <2>2 DEF Shows
<1> HIDE DEF b
<1>8. ASSUME NEW r \in DOMAIN b
      PROVE  Hours(l, b[r].id) # {} /\ b[r].value = streak(b[r].id)
  <2>1. r \in 1 .. Len(b)
    BY <1>7 DEF IsListing
  <2> QED BY <1>4, <1>5, <1>7, <2>1
<1> QED BY <1>2, <1>7, <1>8 DEF streak

\* A streak is the longest interval of hours.
LEMMA StreaksHold == Dated(packets) => StreaksAreLongest
<1> SUFFICES ASSUME Dated(packets) PROVE StreaksAreLongest
  OBVIOUS
<1> DEFINE b == marathonRunner(packets)
           hours(id) == Hours(packets, id)
           runs(id) == {run \in hours(id) \X hours(id) : run[1] .. run[2] \subseteq hours(id)}
<1>1. getLeaderboard("fun", "all", packets, nodes, now).marathonRunner = b
  BY BoardsAre DEF Dated
<1>2. ASSUME NEW r \in DOMAIN b
      PROVE  b[r].value = Max({run[2] - run[1] + 1 : run \in runs(b[r].id)})
  <2> DEFINE H == hours(b[r].id)
  <2>1. H \subseteq Int /\ IsFiniteSet(H)
    BY HoursFacts
  <2>2. H # {} /\ b[r].value = longestConsecutiveStreak(H)
    BY MarathonFacts
  <2> HIDE DEF H, b
  <2>3. b[r].value
          = Max({run[2] - run[1] + 1 : run \in {run \in H \X H : run[1] .. run[2] \subseteq H}})
    BY <2>1, <2>2, StreakFacts
  <2> QED BY <2>3 DEF H
<1> HIDE DEF b
<1> QED BY <1>1, <1>2 DEF StreaksAreLongest

\* How many packets an observer heard.
Tally(l, o) == Cardinality({i \in DOMAIN l : l[i].observerId = o})

\* A part of a listing has no more packets of an observer.
LEMMA TallyOfPart ==
  ASSUME NEW l, IsListing(l), NEW I \in SUBSET (DOMAIN l), NEW o
  PROVE  /\ Tally(l, o) \in Nat /\ Tally(Picked(l, I), o) \in Nat
         /\ Tally(Picked(l, I), o) <= Tally(l, o)
<1> DEFINE S == {l[i] : i \in 1 .. Len(l)}
           m == Picked(l, I)
           A == {i \in DOMAIN l : l[i].observerId = o}
           B == {k \in DOMAIN m : m[k].observerId = o}
<1>1. l \in Seq(S) /\ Len(l) \in Nat /\ DOMAIN l = 1 .. Len(l) /\ I \in SUBSET (1 .. Len(l))
  BY DEF IsListing
<1> HIDE DEF S
<1>2. PICK pos : KeepsOrder(m, l, I, pos)
  BY <1>1, PickedOrder
<1>3. Len(m) \in Nat /\ DOMAIN m = 1 .. Len(m)
  BY PickedListing
<1> HIDE DEF m
<1>4. IsFiniteSet(A)
  <2>1. IsFiniteSet(1 .. Len(l)) /\ A \in SUBSET (1 .. Len(l))
    BY <1>1, PlacesAreFinite
  <2> HIDE DEF A
  <2> QED BY <2>1, FS_Subset
<1>5. \A k \in B : pos[k] \in A
  <2> SUFFICES ASSUME NEW k \in 1 .. Len(m), m[k].observerId = o
               PROVE  pos[k] \in DOMAIN l /\ l[pos[k]].observerId = o
    BY <1>3
  <2>1. pos[k] \in I /\ m[k] = l[pos[k]]
    BY <1>2 DEF KeepsOrder
  <2> QED BY <2>1
<1>6. \A k, j \in B : k # j => pos[k] # pos[j]
  <2> SUFFICES ASSUME NEW k \in 1 .. Len(m), NEW j \in 1 .. Len(m), k # j
               PROVE  pos[k] # pos[j]
    BY <1>3
  <2>1. pos[k] \in I /\ pos[j] \in I /\ (k < j => pos[k] < pos[j]) /\ (j < k => pos[j] < pos[k])
    BY <1>2 DEF KeepsOrder
  <2>2. pos[k] \in Int /\ pos[j] \in Int /\ (k < j \/ j < k)
    BY <1>1, <2>1
  <2> QED BY <2>1, <2>2
<1> DEFINE f == [k \in B |-> pos[k]]
<1>7. f \in Injection(B, A)
  <2>1. f \in [B -> A]
    BY <1>5
  <2>2. \A k, j \in DOMAIN f : f[k] = f[j] => k = j
    BY <1>6
  <2> QED BY <2>1, <2>2 DEF Injection, IsInjective
<1> HIDE DEF f, A, B
<1>8. IsFiniteSet(B) /\ Cardinality(B) <= Cardinality(A)
  BY <1>4, <1>7, FS_Injection
<1>9. Cardinality(A) \in Nat /\ Cardinality(B) \in Nat
  BY <1>4, <1>8, FS_CardinalityType
<1> QED BY <1>8, <1>9 DEF Tally, A, B, m

\* The board of the observers has tallies; who does not fall off it has his.
LEMMA BusiestFacts ==
  ASSUME NEW l, IsListing(l), NEW b, b = busiestObserver(l)
  PROVE  /\ IsListing(b) /\ InOrder(b) /\ NobodyTwice(b)
         /\ \A r \in 1 .. Len(b) : /\ b[r].id # NULL /\ b[r].value = Tally(l, b[r].id)
                                   /\ \E i \in 1 .. Len(l) : l[i].observerId = b[r].id
         /\ Len(b) < TOP_N => \A i \in 1 .. Len(l) : l[i].observerId # NULL =>
              \E r \in 1 .. Len(b) : b[r].id = l[i].observerId
<1> DEFINE s == [i \in DOMAIN l |-> l[i].observerId]
           keys == Keys(s)
           count(o) == Len(Picked(l, {i \in DOMAIN l : l[i].observerId = o}))
           e == [i \in DOMAIN keys |-> [id |-> keys[i], value |-> count(keys[i])]]
<1>1. b = Ranked(e)
  BY DEF busiestObserver, BoardOf, Count, Where
<1>2. Len(l) \in Nat /\ DOMAIN l = 1 .. Len(l)
  BY DEF IsListing
<1>3. s = [i \in 1 .. Len(l) |-> s[i]] /\ \A i \in 1 .. Len(l) : s[i] = l[i].observerId
  BY <1>2
<1> HIDE DEF s
<1>4. IsListing(s) /\ Len(s) = Len(l)
  BY <1>2, <1>3, ListingOf
<1>5. /\ Distinct(keys)
      /\ \A k \in 1 .. Len(keys) :
           keys[k] # NULL /\ \E i \in 1 .. Len(s) : s[i] = keys[k]
      /\ \A i \in 1 .. Len(s) : s[i] # NULL => \E k \in 1 .. Len(keys) : keys[k] = s[i]
  BY <1>4, KeysAreDistinct
<1> HIDE DEF keys
<1>6. Len(keys) \in Nat /\ DOMAIN keys = 1 .. Len(keys)
  BY <1>5 DEF Distinct, IsListing
<1>7. \A o : count(o) = Tally(l, o) /\ count(o) \in Nat
  <2> SUFFICES ASSUME NEW o PROVE count(o) = Tally(l, o) /\ count(o) \in Nat
    OBVIOUS
  <2> DEFINE I == {i \in DOMAIN l : l[i].observerId = o}
  <2>1. I \in SUBSET (DOMAIN l)
    OBVIOUS
  <2>2. Tally(l, o) = Cardinality(I)
    BY DEF Tally
  <2> HIDE DEF I
  <2>3. IsFiniteSet(I) /\ Len(Picked(l, I)) = Cardinality(I) /\ Len(Picked(l, I)) \in Nat
    BY <2>1, PickedListing
  <2> QED BY <2>2, <2>3 DEF I
<1> HIDE DEF count
<1>8. /\ DOMAIN e = 1 .. Len(keys) /\ Len(e) = Len(keys)
      /\ \A k \in 1 .. Len(keys) : e[k].id = keys[k] /\ e[k].value = count(keys[k])
  BY <1>6
<1> HIDE DEF e
<1>9. Keyed(e, keys)
  BY <1>7, <1>8 DEF Keyed
<1>14. IsListing(b) /\ InOrder(b) /\ NobodyTwice(b) /\ Shows(b, keys, e)
  <2>1. Distinct(keys)
    BY <1>5
  <2> QED BY <1>1, <1>9, <2>1, KeyedBoard
<1>10. /\ Len(b) = (IF Len(keys) < TOP_N THEN Len(keys) ELSE TOP_N)
       /\ \A r \in 1 .. Len(b) : \E i \in 1 .. Len(keys) :
            b[r].id = keys[i] /\ b[r].value = e[i].value
       /\ Len(keys) <= TOP_N => \A i \in 1 .. Len(keys) :
            \E r \in 1 .. Len(b) : b[r].id = keys[i] /\ b[r].value = e[i].value
  BY <1>14 DEF Shows
<1>11. ASSUME NEW r \in 1 .. Len(b)
       PROVE  /\ b[r].id # NULL /\ b[r].value = Tally(l, b[r].id)
              /\ \E i \in 1 .. Len(l) : l[i].observerId = b[r].id
  <2>1. PICK k \in 1 .. Len(keys) : b[r].id = keys[k] /\ b[r].value = e[k].value
    BY <1>10
  <2>2. b[r].value = Tally(l, keys[k])
    BY <1>7, <1>8, <2>1
  <2> QED BY <1>3, <1>4, <1>5, <2>1, <2>2
<1>12. ASSUME Len(b) < TOP_N, NEW i \in 1 .. Len(l), l[i].observerId # NULL
       PROVE  \E r \in 1 .. Len(b) : b[r].id = l[i].observerId
  <2>1. Len(keys) <= TOP_N
    BY <1>6, <1>10, <1>12, BoardAssumption
  <2>2. PICK k \in 1 .. Len(keys) : keys[k] = l[i].observerId
    <3>1. i \in 1 .. Len(s) /\ s[i] = l[i].observerId /\ s[i] # NULL
      BY <1>3, <1>4, <1>12
    <3>2. \E k \in 1 .. Len(keys) : keys[k] = s[i]
      BY <1>5, <3>1
    <3> QED BY <3>1, <3>2
  <2>3. \A j \in 1 .. Len(keys) :
          \E r \in 1 .. Len(b) : b[r].id = keys[j] /\ b[r].value = e[j].value
    BY <1>10, <2>1
  <2>4. PICK r \in 1 .. Len(b) : b[r].id = keys[k]
    BY <2>3
  <2> QED BY <2>2, <2>4
<1>13. \A r \in 1 .. Len(b) : /\ b[r].id # NULL /\ b[r].value = Tally(l, b[r].id)
                                /\ \E i \in 1 .. Len(l) : l[i].observerId = b[r].id
  BY <1>11
<1>15. Len(b) < TOP_N => \A i \in 1 .. Len(l) : l[i].observerId # NULL =>
         \E r \in 1 .. Len(b) : b[r].id = l[i].observerId
  BY <1>12
<1> QED BY <1>13, <1>14, <1>15, Zenon

\* The value of a board for an id is that of its entry, or 0.
LEMMA ValueFacts ==
  ASSUME NEW b, IsListing(b), NEW id
  PROVE  \/ \E r \in 1 .. Len(b) : b[r].id = id /\ ValueIn(b, id) = b[r].value
         \/ ValueIn(b, id) = 0 /\ \A r \in 1 .. Len(b) : b[r].id # id
<1> DEFINE here == {r \in DOMAIN b : b[r].id = id}
           r == CHOOSE r \in here : TRUE
<1>1. DOMAIN b = 1 .. Len(b)
  BY DEF IsListing
<1>2. ValueIn(b, id) = IF here = {} THEN 0 ELSE b[r].value
  BY DEF ValueIn
<1>3. CASE here = {}
  BY <1>1, <1>2, <1>3
<1>4. CASE here # {}
  <2>1. r \in here
    BY <1>4
  <2>2. ValueIn(b, id) = b[r].value
    BY <1>2, <1>4
  <2>3. r \in 1 .. Len(b) /\ b[r].id = id
    BY <1>1, <2>1
  <2> HIDE DEF r
  <2> QED BY <2>2, <2>3
<1> QED BY <1>3, <1>4

\* No window counts more than all time does.
LEMMA WindowsHold == IsListing(packets) => WindowsCountLess
<1> SUFFICES ASSUME IsListing(packets) PROVE WindowsCountLess
  OBVIOUS
<1> SUFFICES ASSUME NEW w, NEW id, Len(busiestObserver(packets)) < TOP_N
             PROVE  ValueIn(busiestObserver(Windowed(packets, w, now)), id)
                      <= ValueIn(busiestObserver(packets), id)
  <2>1. \A w : getLeaderboard("activity", w, packets, nodes, now).observer
                 = busiestObserver(Windowed(packets, w, now))
    BY BoardsAre
  <2>2. Windowed(packets, "all", now) = packets
    BY AllTime
  <2> QED BY <2>1, <2>2 DEF WindowsCountLess
<1> DEFINE l == Windowed(packets, w, now)
           b == busiestObserver(l)
           a == busiestObserver(packets)
<1>1. PICK I \in SUBSET (DOMAIN packets) : l = Picked(packets, I)
  BY WindowIsPicked
<1> HIDE DEF l
<1>2. IsListing(l)
  BY <1>1, PickedListing
<1>3. /\ Tally(packets, id) \in Nat /\ Tally(l, id) \in Nat /\ Tally(l, id) <= Tally(packets, id)
      /\ \A k \in 1 .. Len(l) : \E i \in 1 .. Len(packets) : l[k] = packets[i]
  <2>1. \A k \in 1 .. Len(l) : \E i \in I : l[k] = packets[i]
    BY <1>1, PickedListing
  <2>2. DOMAIN packets = 1 .. Len(packets)
    BY DEF IsListing
  <2>3. \A k \in 1 .. Len(l) : \E i \in 1 .. Len(packets) : l[k] = packets[i]
    BY <2>1, <2>2
  <2> QED BY <1>1, <2>3, TallyOfPart
<1> HIDE DEF a, b
<1>4. /\ IsListing(a)
      /\ \A r \in 1 .. Len(a) : a[r].id # NULL /\ a[r].value = Tally(packets, a[r].id)
      /\ \A i \in 1 .. Len(packets) : packets[i].observerId # NULL =>
           \E r \in 1 .. Len(a) : a[r].id = packets[i].observerId
  <2>1. a = busiestObserver(packets) /\ Len(a) < TOP_N
    BY DEF a
  <2> QED BY <2>1, BusiestFacts
<1>5. /\ IsListing(b)
      /\ \A r \in 1 .. Len(b) : /\ b[r].id # NULL /\ b[r].value = Tally(l, b[r].id)
                                /\ \E i \in 1 .. Len(l) : l[i].observerId = b[r].id
  <2>1. b = busiestObserver(l)
    BY DEF b
  <2> QED BY <1>2, <2>1, BusiestFacts
<1>6. \/ \E r \in 1 .. Len(a) : a[r].id = id /\ ValueIn(a, id) = a[r].value
      \/ ValueIn(a, id) = 0 /\ \A r \in 1 .. Len(a) : a[r].id # id
  BY <1>4, ValueFacts
<1>7. \/ \E r \in 1 .. Len(b) : b[r].id = id /\ ValueIn(b, id) = b[r].value
      \/ ValueIn(b, id) = 0 /\ \A r \in 1 .. Len(b) : b[r].id # id
  BY <1>5, ValueFacts
<1>8. \/ ValueIn(a, id) = Tally(packets, id)
      \/ ValueIn(a, id) = 0 /\ \A r \in 1 .. Len(a) : a[r].id # id
  <2>1. CASE \E r \in 1 .. Len(a) : a[r].id = id /\ ValueIn(a, id) = a[r].value
    <3>1. PICK r \in 1 .. Len(a) : a[r].id = id /\ ValueIn(a, id) = a[r].value
      BY <2>1
    <3>2. a[r].value = Tally(packets, a[r].id)
      BY <1>4
    <3> QED BY <3>1, <3>2
  <2> QED BY <1>6, <2>1, Zenon
<1>9. CASE ValueIn(b, id) = 0
  <2>1. ValueIn(b, id) <= ValueIn(a, id)
    <3>1. ValueIn(a, id) \in Nat
      BY <1>3, <1>8
    <3> QED BY <1>9, <3>1
  <2> QED BY <2>1 DEF a, b, l
<1>10. CASE \E r \in 1 .. Len(b) : b[r].id = id /\ ValueIn(b, id) = b[r].value
  <2>1. PICK r \in 1 .. Len(b) : b[r].id = id /\ ValueIn(b, id) = b[r].value
    BY <1>10
  <2>2. id # NULL /\ ValueIn(b, id) = Tally(l, id)
    BY <1>5, <2>1
  <2>3. PICK k \in 1 .. Len(l) : l[k].observerId = id
    BY <1>5, <2>1
  <2>4. \E i \in 1 .. Len(packets) : packets[i].observerId = id
    BY <1>3, <2>3
  <2>5. \E r1 \in 1 .. Len(a) : a[r1].id = id
    BY <1>4, <2>2, <2>4
  <2>6. ValueIn(a, id) = Tally(packets, id)
    BY <1>8, <2>5
  <2>7. ValueIn(b, id) <= ValueIn(a, id)
    BY <1>3, <2>2, <2>6
  <2> QED BY <2>7 DEF a, b, l
<1> QED BY <1>7, <1>9, <1>10

-----------------------------------------------------------------------------
(* The graph.                                                              *)

\* The places of I that g maps into s.
Into(I, g, s) == {i \in I : g[i] \in s}

\* The places of I that g maps to x.
At(I, g, x) == {i \in I : g[i] = x}

\* The places one value more is mapped to are others.
LEMMA IntoOneMore ==
  ASSUME NEW I, IsFiniteSet(I), NEW g, NEW s, NEW x \in s
  PROVE  /\ Cardinality(Into(I, g, s)) \in Nat
         /\ Cardinality(Into(I, g, s))
              = Cardinality(At(I, g, x)) + Cardinality(Into(I, g, s \ {x}))
<1> DEFINE A == Into(I, g, s)
           B == At(I, g, x)
           C == Into(I, g, s \ {x})
<1>1. A \in SUBSET I /\ B \in SUBSET I /\ C \in SUBSET I /\ A = B \cup C /\ B \cap C = {}
  BY DEF Into, At
<1> HIDE DEF A, B, C
<1>2. IsFiniteSet(A) /\ IsFiniteSet(B) /\ IsFiniteSet(C)
  BY <1>1, FS_Subset
<1>3. Cardinality(B \cup C) = Cardinality(B) + Cardinality(C) - Cardinality(B \cap C)
  BY <1>2, FS_Union
<1>4. Cardinality(A) \in Nat /\ Cardinality(B) \in Nat /\ Cardinality(C) \in Nat
  BY <1>2, FS_CardinalityType
<1>5. Cardinality(A) = Cardinality(B) + Cardinality(C)
  <2>1. Cardinality(B \cap C) = 0
    BY <1>1, FS_EmptySet
  <2> QED BY <1>1, <1>3, <1>4, <2>1
<1> QED BY <1>4, <1>5 DEF A, B, C

\* What is counted by value is counted once.
LEMMA SumOfCounts ==
  ASSUME NEW I, IsFiniteSet(I), NEW D, IsFiniteSet(D), NEW g \in [I -> D],
         NEW f, DOMAIN f = D, \A d \in D : f[d] = Cardinality(At(I, g, d))
  PROVE  SumFunction(f) = Cardinality(I)
<1> DEFINE Eq(h) == h = [s \in SUBSET D |->
                          IF s = {} THEN 0
                          ELSE f[CHOOSE x \in s : TRUE] + h[s \ {CHOOSE x \in s : TRUE}]]
           iter == CHOOSE h : Eq(h)
           size == [s \in SUBSET D |-> Cardinality(Into(I, g, s))]
<1>1. SumFunction(f) = iter[D]
  BY DEF SumFunction, SumFunctionOnSet, FoldFunctionOnSet, MapThenFoldSet
<1>2. ASSUME NEW s \in SUBSET D
      PROVE  size[s] = IF s = {} THEN 0
                       ELSE f[CHOOSE x \in s : TRUE] + size[s \ {CHOOSE x \in s : TRUE}]
  <2>1. CASE s = {}
    <3>1. Into(I, g, s) = {}
      BY <2>1 DEF Into
    <3> QED BY <2>1, <3>1, FS_EmptySet
  <2>2. CASE s # {}
    <3> DEFINE x == CHOOSE x \in s : TRUE
    <3>1. x \in s
      BY <2>2
    <3> HIDE DEF x
    <3>2. x \in D /\ s \ {x} \in SUBSET D
      BY <3>1
    <3>3. Cardinality(Into(I, g, s))
            = Cardinality(At(I, g, x)) + Cardinality(Into(I, g, s \ {x}))
      BY <3>1, IntoOneMore
    <3>4. size[s] = f[x] + size[s \ {x}]
      BY <3>2, <3>3
    <3> HIDE DEF size
    <3> QED BY <2>2, <3>4 DEF x
  <2> QED BY <2>1, <2>2
<1>3. Eq(size)
  <2> DEFINE h == [s \in SUBSET D |->
                     IF s = {} THEN 0
                     ELSE f[CHOOSE x \in s : TRUE] + size[s \ {CHOOSE x \in s : TRUE}]]
  <2>1. \A s \in SUBSET D : size[s] = h[s]
    BY <1>2
  <2>2. /\ DOMAIN size = DOMAIN h /\ size = [s \in DOMAIN size |-> size[s]]
        /\ h = [s \in DOMAIN h |-> h[s]] /\ DOMAIN h = SUBSET D
    OBVIOUS
  <2> QED BY <2>1, <2>2, Zenon
<1>4. Eq(iter)
  BY <1>3, Zenon
<1>5. Cardinality(D) \in Nat /\ \A s \in SUBSET D : IsFiniteSet(s) /\ Cardinality(s) \in Nat
  BY FS_CardinalityType, FS_Subset
<1> HIDE DEF iter, size
<1> DEFINE P == {n \in Nat : \A s \in SUBSET D : Cardinality(s) = n => iter[s] = size[s]}
<1>6. 0 \in P
  <2> SUFFICES ASSUME NEW s \in SUBSET D, Cardinality(s) = 0 PROVE iter[s] = size[s]
    OBVIOUS
  <2>1. s = {}
    BY <1>5, FS_EmptySet
  <2>2. iter[s] = 0
    BY <1>4, <2>1, Zenon
  <2> QED BY <1>2, <2>1, <2>2
<1>7. ASSUME NEW n \in Nat, n \in P PROVE n + 1 \in P
  <2> SUFFICES ASSUME NEW s \in SUBSET D, Cardinality(s) = n + 1 PROVE iter[s] = size[s]
    OBVIOUS
  <2> DEFINE x == CHOOSE x \in s : TRUE
  <2>1. s # {}
    <3>1. n + 1 # 0
      OBVIOUS
    <3>2. Cardinality({}) = 0
      BY FS_EmptySet
    <3> QED BY <3>1, <3>2
  <2>2. x \in s
    BY <2>1
  <2>3. iter[s] = f[x] + iter[s \ {x}]
    BY <1>4, <2>1, Zenon
  <2>4. size[s] = f[x] + size[s \ {x}]
    BY <1>2, <2>1, Zenon
  <2> HIDE DEF x
  <2>5. s \ {x} \in SUBSET D /\ Cardinality(s \ {x}) = n
    <3>1. IsFiniteSet(s) /\ Cardinality(s) = n + 1
      BY <1>5
    <3>2. Cardinality(s \ {x}) = Cardinality(s) - 1
      BY <2>2, <3>1, FS_RemoveElement
    <3> QED BY <3>1, <3>2
  <2>6. iter[s \ {x}] = size[s \ {x}]
    BY <1>7, <2>5
  <2> QED BY <2>3, <2>4, <2>6
<1> HIDE DEF P
<1>8. \A n \in Nat : n \in P
  BY <1>6, <1>7, SetInduction
<1>9. iter[D] = size[D]
  BY <1>5, <1>8 DEF P
<1>10. Into(I, g, D) = I
  BY DEF Into
<1>11. size[D] = Cardinality(Into(I, g, D))
  BY DEF size
<1> QED BY <1>1, <1>9, <1>10, <1>11

\* One place more counts if it is mapped there.
LEMMA IntoOnePlace ==
  ASSUME NEW A, IsFiniteSet(A), NEW k, k \notin A, NEW U, U = A \cup {k}, NEW g, NEW x
  PROVE  /\ Cardinality(At(A, g, x)) \in Nat
         /\ Cardinality(At(U, g, x))
              = IF g[k] = x THEN Cardinality(At(A, g, x)) + 1 ELSE Cardinality(At(A, g, x))
<1> DEFINE B == At(A, g, x)
           C == At(U, g, x)
<1>1. B \in SUBSET A /\ k \notin B
  BY DEF At
<1>2. C = IF g[k] = x THEN B \cup {k} ELSE B
  BY DEF At
<1> HIDE DEF B, C
<1>3. IsFiniteSet(B) /\ Cardinality(B) \in Nat
  BY <1>1, FS_Subset, FS_CardinalityType
<1>4. Cardinality(B \cup {k}) = Cardinality(B) + 1
  BY <1>1, <1>3, FS_AddElement
<1>5. Cardinality(C) = IF g[k] = x THEN Cardinality(B) + 1 ELSE Cardinality(B)
  BY <1>2, <1>4
<1> QED BY <1>3, <1>5 DEF B, C

\* e has the two ends of each packet of l, one after the other.
EndsOf(e, l) ==
  \A i \in 1 .. Len(l) : e[2 * i - 1] = l[i].sourceId /\ e[2 * i] = l[i].destinationId

\* The counts of a node add up to the places it has among the ends.
LEMMA EndsAdd ==
  ASSUME NEW l, IsListing(l), NEW e, EndsOf(e, l), NEW id
  PROVE  Sum([i \in DOMAIN l |-> Ends(l[i], id)]) = Cardinality(At(1 .. 2 * Len(l), e, id))
<1> DEFINE n == Len(l)
           v == [i \in DOMAIN l |-> Ends(l[i], id)]
           c(m) == Cardinality(At(1 .. 2 * m, e, id))
<1>0. n \in Nat /\ DOMAIN l = 1 .. n
  BY DEF IsListing
<1>1. v \in Seq(Int) /\ Len(v) = n /\ \A i \in 1 .. n : v[i] = Ends(l[i], id)
  <2>1. \A i \in 1 .. n : Ends(l[i], id) \in Int
    BY DEF Ends
  <2> QED BY <1>0, <2>1
<1>2. \A i \in 1 .. n : e[2 * i - 1] = l[i].sourceId /\ e[2 * i] = l[i].destinationId
  BY DEF EndsOf
<1> HIDE DEF v, n
<1>3. PICK t : Totals(t, v) /\ Sum(v) = t[Len(v)]
  BY <1>1, SumRecursion
<1>4. t \in [0 .. n -> Int] /\ t[0] = 0 /\ \A m \in 1 .. n : t[m] = t[m - 1] + v[m]
  BY <1>1, <1>3 DEF Totals
<1> DEFINE P == {m \in 0 .. n : t[m] = c(m)}
<1>5. 0 \in P
  <2>1. At(1 .. 2 * 0, e, id) = {}
    BY DEF At
  <2>2. c(0) = 0
    BY <2>1, FS_EmptySet
  <2> QED BY <1>0, <1>4, <2>2
<1>6. ASSUME NEW m \in 1 .. n, m - 1 \in P PROVE m \in P
  <2> DEFINE A == 1 .. 2 * (m - 1)
             j == 2 * m - 1
             k == 2 * m
             B == A \cup {j}
  <2>0. m \in Nat /\ m # 0 /\ m \in 0 .. n
    BY <1>0
  <2>1. 1 .. 2 * m = B \cup {k} /\ j \notin A /\ k \notin B
    BY <2>0
  <2>2. IsFiniteSet(A)
    BY <2>0, PlacesAreFinite
  <2> HIDE DEF A, j, k
  <2>3. IsFiniteSet(B)
    BY <2>2, FS_AddElement
  <2> DEFINE U == B \cup {k}
  <2>12. j \notin A /\ k \notin B /\ B = A \cup {j} /\ U = B \cup {k}
    BY <2>1
  <2>13. c(m - 1) = Cardinality(At(A, e, id)) /\ c(m) = Cardinality(At(U, e, id))
    BY <2>1 DEF A
  <2> HIDE DEF B, U
  <2>4. Cardinality(At(A, e, id)) \in Nat
    BY <2>2, <2>12, IntoOnePlace
  <2>5. Cardinality(At(B, e, id)) = IF e[j] = id THEN Cardinality(At(A, e, id)) + 1
                                        ELSE Cardinality(At(A, e, id))
    <3>1. j \notin A /\ B = A \cup {j}
      BY <2>12
    <3> QED BY <2>2, <3>1, IntoOnePlace
  <2>6. Cardinality(At(U, e, id)) = IF e[k] = id THEN Cardinality(At(B, e, id)) + 1
                                        ELSE Cardinality(At(B, e, id))
    <3>1. k \notin B /\ U = B \cup {k}
      BY <2>12
    <3> QED BY <2>3, <3>1, IntoOnePlace
  <2>7. c(m) = c(m - 1) + (IF e[j] = id THEN 1 ELSE 0) + (IF e[k] = id THEN 1 ELSE 0)
    BY <2>4, <2>5, <2>6, <2>13
  <2>8. v[m] = (IF e[j] = id THEN 1 ELSE 0) + (IF e[k] = id THEN 1 ELSE 0)
    BY <1>1, <1>2 DEF Ends, j, k
  <2>9. t[m] = t[m - 1] + v[m] /\ t[m - 1] = c(m - 1)
    BY <1>4, <1>6
  <2>10. c(m - 1) \in Nat
    BY <2>4, <2>13
  <2>11. t[m] = c(m)
    <3> HIDE DEF c
    <3> QED BY <2>7, <2>8, <2>9, <2>10
  <2> HIDE DEF c
  <2> QED BY <2>0, <2>11
<1> HIDE DEF P
<1>7. \A m \in 0 .. n : m \in P
  BY <1>0, <1>5, <1>6, BoundedInduction
<1>8. t[n] = c(n)
  BY <1>0, <1>7 DEF P
<1> QED BY <1>1, <1>3, <1>8 DEF v, n

\* In the graph every link adds its weight to both of its ends.
LEMMA GraphHolds == IsListing(packets) /\ IsFiniteSet(DOMAIN nodes) => GraphAddsUp
<1> SUFFICES ASSUME IsListing(packets), IsFiniteSet(DOMAIN nodes) PROVE GraphAddsUp
  OBVIOUS
<1> DEFINE linked == Where(packets, HasLink)
           n == Len(linked)
           links == {Link(linked[i]) : i \in DOMAIN linked}
           ids == FirstOf(DOMAIN nodes, NODE_LIMIT) \cup UNION links
           weight == [l \in links |-> Count(linked, LAMBDA p : Link(p) = l)]
           packetCount == [id \in ids |-> Sum([i \in DOMAIN linked |-> Ends(linked[i], id)])]
           graph == [weight |-> weight, packetCount |-> packetCount]
<1>1. getTopology(packets, nodes) = graph
  BY DEF getTopology
<1>2. IsListing(linked) /\ n \in Nat /\ DOMAIN linked = 1 .. n
  <2> DEFINE I == {i \in DOMAIN packets : HasLink(packets[i])}
  <2>1. linked = Picked(packets, I) /\ I \in SUBSET (DOMAIN packets)
    BY DEF Where
  <2> HIDE DEF I, linked
  <2>2. IsListing(linked)
    BY <2>1, PickedListing
  <2> QED BY <2>2 DEF IsListing
<1> HIDE DEF linked
<1> DEFINE g == [i \in 1 .. n |-> Link(linked[i])]
           e == [k \in 1 .. 2 * n |-> IF k % 2 = 1 THEN linked[(k + 1) \div 2].sourceId
                                      ELSE linked[k \div 2].destinationId]
<1>3. IsFiniteSet(1 .. n) /\ Cardinality(1 .. n) = n
      /\ IsFiniteSet(1 .. 2 * n) /\ Cardinality(1 .. 2 * n) = 2 * n
  <2>1. 2 * n \in Nat
    BY <1>2
  <2> HIDE DEF n
  <2> QED BY <1>2, <2>1, PlacesAreFinite
<1>4. SumFunction(weight) = n
  <2>1. g \in [1 .. n -> links] /\ DOMAIN weight = links
    BY <1>2
  <2>2. IsFiniteSet(links)
    <3>1. links = {g[i] : i \in DOMAIN g} /\ DOMAIN g = 1 .. n
      BY <1>2
    <3> HIDE DEF links, g
    <3> QED BY <1>3, <3>1, ImageIsFinite
  <2>3. ASSUME NEW l \in links PROVE weight[l] = Cardinality(At(1 .. n, g, l))
    <3> DEFINE I == {i \in DOMAIN linked : Link(linked[i]) = l}
    <3>1. Count(linked, LAMBDA p : Link(p) = l) = Len(Picked(linked, I))
      BY DEF Count, Where
    <3>2. I = At(1 .. n, g, l) /\ I \in SUBSET (DOMAIN linked)
      BY <1>2 DEF At
    <3>3. weight[l] = Count(linked, LAMBDA p : Link(p) = l)
      BY <2>3
    <3> HIDE DEF I, g, weight
    <3>4. Len(Picked(linked, I)) = Cardinality(I)
      BY <1>2, <3>2, PickedListing
    <3> QED BY <3>1, <3>2, <3>3, <3>4
  <2> DEFINE I == 1 .. n
  <2>4. /\ IsFiniteSet(I) /\ g \in [I -> links]
        /\ \A l \in links : weight[l] = Cardinality(At(I, g, l))
    BY <1>3, <2>1, <2>3
  <2> HIDE DEF weight, g, links, I
  <2>5. SumFunction(weight) = Cardinality(I)
    BY <2>1, <2>2, <2>4, SumOfCounts
  <2> QED BY <1>3, <2>5 DEF I
<1>5. /\ \A i \in 1 .. n : e[2 * i - 1] = linked[i].sourceId /\ e[2 * i] = linked[i].destinationId
      /\ \A k \in 1 .. 2 * n : \E i \in 1 .. n : e[k] \in Link(linked[i])
  <2>1. ASSUME NEW i \in 1 .. n
        PROVE  e[2 * i - 1] = linked[i].sourceId /\ e[2 * i] = linked[i].destinationId
    <3> HIDE DEF n
    <3>1. /\ 2 * i - 1 \in 1 .. 2 * n /\ 2 * i \in 1 .. 2 * n
          /\ (2 * i - 1) % 2 = 1 /\ (2 * i) % 2 = 0
          /\ ((2 * i - 1) + 1) \div 2 = i /\ (2 * i) \div 2 = i
      BY <1>2
    <3> QED BY <3>1
  <2>2. ASSUME NEW k \in 1 .. 2 * n PROVE \E i \in 1 .. n : e[k] \in Link(linked[i])
    <3>1. CASE k % 2 = 1
      <4>1. (k + 1) \div 2 \in 1 .. n
        BY <1>2, <3>1
      <4>2. e[k] = linked[(k + 1) \div 2].sourceId
        BY <3>1
      <4> QED BY <4>1, <4>2 DEF Link
    <3>2. CASE k % 2 # 1
      <4>1. k \div 2 \in 1 .. n
        BY <1>2, <3>2
      <4>2. e[k] = linked[k \div 2].destinationId
        BY <3>2
      <4> QED BY <4>1, <4>2 DEF Link
    <3> QED BY <3>1, <3>2
  <2> QED BY <2>1, <2>2
<1>6. SumFunction(packetCount) = 2 * n
  <2>1. e \in [1 .. 2 * n -> ids] /\ DOMAIN packetCount = ids
    <3>1. ASSUME NEW k \in 1 .. 2 * n PROVE e[k] \in ids
      <4>1. PICK i \in 1 .. n : e[k] \in Link(linked[i])
        BY <1>5
      <4>2. Link(linked[i]) \in links
        BY <1>2
      <4> HIDE DEF links, e
      <4> QED BY <4>1, <4>2
    <3> HIDE DEF ids
    <3> QED BY <3>1
  <2>2. IsFiniteSet(ids)
    <3> DEFINE page == FirstOf(DOMAIN nodes, NODE_LIMIT)
               image == {e[k] : k \in DOMAIN e}
    <3>1. IsFiniteSet(page)
      <4>1. page \subseteq DOMAIN nodes
        <5>1. NODE_LIMIT \in Nat
          BY HealthAssumption
        <5> QED BY <5>1, PageFacts
      <4> HIDE DEF page
      <4> QED BY <4>1, FS_Subset
    <3>2. DOMAIN e = 1 .. 2 * n
      OBVIOUS
    <3>3. UNION links \subseteq image
      <4> SUFFICES ASSUME NEW i \in DOMAIN linked, NEW x \in Link(linked[i]) PROVE x \in image
        OBVIOUS
      <4>1. i \in 1 .. n /\ 2 * i - 1 \in 1 .. 2 * n /\ 2 * i \in 1 .. 2 * n
        BY <1>2
      <4>2. x = e[2 * i - 1] \/ x = e[2 * i]
        BY <1>5, <4>1 DEF Link
      <4> HIDE DEF e
      <4> QED BY <3>2, <4>1, <4>2
    <3>4. IsFiniteSet(image)
      <4> HIDE DEF e
      <4> QED BY <1>3, <3>2, ImageIsFinite
    <3> HIDE DEF image, links, page
    <3>5. IsFiniteSet(UNION links)
      BY <3>3, <3>4, FS_Subset
    <3> QED BY <3>1, <3>5, FS_Union DEF page
  <2>3. ASSUME NEW id \in ids
        PROVE  packetCount[id] = Cardinality(At(1 .. 2 * n, e, id))
    <3>1. packetCount[id] = Sum([i \in DOMAIN linked |-> Ends(linked[i], id)])
      BY <2>3
    <3>2. EndsOf(e, linked)
      BY <1>5 DEF EndsOf
    <3> HIDE DEF e, packetCount
    <3>3. Sum([i \in DOMAIN linked |-> Ends(linked[i], id)])
            = Cardinality(At(1 .. 2 * Len(linked), e, id))
      BY <1>2, <3>2, EndsAdd
    <3> QED BY <3>1, <3>3
  <2> DEFINE I == 1 .. 2 * n
  <2>4. /\ IsFiniteSet(I) /\ e \in [I -> ids]
        /\ \A id \in ids : packetCount[id] = Cardinality(At(I, e, id))
    BY <1>3, <2>1, <2>3
  <2> HIDE DEF packetCount, e, ids, I, weight, g, links, graph, n
  <2>5. SumFunction(packetCount) = Cardinality(I)
    <3>1. IsFiniteSet(I)
      BY <2>4
    <3>2. e \in [I -> ids]
      BY <2>4
    <3>3. DOMAIN packetCount = ids
      BY <2>1
    <3>4. \A id \in ids : packetCount[id] = Cardinality(At(I, e, id))
      BY <2>4
    <3> QED BY <2>2, <3>1, <3>2, <3>3, <3>4, SumOfCounts
  <2> QED BY <1>3, <2>5 DEF I, n
<1>7. \A l \in DOMAIN graph.weight : l \subseteq DOMAIN graph.packetCount
  OBVIOUS
<1>8. SumFunction(graph.packetCount) = 2 * SumFunction(graph.weight)
  <2>1. graph.packetCount = packetCount /\ graph.weight = weight
    OBVIOUS
  <2> HIDE DEF graph, packetCount, weight
  <2> QED BY <1>4, <1>6, <2>1
<1> HIDE DEF graph
<1> QED BY <1>1, <1>7, <1>8 DEF GraphAddsUp

-----------------------------------------------------------------------------
(* The boards of activity and fun.                                         *)

\* In order, and nobody twice.
Orderly(b) == InOrder(b) /\ NobodyTwice(b)

\* A board with a number for each of different keys.
LEMMA KeyedOrderly ==
  ASSUME NEW keys, Distinct(keys), NEW v, \A i \in 1 .. Len(keys) : v[i] \in Int,
         NEW e, e = [i \in DOMAIN keys |-> [id |-> keys[i], value |-> v[i]]]
  PROVE  Orderly(Ranked(e))
<1>1. Len(keys) \in Nat /\ DOMAIN keys = 1 .. Len(keys)
  BY DEF Distinct, IsListing
<1>2. /\ DOMAIN e = 1 .. Len(keys) /\ Len(e) = Len(keys)
      /\ \A i \in 1 .. Len(keys) : e[i].id = keys[i] /\ e[i].value = v[i]
  BY <1>1
<1>3. Keyed(e, keys)
  BY <1>2 DEF Keyed
<1> DEFINE b == Ranked(e)
<1>4. b = Ranked(e)
  OBVIOUS
<1> HIDE DEF b
<1>5. InOrder(b) /\ NobodyTwice(b)
  BY <1>3, <1>4, KeyedBoard
<1> QED BY <1>5 DEF Orderly, b

\* The packets of a node are some of the listing, and there are some of a
\* source.
LEMMA SentFacts ==
  ASSUME NEW l, IsListing(l), NEW id
  PROVE  /\ IsListing(Sent(l, id)) /\ PacketCount(l, id) \in Nat
         /\ \A i \in 1 .. Len(l) : l[i].sourceId = id => PacketCount(l, id) # 0
<1> DEFINE I == {i \in DOMAIN l : l[i].sourceId = id}
           m == Picked(l, I)
<1>1. Sent(l, id) = m /\ PacketCount(l, id) = Len(m) /\ I \in SUBSET (DOMAIN l)
  BY DEF Sent, PacketCount, Where
<1>2. DOMAIN l = 1 .. Len(l)
  BY DEF IsListing
<1>3. \A i \in 1 .. Len(l) : l[i].sourceId = id => i \in I
  BY <1>2
<1> HIDE DEF I
<1>4. /\ IsListing(m) /\ Len(m) \in Nat
      /\ \A i \in I : \E k \in 1 .. Len(m) : m[k] = l[i]
  BY <1>1, PickedListing
<1> HIDE DEF m
<1>5. ASSUME NEW i \in 1 .. Len(l), l[i].sourceId = id PROVE Len(m) # 0
  <2>1. PICK k \in 1 .. Len(m) : m[k] = l[i]
    BY <1>3, <1>4, <1>5
  <2> QED BY <2>1, <1>4
<1> QED BY <1>1, <1>4, <1>5

\* The repeaters among the sources.
LEMMA RepeatersFacts ==
  ASSUME NEW l, IsListing(l)
  PROVE  /\ Distinct(Repeaters(l, nodes))
         /\ \A k \in 1 .. Len(Repeaters(l, nodes)) :
              \E i \in 1 .. Len(l) : l[i].sourceId = Repeaters(l, nodes)[k]
<1> DEFINE s == Sources(l)
           I == {k \in DOMAIN s : s[k] \in DOMAIN nodes /\ nodes[s[k]].role = "repeater"}
           m == Picked(s, I)
<1>1. Repeaters(l, nodes) = m /\ I \in SUBSET (DOMAIN s)
  BY DEF Repeaters, Where
<1>2. Distinct(s) /\ \A k \in 1 .. Len(s) : \E i \in 1 .. Len(l) : l[i].sourceId = s[k]
  BY SourcesFacts
<1> HIDE DEF s, I
<1>3. Distinct(m)
  BY <1>1, <1>2, PickedDistinct
<1>4. IsListing(s)
  BY <1>2 DEF Distinct
<1>5. \A k \in 1 .. Len(m) : \E j \in I : m[k] = s[j]
  BY <1>1, <1>4, PickedListing
<1>6. \A j \in I : j \in 1 .. Len(s)
  BY <1>1, <1>4 DEF IsListing
<1> HIDE DEF m
<1>7. ASSUME NEW k \in 1 .. Len(m) PROVE \E i \in 1 .. Len(l) : l[i].sourceId = m[k]
  <2>1. PICK j \in I : m[k] = s[j]
    BY <1>5
  <2> QED BY <1>2, <1>6, <2>1
<1> QED BY <1>1, <1>3, <1>7

\* What a filter leaves of a listing is a listing of some of its packets.
LEMMA WhereListing ==
  ASSUME NEW l, IsListing(l), NEW m, NEW I \in SUBSET (DOMAIN l), m = Picked(l, I)
  PROVE  IsListing(m) /\ \A k \in 1 .. Len(m) : \E i \in 1 .. Len(l) : m[k] = l[i]
<1>1. IsListing(m) /\ \A k \in 1 .. Len(m) : \E i \in I : m[k] = l[i]
  BY PickedListing
<1>2. I \subseteq 1 .. Len(l)
  BY DEF IsListing
<1> QED BY <1>1, <1>2

\* A board of nodes by their packets.
LEMMA CountBoard ==
  ASSUME NEW l, IsListing(l), NEW keys, Distinct(keys)
  PROVE  Orderly(Ranked([i \in DOMAIN keys |->
                           [id |-> keys[i], value |-> PacketCount(l, keys[i])]]))
<1> DEFINE v == [i \in DOMAIN keys |-> PacketCount(l, keys[i])]
           e == [i \in DOMAIN keys |-> [id |-> keys[i], value |-> PacketCount(l, keys[i])]]
<1>1. \A i \in 1 .. Len(keys) : v[i] \in Int
  <2>1. DOMAIN keys = 1 .. Len(keys)
    BY DEF Distinct, IsListing
  <2>2. \A id : PacketCount(l, id) \in Int
    BY SentFacts
  <2> QED BY <2>1, <2>2
<1>2. e = [i \in DOMAIN keys |-> [id |-> keys[i], value |-> v[i]]]
  OBVIOUS
<1> HIDE DEF v
<1>3. Orderly(Ranked(e))
  <2> HIDE DEF e
  <2> QED BY <1>1, <1>2, KeyedOrderly
<1> QED BY <1>3

\* Activity of repeaters.
LEMMA ActiveOrderly ==
  ASSUME NEW l, IsListing(l)
  PROVE  Orderly(mostActiveRepeater(l, nodes))
<1> DEFINE keys == Repeaters(l, nodes)
<1>1. Distinct(keys)
  BY RepeatersFacts
<1>2. mostActiveRepeater(l, nodes)
        = Ranked([i \in DOMAIN keys |-> [id |-> keys[i], value |-> PacketCount(l, keys[i])]])
  BY DEF mostActiveRepeater, BoardOf
<1> HIDE DEF keys
<1> QED BY <1>1, <1>2, CountBoard

\* Reliability of repeaters, rounded: none of them sent nothing.
LEMMA ReliableOrderly ==
  ASSUME NEW l, IsListing(l)
  PROVE  Orderly(mostReliableRepeater(l, nodes))
<1> DEFINE keys == Repeaters(l, nodes)
           rate(id) == Round(100 * Count(Sent(l, id), isReliablePacket), PacketCount(l, id))
           v == [i \in DOMAIN keys |-> rate(keys[i])]
           e == [i \in DOMAIN keys |-> [id |-> keys[i], value |-> v[i]]]
<1>1. mostReliableRepeater(l, nodes) = Ranked(e)
  <2>1. mostReliableRepeater(l, nodes)
          = Ranked([i \in DOMAIN keys |-> [id |-> keys[i], value |-> rate(keys[i])]])
    BY DEF mostReliableRepeater, BoardOf
  <2>2. e = [i \in DOMAIN keys |-> [id |-> keys[i], value |-> rate(keys[i])]]
    OBVIOUS
  <2> HIDE DEF e
  <2> QED BY <2>1, <2>2
<1>2. /\ Distinct(keys)
      /\ \A k \in 1 .. Len(keys) : \E i \in 1 .. Len(l) : l[i].sourceId = keys[k]
  BY RepeatersFacts
<1> HIDE DEF keys
<1>3. ASSUME NEW k \in 1 .. Len(keys) PROVE v[k] \in Int
  <2> DEFINE id == keys[k]
             m == Sent(l, id)
             I == {i \in DOMAIN m : isReliablePacket(m[i])}
  <2>0. DOMAIN keys = 1 .. Len(keys)
    BY <1>2 DEF Distinct, IsListing
  <2>1. IsListing(m) /\ PacketCount(l, id) \in Nat \ {0}
    BY <1>2, SentFacts
  <2>2. Count(m, isReliablePacket) = Len(Picked(m, I)) /\ I \in SUBSET (DOMAIN m)
    BY DEF Count, Where
  <2> HIDE DEF m, I, id
  <2>3. Len(Picked(m, I)) \in Nat
    BY <2>1, <2>2, PickedListing
  <2>4. Round(100 * Count(m, isReliablePacket), PacketCount(l, id)) \in Int
    <3> DEFINE x == 100 * Count(m, isReliablePacket)
    <3>1. x \in Int
      BY <2>2, <2>3
    <3> HIDE DEF x
    <3>2. Round(x, PacketCount(l, id)) \in Int
      BY <2>1, <3>1, RoundFacts
    <3> QED BY <3>2 DEF x
  <2> QED BY <2>0, <2>4 DEF m, id
<1> HIDE DEF v, e
<1>4. Orderly(Ranked(e))
  <2>1. e = [i \in DOMAIN keys |-> [id |-> keys[i], value |-> v[i]]]
    BY DEF e
  <2> QED BY <1>2, <1>3, <2>1, KeyedOrderly
<1> QED BY <1>1, <1>4

\* The packets of a node that were heard with a signal.
LEMMA SnrOrderly ==
  ASSUME NEW l, Heard(l)
  PROVE  Orderly(bestSnrChampion(l))
<1> DEFINE I == {i \in DOMAIN l : l[i].snr # NULL}
           h == Picked(l, I)
           keys == Sources(h)
           mean(id) == Round(100 * Sum(SnrValues(Sent(h, id))), PacketCount(h, id))
           v == [i \in DOMAIN keys |-> mean(keys[i])]
           e == [i \in DOMAIN keys |-> [id |-> keys[i], value |-> v[i]]]
<1>1. bestSnrChampion(l) = Ranked(e)
  <2>1. Where(l, LAMBDA p : p.snr # NULL) = h
    BY DEF Where
  <2>2. bestSnrChampion(l)
          = Ranked([i \in DOMAIN keys |-> [id |-> keys[i], value |-> mean(keys[i])]])
    BY <2>1 DEF bestSnrChampion, BoardOf
  <2>3. e = [i \in DOMAIN keys |-> [id |-> keys[i], value |-> mean(keys[i])]]
    OBVIOUS
  <2> HIDE DEF e
  <2> QED BY <2>2, <2>3
<1>2. Heard(h)
  <2>1. I \in SUBSET (1 .. Len(l))
    BY DEF Heard, IsListing
  <2> HIDE DEF I
  <2> QED BY <2>1, PickedHeard
<1> HIDE DEF h
<1>3. /\ Distinct(keys)
      /\ \A k \in 1 .. Len(keys) : \E i \in 1 .. Len(h) : h[i].sourceId = keys[k]
  BY <1>2, SourcesFacts DEF Heard
<1> HIDE DEF keys
<1>4. ASSUME NEW k \in 1 .. Len(keys) PROVE v[k] \in Int
  <2> DEFINE id == keys[k]
             J == {i \in DOMAIN h : h[i].sourceId = id}
  <2>0. DOMAIN keys = 1 .. Len(keys)
    BY <1>3 DEF Distinct, IsListing
  <2>1. PacketCount(h, id) \in Nat \ {0}
    BY <1>2, <1>3, SentFacts DEF Heard
  <2>2. Sent(h, id) = Picked(h, J) /\ J \in SUBSET (1 .. Len(h))
    BY <1>2 DEF Sent, Where, Heard, IsListing
  <2> HIDE DEF J, id
  <2>3. Heard(Sent(h, id))
    BY <1>2, <2>2, PickedHeard
  <2> DEFINE s == SnrValues(Sent(h, id))
             x == 100 * Sum(s)
             d == PacketCount(h, id)
  <2>4. s \in Seq(Int)
    BY <2>3, SnrFacts
  <2> HIDE DEF s
  <2>5. x \in Int
    BY <2>4, SumIsInt
  <2>6. d \in Nat \ {0}
    BY <2>1
  <2> HIDE DEF x, d
  <2>7. Round(x, d) \in Int
    BY <2>5, <2>6, RoundFacts
  <2> QED BY <2>0, <2>7 DEF x, d, s, id
<1> HIDE DEF v, e
<1>5. Orderly(Ranked(e))
  <2>1. e = [i \in DOMAIN keys |-> [id |-> keys[i], value |-> v[i]]]
    BY DEF e
  <2> QED BY <1>3, <1>4, <2>1, KeyedOrderly
<1> QED BY <1>1, <1>5

\* Everybody has finitely many peers.
LEMMA PeersFacts ==
  ASSUME NEW l, IsListing(l), NEW id
  PROVE  Cardinality(Peers(l, id)) \in Int
<1> DEFINE A == {k \in DOMAIN l : l[k].sourceId = id}
           B == {k \in DOMAIN l : l[k].destId = id}
           f == [i \in A |-> l[i].destId]
           g == [i \in B |-> l[i].sourceId]
           X == {f[i] : i \in DOMAIN f}
           Y == {g[i] : i \in DOMAIN g}
<1>1. Peers(l, id) = X \cup Y
  BY DEF Peers
<1>2. Len(l) \in Nat /\ DOMAIN l = 1 .. Len(l)
  BY DEF IsListing
<1>3. IsFiniteSet(A) /\ IsFiniteSet(B)
  <2>1. A \subseteq 1 .. Len(l) /\ B \subseteq 1 .. Len(l)
    BY <1>2
  <2>2. IsFiniteSet(1 .. Len(l))
    BY <1>2, FS_Interval
  <2> QED BY <2>1, <2>2, FS_Subset
<1>4. IsFiniteSet(X) /\ IsFiniteSet(Y)
  <2>1. IsFiniteSet(DOMAIN f) /\ IsFiniteSet(DOMAIN g)
    BY <1>3
  <2> HIDE DEF f, g
  <2> QED BY <2>1, ImageIsFinite
<1> HIDE DEF X, Y
<1>5. IsFiniteSet(X \cup Y)
  BY <1>4, FS_Union
<1>6. Cardinality(X \cup Y) \in Nat
  BY <1>5, FS_CardinalityType
<1> QED BY <1>1, <1>6

\* The nodes with the most peers.
LEMMA ConnectedOrderly ==
  ASSUME NEW l, IsListing(l)
  PROVE  Orderly(mostConnectedNode(l))
<1> DEFINE I == {i \in DOMAIN l : l[i].sourceId # NULL /\ l[i].destId # NULL}
           m == Picked(l, I)
           n == 2 * Len(m)
           ends == [k \in 1 .. 2 * Len(m) |->
                      IF k % 2 = 1 THEN m[(k + 1) \div 2].sourceId ELSE m[k \div 2].destId]
           keys == Keys(ends)
           v == [i \in DOMAIN keys |-> Cardinality(Peers(m, keys[i]))]
           e == [i \in DOMAIN keys |-> [id |-> keys[i], value |-> v[i]]]
<1>1. mostConnectedNode(l) = Ranked(e)
  <2>1. Where(l, LAMBDA p : p.sourceId # NULL /\ p.destId # NULL) = m
    BY DEF Where
  <2>2. mostConnectedNode(l)
          = Ranked([i \in DOMAIN keys |->
                      [id |-> keys[i], value |-> Cardinality(Peers(m, keys[i]))]])
    BY <2>1 DEF mostConnectedNode, BoardOf
  <2>3. e = [i \in DOMAIN keys |-> [id |-> keys[i], value |-> Cardinality(Peers(m, keys[i]))]]
    OBVIOUS
  <2> HIDE DEF e
  <2> QED BY <2>2, <2>3
<1>2. IsListing(m)
  <2>1. I \in SUBSET (DOMAIN l)
    OBVIOUS
  <2> HIDE DEF I
  <2> QED BY <2>1, WhereListing
<1> HIDE DEF m
<1>3. n \in Nat
  BY <1>2 DEF IsListing
<1>4. IsListing(ends)
  <2>1. ends = [i \in 1 .. n |-> ends[i]]
    OBVIOUS
  <2> HIDE DEF ends, n
  <2> QED BY <1>3, <2>1, ListingOf
<1> HIDE DEF ends
<1>5. Distinct(keys)
  BY <1>4, KeysAreDistinct
<1> HIDE DEF keys
<1>6. \A k \in 1 .. Len(keys) : v[k] \in Int
  <2>0. DOMAIN keys = 1 .. Len(keys)
    BY <1>5 DEF Distinct, IsListing
  <2>1. \A id : Cardinality(Peers(m, id)) \in Int
    BY <1>2, PeersFacts
  <2> QED BY <2>0, <2>1
<1> HIDE DEF v, e
<1>7. Orderly(Ranked(e))
  <2>1. e = [i \in DOMAIN keys |-> [id |-> keys[i], value |-> v[i]]]
    BY DEF e
  <2> QED BY <1>5, <1>6, <2>1, KeyedOrderly
<1> QED BY <1>1, <1>7

\* The observers that heard most.
LEMMA BusiestOrderly ==
  ASSUME NEW l, IsListing(l)
  PROVE  Orderly(busiestObserver(l))
BY BusiestFacts DEF Orderly

\* The owls and the birds.
LEMMA RangeOrderly ==
  ASSUME NEW l, IsListing(l), NEW from, NEW to
  PROVE  Orderly(timeRangeLeaderboard(l, from, to))
<1> DEFINE I == {i \in DOMAIN l : /\ getHours(l[i].timestamp) >= from
                                  /\ getHours(l[i].timestamp) < to}
           m == Picked(l, I)
           keys == Sources(m)
<1>1. timeRangeLeaderboard(l, from, to)
        = Ranked([i \in DOMAIN keys |-> [id |-> keys[i], value |-> PacketCount(m, keys[i])]])
  <2>1. Where(l, LAMBDA p : getHours(p.timestamp) >= from /\ getHours(p.timestamp) < to) = m
    BY DEF Where
  <2> QED BY <2>1 DEF timeRangeLeaderboard, BoardOf
<1>2. IsListing(m)
  <2>1. I \in SUBSET (DOMAIN l)
    OBVIOUS
  <2> HIDE DEF I
  <2> QED BY <2>1, WhereListing
<1> HIDE DEF m
<1>3. Distinct(keys)
  BY <1>2, SourcesFacts
<1> HIDE DEF keys
<1> QED BY <1>1, <1>2, <1>3, CountBoard

\* The marathon runners.
LEMMA MarathonOrderly ==
  ASSUME NEW l, Dated(l)
  PROVE  Orderly(marathonRunner(l))
<1> DEFINE b == marathonRunner(l)
<1>1. InOrder(b) /\ NobodyTwice(b)
  BY MarathonFacts
<1> QED BY <1>1 DEF Orderly

\* A finite set in some order.
LEMMA SetToSeqFacts ==
  ASSUME NEW S, IsFiniteSet(S)
  PROVE  Distinct(SetToSeq(S))
<1> DEFINE n == Cardinality(S)
           P(f) == f \in [1 .. n -> S] /\ IsInjective(f)
           s == SetToSeq(S)
<1>1. n \in Nat /\ ExistsBijection(1 .. n, S)
  BY FS_CardinalityType
<1>2. PICK f \in Bijection(1 .. n, S) : TRUE
  BY <1>1 DEF ExistsBijection
<1>3. P(f)
  BY <1>2 DEF Bijection, Injection, IsInjective
<1>4. s = CHOOSE g \in [1 .. n -> S] : IsInjective(g)
  BY DEF SetToSeq
<1>5. s \in [1 .. n -> S] /\ IsInjective(s)
  BY <1>3, <1>4
<1> HIDE DEF n, s
<1>6. IsListing(s) /\ Len(s) = n /\ DOMAIN s = 1 .. n
  <2>1. s = [i \in 1 .. n |-> s[i]]
    BY <1>5
  <2> QED BY <1>1, <2>1, ListingOf
<1>7. \A k, l \in 1 .. Len(s) : k < l => s[k] # s[l]
  BY <1>1, <1>5, <1>6 DEF IsInjective
<1> QED BY <1>6, <1>7 DEF Distinct, s

\* The new kids.
LEMMA NewKidOrderly ==
  ASSUME NEW l, IsListing(l), IsFiniteSet(DOMAIN nodes)
  PROVE  Orderly(newKidOnTheBlock(l, nodes, now))
<1> DEFINE S == NewNodes(nodes, now)
           keys == SetToSeq(S)
<1>1. S \subseteq DOMAIN nodes
  BY DEF NewNodes
<1>2. newKidOnTheBlock(l, nodes, now)
        = Ranked([i \in DOMAIN keys |-> [id |-> keys[i], value |-> PacketCount(l, keys[i])]])
  BY DEF newKidOnTheBlock, BoardOf
<1> HIDE DEF S
<1>3. Distinct(keys)
  BY <1>1, FS_Subset, SetToSeqFacts
<1> HIDE DEF keys
<1> QED BY <1>2, <1>3, CountBoard

-----------------------------------------------------------------------------
(* The boards of distance.                                                 *)

\* What nodes of the registry, with a position or not, are apart.
Measured == \A a, b : Between(nodes, a, b) \in Nat \cup {NULL}

\* A board ranks numbers from the greatest down.
LEMMA ValuedOrder ==
  ASSUME NEW e, Valued(e), NEW b, b = Ranked(e)
  PROVE  InOrder(b)
<1>1. PICK pos : Ranks(b, e, pos)
  BY RankedFacts
<1>2. DOMAIN b = 1 .. Len(b)
  BY <1>1 DEF Ranks
<1>3. ASSUME NEW r \in 1 .. Len(b), NEW q \in 1 .. Len(b), r < q
      PROVE  b[r].value >= b[q].value
  <2>1. b[r] = e[pos[r]] /\ b[q] = e[pos[q]]
    BY <1>1, <1>3 DEF Ranks
  <2>2. e[pos[r]].value >= e[pos[q]].value
    BY <1>1, <1>3 DEF Ranks
  <2> QED BY <2>1, <2>2
<1> QED BY <1>2, <1>3 DEF InOrder

\* The entries of the hops of a listing: one for each packet that went some
\* way, with how far.
LEMMA HopEntries ==
  ASSUME Measured, NEW l, IsListing(l), NEW e, e = buildSingleHopEntries(l, nodes)
  PROVE  /\ Valued(e)
         /\ \A k \in 1 .. Len(e) : \E i \in 1 .. Len(l) :
              /\ e[k].value = Between(nodes, l[i].sourceId, l[i].destId)
              /\ e[k].value \in Nat \ {0}
         /\ \A i \in 1 .. Len(l) :
              Between(nodes, l[i].sourceId, l[i].destId) \in Nat \ {0} =>
                \E k \in 1 .. Len(e) :
                  e[k].value = Between(nodes, l[i].sourceId, l[i].destId)
<1> DEFINE B(p) == Between(nodes, p.sourceId, p.destId)
           I == {i \in DOMAIN l : B(l[i]) \notin {NULL, 0}}
           m == Picked(l, I)
           n == Len(m)
<1>1. e = [i \in DOMAIN m |-> [id |-> << m[i].sourceId, m[i].destId >>, value |-> B(m[i])]]
  BY DEF buildSingleHopEntries, Where
<1>2. \A p : B(p) \in Nat \cup {NULL}
  BY DEF Measured
<1>3. NULL \notin Int
  BY ClockAssumption
<1> HIDE DEF B
<1>4. I \in SUBSET (DOMAIN l) /\ DOMAIN l = 1 .. Len(l)
  BY DEF IsListing
<1>5. \A i \in I : i \in 1 .. Len(l) /\ B(l[i]) \in Nat \ {0}
  BY <1>2, <1>4
<1>6. \A i \in 1 .. Len(l) : B(l[i]) \in Nat \ {0} => i \in I
  BY <1>3, <1>4
<1> HIDE DEF I
<1>7. /\ n \in Nat /\ DOMAIN m = 1 .. n
      /\ \A k \in 1 .. n : \E i \in I : m[k] = l[i]
      /\ \A i \in I : \E k \in 1 .. n : m[k] = l[i]
  BY <1>4, PickedListing
<1> HIDE DEF m, n
<1>8. DOMAIN e = 1 .. n /\ \A k \in 1 .. n : e[k].value = B(m[k])
  BY <1>1, <1>7
<1>9. Len(e) = n
  <2>1. e = [k \in 1 .. n |-> e[k]]
    BY <1>1, <1>7
  <2> QED BY <1>7, <2>1, ListingOf
<1>10. ASSUME NEW k \in 1 .. Len(e) PROVE \E i \in I : e[k].value = B(l[i])
  <2>1. k \in 1 .. n /\ e[k].value = B(m[k])
    BY <1>8, <1>9
  <2>2. PICK i \in I : m[k] = l[i]
    BY <1>7, <2>1
  <2> QED BY <2>1, <2>2
<1>11. ASSUME NEW i \in I PROVE \E k \in 1 .. Len(e) : e[k].value = B(l[i])
  <2>1. PICK k \in 1 .. n : m[k] = l[i]
    BY <1>7
  <2> QED BY <1>8, <1>9, <2>1
<1>12. \A k \in 1 .. Len(e) : \E i \in 1 .. Len(l) :
         e[k].value = B(l[i]) /\ e[k].value \in Nat \ {0}
  BY <1>5, <1>10
<1>13. Valued(e)
  <2>1. \A k \in 1 .. Len(e) : e[k].value \in Int
    BY <1>12
  <2>2. Len(e) \in Nat /\ DOMAIN e = 1 .. Len(e)
    BY <1>7, <1>8, <1>9
  <2> QED BY <2>1, <2>2 DEF Valued
<1>14. \A i \in 1 .. Len(l) : B(l[i]) \in Nat \ {0} => \E k \in 1 .. Len(e) : e[k].value = B(l[i])
  BY <1>6, <1>11
<1> QED BY <1>12, <1>13, <1>14 DEF B

\* The hops of the packets to somebody are hops of packets.
LEMMA DirectHolds ==
  ASSUME Measured, IsListing(packets)
  PROVE  DirectWithinHop
<1> DEFINE J == {i \in DOMAIN packets : packets[i].type \in {"direct", "TEXT_MESSAGE_APP"}}
           m == Picked(packets, J)
           e == buildSingleHopEntries(packets, nodes)
           f == buildSingleHopEntries(m, nodes)
           b == Ranked(e)
           c == Ranked(f)
           farthest(x) == IF x = << >> THEN 0 ELSE x[1].value
<1>1. /\ getLeaderboard("distance", "all", packets, nodes, now).singleHop = b
      /\ getLeaderboard("distance", "all", packets, nodes, now).directMessage = c
  <2>1. longestSingleHop(packets, nodes) = b
    BY DEF longestSingleHop
  <2>2. longestDirectMessage(packets, nodes) = c
    BY DEF longestDirectMessage, longestSingleHop, Where
  <2> HIDE DEF b, c
  <2> QED BY <2>1, <2>2, BoardsAre
<1>2. /\ IsListing(m)
      /\ \A k \in 1 .. Len(m) : \E i \in 1 .. Len(packets) : m[k] = packets[i]
  <2>1. J \in SUBSET (DOMAIN packets)
    OBVIOUS
  <2> HIDE DEF J
  <2> QED BY <2>1, WhereListing
<1> HIDE DEF m
<1>3. /\ Valued(e) /\ \A k \in 1 .. Len(e) : e[k].value \in Nat
      /\ \A i \in 1 .. Len(packets) :
           Between(nodes, packets[i].sourceId, packets[i].destId) \in Nat \ {0} =>
             \E k \in 1 .. Len(e) :
               e[k].value = Between(nodes, packets[i].sourceId, packets[i].destId)
  BY HopEntries
<1>4. /\ Valued(f)
      /\ \A k \in 1 .. Len(f) : \E i \in 1 .. Len(m) :
           /\ f[k].value = Between(nodes, m[i].sourceId, m[i].destId)
           /\ f[k].value \in Nat \ {0}
  BY <1>2, HopEntries
<1> HIDE DEF e, f
<1>5. PICK pos : Ranks(b, e, pos)
  BY <1>3, RankedFacts
<1>6. PICK place : Ranks(c, f, place)
  BY <1>4, RankedFacts
<1>7. TOP_N \in Nat \ {0}
  BY BoardAssumption
<1> HIDE DEF b, c
<1>8. ASSUME b # << >> PROVE b[1].value \in Nat
  <2>1. Len(b) >= 1
    BY <1>3, <1>5, <1>7, <1>8 DEF Ranks, Valued
  <2>2. 1 \in 1 .. Len(b)
    BY <1>3, <1>5, <1>7, <2>1 DEF Ranks, Valued
  <2>3. b[1] = e[pos[1]] /\ pos[1] \in 1 .. Len(e)
    BY <1>5, <2>2 DEF Ranks
  <2> QED BY <1>3, <2>3
<1>9. ASSUME c # << >> PROVE b # << >> /\ c[1].value <= b[1].value
  <2>1. 1 \in 1 .. Len(c)
    BY <1>4, <1>6, <1>7, <1>9 DEF Ranks, Valued
  <2>2. c[1] = f[place[1]] /\ place[1] \in 1 .. Len(f)
    BY <1>6, <2>1 DEF Ranks
  <2>3. PICK j \in 1 .. Len(m) :
          /\ c[1].value = Between(nodes, m[j].sourceId, m[j].destId)
          /\ c[1].value \in Nat \ {0}
    BY <1>4, <2>2
  <2>4. PICK i \in 1 .. Len(packets) : m[j] = packets[i]
    BY <1>2
  <2>5. PICK k \in 1 .. Len(e) : e[k].value = c[1].value
    BY <1>3, <2>3, <2>4
  <2>6. Len(b) >= 1 /\ 1 \in 1 .. Len(b)
    BY <1>3, <1>5, <1>7, <2>5 DEF Ranks, Valued
  <2>7. b[1] = e[pos[1]] /\ pos[1] \in 1 .. Len(e) /\ e[pos[1]].value >= e[k].value
    BY <1>5, <2>6 DEF Ranks
  <2>8. e[pos[1]].value \in Nat /\ e[k].value \in Nat
    BY <1>3, <2>7
  <2>9. b # << >>
    BY <2>6
  <2> QED BY <2>5, <2>7, <2>8, <2>9
<1>10. farthest(c) <= farthest(b)
  <2>1. CASE c = << >>
    BY <1>8, <2>1
  <2>2. CASE c # << >>
    BY <1>9, <2>2
  <2> QED BY <2>1, <2>2
<1> QED BY <1>1, <1>10 DEF DirectWithinHop

\* The length of a path is a number, if its hops have one.
LEMMA PathFacts ==
  ASSUME Measured, NEW path, IsListing(path)
  PROVE  PathLength(path, nodes) \in Int \cup {NULL}
<1> DEFINE n == Len(path) - 1
           hops == [i \in 1 .. Len(path) - 1 |-> Between(nodes, path[i], path[i + 1])]
<1>1. PathLength(path, nodes)
        = IF \E i \in DOMAIN hops : hops[i] = NULL THEN NULL ELSE Sum(hops)
  BY DEF PathLength
<1>2. CASE \E i \in DOMAIN hops : hops[i] = NULL
  BY <1>1, <1>2
<1>3. CASE ~\E i \in DOMAIN hops : hops[i] = NULL
  <2>1. Len(path) \in Nat /\ DOMAIN hops = 1 .. n
    BY DEF IsListing
  <2>2. \A i \in 1 .. n : hops[i] \in Nat
    BY <1>3, <2>1 DEF Measured
  <2>3. hops = [i \in 1 .. n |-> hops[i]]
    OBVIOUS
  <2> HIDE DEF hops
  <2>4. hops \in Seq(Int)
    <3>1. CASE n \in Nat
      BY <2>2, <2>3, <3>1
    <3>2. CASE n = -1
      <4>1. 1 .. n = 1 .. 0
        BY <3>2
      <4>2. hops = [i \in 1 .. 0 |-> hops[i]]
        BY <2>3, <4>1
      <4>3. \A i \in 1 .. 0 : hops[i] \in Int
        OBVIOUS
      <4>4. [i \in 1 .. 0 |-> hops[i]] \in [1 .. 0 -> Int]
        BY <4>3
      <4> QED BY <4>2, <4>4
    <3> QED BY <2>1, <3>1, <3>2
  <2>5. Sum(hops) \in Int
    BY <2>4, SumIsInt
  <2> QED BY <1>1, <1>3, <2>5
<1> QED BY <1>2, <1>3

\* The paths of the listed packets are lists.
Pathed == \A i \in 1 .. Len(packets) : IsListing(packets[i].hopPath)

\* The paths are in order.
LEMMA PathOrder ==
  ASSUME Measured, Pathed, IsListing(packets)
  PROVE  InOrder(longestMultiHopPath(packets, nodes))
<1> DEFINE L(p) == PathLength(p.hopPath, nodes)
           I == {i \in DOMAIN packets :
                   Len(packets[i].hopPath) >= 2 /\ L(packets[i]) \notin {NULL, 0}}
           m == Picked(packets, I)
           n == Len(m)
           e == [i \in DOMAIN m |-> [id |-> m[i].hopPath, value |-> L(m[i])]]
<1>1. longestMultiHopPath(packets, nodes) = Ranked(e)
  BY DEF longestMultiHopPath, Where
<1>2. \A i \in 1 .. Len(packets) : L(packets[i]) \in Int \cup {NULL}
  BY PathFacts DEF Pathed
<1> HIDE DEF L
<1>3. I \in SUBSET (DOMAIN packets) /\ DOMAIN packets = 1 .. Len(packets)
  BY DEF IsListing
<1>4. \A i \in I : L(packets[i]) \in Int
  BY <1>2, <1>3
<1> HIDE DEF I
<1>5. /\ n \in Nat /\ DOMAIN m = 1 .. n
      /\ \A k \in 1 .. n : \E i \in I : m[k] = packets[i]
  BY <1>3, PickedListing
<1> HIDE DEF m, n
<1>6. DOMAIN e = 1 .. n /\ \A k \in 1 .. n : e[k].value \in Int
  BY <1>4, <1>5
<1>7. Len(e) = n
  <2>1. e = [k \in 1 .. n |-> e[k]]
    BY <1>5
  <2> HIDE DEF e
  <2> QED BY <1>5, <2>1, ListingOf
<1> HIDE DEF e
<1>8. Valued(e)
  BY <1>5, <1>6, <1>7 DEF Valued
<1> QED BY <1>1, <1>8, ValuedOrder

\* The hops are in order.
LEMMA HopOrder ==
  ASSUME Measured, NEW l, IsListing(l)
  PROVE  InOrder(longestSingleHop(l, nodes))
<1> DEFINE e == buildSingleHopEntries(l, nodes)
<1>1. longestSingleHop(l, nodes) = Ranked(e)
  BY DEF longestSingleHop
<1>2. Valued(e)
  BY HopEntries
<1> HIDE DEF e
<1> QED BY <1>1, <1>2, ValuedOrder

\* All boards are in order.
LEMMA OrderHolds ==
  ASSUME Measured, Pathed, Dated(packets), Heard(packets), IsFiniteSet(DOMAIN nodes)
  PROVE  BoardsInOrder
<1>0. IsListing(packets)
  BY DEF Heard
<1> DEFINE board(c, name) == getLeaderboard(c, "all", packets, nodes, now)[name]
           D == getLeaderboard("distance", "all", packets, nodes, now)
           A == getLeaderboard("activity", "all", packets, nodes, now)
           F == getLeaderboard("fun", "all", packets, nodes, now)
<1>1. \A name \in DOMAIN D : InOrder(D[name])
  <2>1. /\ DOMAIN D = {"singleHop", "multiHop", "directMessage"}
        /\ D.singleHop = longestSingleHop(packets, nodes)
        /\ D.multiHop = longestMultiHopPath(packets, nodes)
        /\ D.directMessage = longestDirectMessage(packets, nodes)
    BY <1>0, BoardsAre
  <2>2. InOrder(D.singleHop)
    BY <1>0, <2>1, HopOrder
  <2>3. InOrder(D.multiHop)
    BY <1>0, <2>1, PathOrder
  <2>4. InOrder(D.directMessage)
    <3> DEFINE J == {i \in DOMAIN packets : packets[i].type \in {"direct", "TEXT_MESSAGE_APP"}}
               m == Picked(packets, J)
    <3>1. longestDirectMessage(packets, nodes) = longestSingleHop(m, nodes)
      BY DEF longestDirectMessage, Where
    <3>2. J \in SUBSET (DOMAIN packets)
      OBVIOUS
    <3> HIDE DEF J
    <3>3. IsListing(m)
      BY <1>0, <3>2, WhereListing
    <3> HIDE DEF m
    <3> QED BY <2>1, <3>1, <3>3, HopOrder
  <2> HIDE DEF D
  <2> QED BY <2>1, <2>2, <2>3, <2>4
<1>2. \A name \in DOMAIN A : Orderly(A[name])
  <2>1. /\ DOMAIN A = {"activeRepeater", "reliableRepeater", "bestSnr", "connectedNode", "observer"}
        /\ A.activeRepeater = mostActiveRepeater(packets, nodes)
        /\ A.reliableRepeater = mostReliableRepeater(packets, nodes)
        /\ A.bestSnr = bestSnrChampion(packets)
        /\ A.connectedNode = mostConnectedNode(packets)
        /\ A.observer = busiestObserver(packets)
    BY <1>0, BoardsAre
  <2>2. /\ Orderly(mostActiveRepeater(packets, nodes))
        /\ Orderly(mostReliableRepeater(packets, nodes))
        /\ Orderly(bestSnrChampion(packets))
        /\ Orderly(mostConnectedNode(packets))
        /\ Orderly(busiestObserver(packets))
    BY <1>0, ActiveOrderly, ReliableOrderly, SnrOrderly, ConnectedOrderly, BusiestOrderly
  <2> HIDE DEF A
  <2> QED BY <2>1, <2>2
<1>3. \A name \in DOMAIN F : Orderly(F[name])
  <2>1. /\ DOMAIN F = {"nightOwl", "earlyBird", "marathonRunner", "newKid"}
        /\ F.nightOwl = nightOwl(packets)
        /\ F.earlyBird = earlyBird(packets)
        /\ F.marathonRunner = marathonRunner(packets)
        /\ F.newKid = newKidOnTheBlock(packets, nodes, now)
    BY <1>0, BoardsAre
  <2>2. Orderly(nightOwl(packets)) /\ Orderly(earlyBird(packets))
    BY <1>0, RangeOrderly DEF nightOwl, earlyBird
  <2>3. Orderly(marathonRunner(packets))
    BY MarathonOrderly
  <2>4. Orderly(newKidOnTheBlock(packets, nodes, now))
    BY <1>0, NewKidOrderly
  <2> HIDE DEF F
  <2> QED BY <2>1, <2>2, <2>3, <2>4
<1> HIDE DEF D, A, F
<1>4. ASSUME NEW c \in CATEGORIES,
             NEW name \in DOMAIN getLeaderboard(c, "all", packets, nodes, now)
      PROVE  /\ InOrder(board(c, name))
             /\ c # "distance" => NobodyTwice(board(c, name))
  <2>1. CASE c = "distance"
    BY <1>1, <1>4, <2>1 DEF D
  <2>2. CASE c = "activity"
    BY <1>2, <1>4, <2>2 DEF A, Orderly
  <2>3. CASE c = "fun"
    BY <1>3, <1>4, <2>3 DEF F, Orderly
  <2> QED BY <2>1, <2>2, <2>3 DEF CATEGORIES
<1> QED BY <1>4 DEF BoardsInOrder, InOrder, NobodyTwice

-----------------------------------------------------------------------------
(* Boards and graph, in every reachable state.                             *)

\* A packet the boards can date, with a path they can follow.
Dateable(p) == p.timestamp.at \in Int /\ IsListing(p.hopPath)

\* A node is nowhere, or where it said.
KnownPlace(n) ==
  n.latitude # NULL /\ n.longitude # NULL => << n.latitude, n.longitude >> \in Positions

\* All listed packets, and all nodes of the registry, are like that.
PacketsDateable == \A i \in 1 .. Len(packets) : Dateable(packets[i])

NodesPlaced == \A id \in DOMAIN nodes : KnownPlace(nodes[id])

VInv == PacketsDateable /\ NodesPlaced

\* The path of a packet off the air is a list, whatever its bytes are.
LEMMA FramePath ==
  ASSUME NEW bytes \in Seq(Byte)
  PROVE  IsListing(Gen!decodePacket(Gen!bytesToHex(bytes)).hopPath)
<1> DEFINE hex == Gen!bytesToHex(bytes)
           B == Gen!hexToBytes(hex)
           header == Gen!parseHeader(B[1])
           at == IF Gen!hasTransportCodes(header.routeType) THEN 5 ELSE 1
           form == Gen!parsePathLen(B[at + 1])
           path == Gen!HopPath(B, at + 1, form)
           r == Gen!decodePacket(hex)
<1>1. B = bytes
  BY HexRoundTrip
<1>2. at \in {1, 5}
  OBVIOUS
<1>3. r.hopPath = IF Len(B) < 2 \/ at >= Len(B) THEN << >> ELSE path
  BY DEF Gen!decodePacket, Gen!buildErrorPacket
<1>4. IsListing(<< >>)
  BY DEF IsListing
<1> HIDE DEF at, r
<1>5. ASSUME ~(Len(B) < 2 \/ at >= Len(B)) PROVE IsListing(path)
  <2>1. B[at + 1] \in Byte
    BY <1>1, <1>2, <1>5
  <2>2. form.hashCount \in Nat
    <3> DEFINE x == B[at + 1]
    <3>1. form.hashCount = x % 64
      BY DEF Gen!parsePathLen
    <3>2. x \in Byte
      BY <2>1
    <3> HIDE DEF x
    <3>3. x % 64 \in Nat
      BY <3>2 DEF Byte
    <3> QED BY <3>1, <3>3
  <2>3. path = << >> \/ path = [i \in 1 .. form.hashCount |-> path[i]]
    BY DEF Gen!HopPath
  <2> HIDE DEF path, form
  <2>4. path = [i \in 1 .. form.hashCount |-> path[i]] => IsListing(path)
    BY <2>2, ListingOf
  <2> QED BY <1>4, <2>3, <2>4
<1> HIDE DEF path
<1> QED BY <1>3, <1>4, <1>5 DEF r

\* What the decoder makes of other packets.
LEMMA FrameHolds ==
  ASSUME NEW bytes \in Frames, NEW o, now \in Time
  PROVE  /\ Dateable(Decoded(bytes, o))
         /\ Decoded(bytes, o).type = "advert" => KnownPlace(nodeFromAdvert(Decoded(bytes, o)))
<1> DEFINE p == Decoded(bytes, o)
           r == Gen!decodePacket(Gen!bytesToHex(bytes))
<1>1. p.type = r.type /\ p.hopPath = r.hopPath /\ p.decodedPayload = r.decodedPayload
  BY DecodedParts
<1>2. p.timestamp.at = now
  BY DecodedFacts
<1>3. IsListing(r.hopPath)
  BY PositionAssumption, FramePath
<1>4. now \in Int
  BY ClockAssumption DEF Time
<1>5. r.type = "advert" =>
        << r.decodedPayload.latitude, r.decodedPayload.longitude >> \in Positions
  BY DEF Positions
<1> HIDE DEF p, r
<1>6. /\ nodeFromAdvert(p).latitude = r.decodedPayload.latitude
      /\ nodeFromAdvert(p).longitude = r.decodedPayload.longitude
  BY <1>1 DEF nodeFromAdvert
<1>7. Dateable(p)
  BY <1>1, <1>2, <1>3, <1>4 DEF Dateable
<1>8. p.type = "advert" => KnownPlace(nodeFromAdvert(p))
  BY <1>1, <1>5, <1>6 DEF KnownPlace
<1> QED BY <1>7, <1>8 DEF p

\* What it makes of the packets the generator builds.
LEMMA BuiltHolds ==
  ASSUME now \in Time, NEW type, NEW source \in Node, NEW dest \in Node, NEW content,
         NEW o, Fits(type, content),
         NEW p, p = Decoded(Gen!Built(type, source, dest, content, now), o)
  PROVE  Dateable(p) /\ (p.type = "advert" => KnownPlace(nodeFromAdvert(p)))
<1> DEFINE s == [type |-> type, source |-> source, dest |-> dest, content |-> content,
                 at |-> now]
<1>1. Says(p, s)
  BY BuiltSays
<1>2. s.type = type /\ s.source = source /\ s.dest = dest
  OBVIOUS
<1> HIDE DEF s
<1>3. p.timestamp.at = now
  BY DecodedFacts
<1>4. now \in Int
  BY ClockAssumption DEF Time
<1>5. p.hopPath = << IdOf(source), IdOf(dest) >> /\ p.type = type
  BY <1>1, <1>2 DEF Says
<1>6. IsListing(<< IdOf(source), IdOf(dest) >>)
  BY DEF IsListing
<1>7. Dateable(p)
  BY <1>3, <1>4, <1>5, <1>6 DEF Dateable
<1>8. ASSUME p.type = "advert" PROVE KnownPlace(nodeFromAdvert(p))
  <2>1. p.decodedPayload.latitude = source.lat /\ p.decodedPayload.longitude = source.lng
    BY <1>1, <1>2, <1>5, <1>8 DEF Says
  <2>2. /\ nodeFromAdvert(p).latitude = source.lat
        /\ nodeFromAdvert(p).longitude = source.lng
    BY <2>1 DEF nodeFromAdvert
  <2>3. << source.lat, source.lng >> \in Positions
    BY DEF Positions
  <2> QED BY <2>2, <2>3 DEF KnownPlace
<1> QED BY <1>7, <1>8

\* Such a packet goes on a listing of such packets.
LEMMA AddHolds ==
  ASSUME IsListing(packets), PacketsDateable, NEW p, NEW meant, Add(p, meant), Dateable(p)
  PROVE  PacketsDateable'
<1>1. packets' = Log!Pushed(p, packets)
  BY DEF Add
<1>2. ASSUME NEW i \in 1 .. Len(packets') PROVE Dateable(packets'[i])
  <2>1. /\ packets'[i] = IF i = 1 THEN p ELSE packets[i - 1]
        /\ i # 1 => i - 1 \in 1 .. Len(packets)
    BY <1>1, PushedFacts
  <2> QED BY <2>1 DEF PacketsDateable
<1> QED BY <1>2 DEF PacketsDateable, Dateable, IsListing

\* A packet off the air keeps both.
LEMMA HandlePacketHolds ==
  ASSUME TInv, VInv, NEW bytes, NEW o, NEW meant, HandlePacket(bytes, o, meant),
         NEW p, p = Decoded(bytes, o), Dateable(p),
         p.type = "advert" => KnownPlace(nodeFromAdvert(p))
  PROVE  VInv'
<1>1. Add(p, meant) /\ nodes' = NodesAfter(p)
  BY DEF HandlePacket
<1>2. PacketsDateable'
  BY <1>1, AddHolds DEF TInv, ListsTyped, VInv
<1>3. \A id \in DOMAIN nodes' : KnownPlace(nodes'[id])
  <2>1. CASE p.type = "advert" /\ p.sourceId # NULL
    <3> DEFINE x == p.sourceId
               v == nodeFromAdvert(p)
               f == With(nodes, x, v)
    <3>1. nodes' = f /\ KnownPlace(v)
      BY <1>1, <2>1 DEF NodesAfter
    <3> HIDE DEF x, v
    <3>2. /\ DOMAIN f = DOMAIN nodes \cup {x} /\ f[x] = v
          /\ \A id \in DOMAIN nodes \ {x} : f[id] = nodes[id]
      BY DEF With
    <3> HIDE DEF f
    <3> QED BY <3>1, <3>2 DEF VInv, NodesPlaced
  <2>2. CASE ~(p.type = "advert" /\ p.sourceId # NULL)
    BY <1>1, <2>2 DEF NodesAfter, VInv, NodesPlaced
  <2> QED BY <2>1, <2>2
<1> QED BY <1>2, <1>3 DEF VInv, NodesPlaced, KnownPlace

\* A posted packet, with a time of this server's clock.
LEMMA PostHolds ==
  ASSUME TInv, VInv, NEW body \in Posts, NEW ms, NEW at \in {START, now},
         Post(body, [ms |-> ms, at |-> at])
  PROVE  VInv'
<1> DEFINE t == [ms |-> ms, at |-> at]
           p == With(body, "timestamp", t)
<1>1. p.timestamp.at \in Int
  <2>1. p["timestamp"] = t
    BY DEF With
  <2>2. at \in Int
    <3>1. now \in Time
      BY DEF TInv, ProcessTyped
    <3> QED BY <3>1, ClockAssumption DEF Time
  <2> QED BY <2>1, <2>2
<1>2. IsListing(p.hopPath)
  <2>1. "hopPath" \in DOMAIN body \ {"timestamp"}
    BY StoreAssumption
  <2>2. p["hopPath"] = body["hopPath"]
    BY <2>1 DEF With
  <2> DEFINE path == body["hopPath"]
  <2>3. path \in Seq(Range(path))
    BY StoreAssumption
  <2> HIDE DEF path
  <2>4. DOMAIN path = 1 .. Len(path)
    BY <2>3
  <2>5. Range(path) = {path[i] : i \in 1 .. Len(path)}
    BY <2>4 DEF Range
  <2> QED BY <2>2, <2>3, <2>5 DEF IsListing, path
<1>3. Add(p, NULL) /\ nodes' = nodes
  BY DEF Post
<1> HIDE DEF p
<1>4. PacketsDateable'
  BY <1>1, <1>2, <1>3, AddHolds DEF TInv, ListsTyped, VInv, Dateable
<1> QED BY <1>3, <1>4 DEF VInv, NodesPlaced, KnownPlace

\* Every step keeps packets that can be dated and nodes where they said.
LEMMA NextHolds ==
  ASSUME TInv, VInv, [Next]_vars
  PROVE  VInv'
<1>0. now \in Time
  BY DEF TInv, ProcessTyped
<1>1. ASSUME UNCHANGED << packets, nodes >> PROVE VInv'
  BY <1>1 DEF VInv, PacketsDateable, NodesPlaced, KnownPlace, Dateable, IsListing
<1>2. ASSUME NEW type, NEW source \in Node, NEW dest \in Node, NEW content, NEW o,
             Fits(type, content), Publish(type, source, dest, content, o)
      PROVE  VInv'
  <2> DEFINE bytes == Gen!Built(type, source, dest, content, now)
             p == Decoded(bytes, o)
             s == [type |-> type, source |-> source, dest |-> dest, content |-> content,
                   at |-> now]
  <2>1. HandlePacket(bytes, o, s)
    BY <1>2 DEF Publish
  <2>2. Dateable(p) /\ (p.type = "advert" => KnownPlace(nodeFromAdvert(p)))
    <3>1. p = Decoded(Gen!Built(type, source, dest, content, now), o)
      OBVIOUS
    <3> HIDE DEF p
    <3> QED BY <1>0, <1>2, <3>1, BuiltHolds
  <2>3. p = Decoded(bytes, o)
    OBVIOUS
  <2> HIDE DEF bytes, p, s
  <2> QED BY <2>1, <2>2, <2>3, HandlePacketHolds
<1>3. ASSUME NEW bytes \in Frames, NEW o, HandlePacket(bytes, o, NULL) PROVE VInv'
  <2> DEFINE p == Decoded(bytes, o)
  <2>1. Dateable(p) /\ (p.type = "advert" => KnownPlace(nodeFromAdvert(p)))
    BY <1>0, FrameHolds
  <2>2. p = Decoded(bytes, o)
    OBVIOUS
  <2> HIDE DEF p
  <2> QED BY <1>3, <2>1, <2>2, HandlePacketHolds
<1>4. ASSUME NEW body \in Posts, NEW ms \in BOOLEAN, NEW at \in {START, now},
             Post(body, [ms |-> ms, at |-> at])
      PROVE  VInv'
  BY <1>4, PostHolds
<1>5. CASE \E source, dest \in Node, o \in Observer :
             \/ Publish("advert", source, dest, NULL, o)
             \/ \E type \in {"group_text", "text_message"}, message \in Message :
                  Publish(type, source, dest, message, o)
             \/ \E isRequest \in BOOLEAN, hops \in Routes :
                  Publish("trace", source, dest, [isRequest |-> isRequest, hops |-> hops], o)
  <2>1. PICK source \in Node, dest \in Node, o \in Observer :
             \/ Publish("advert", source, dest, NULL, o)
             \/ \E type \in {"group_text", "text_message"}, message \in Message :
                  Publish(type, source, dest, message, o)
             \/ \E isRequest \in BOOLEAN, hops \in Routes :
                  Publish("trace", source, dest, [isRequest |-> isRequest, hops |-> hops], o)
    BY <1>5, Zenon
  <2>2. CASE Publish("advert", source, dest, NULL, o)
    <3>1. Fits("advert", NULL)
      BY DEF Fits
    <3> QED BY <1>2, <2>2, <3>1
  <2>3. ASSUME NEW type \in {"group_text", "text_message"}, NEW message \in Message,
               Publish(type, source, dest, message, o)
        PROVE  VInv'
    <3>1. Fits(type, message)
      BY DEF Fits
    <3> QED BY <1>2, <2>3, <3>1
  <2>4. ASSUME NEW isRequest \in BOOLEAN, NEW hops \in Routes,
               Publish("trace", source, dest, [isRequest |-> isRequest, hops |-> hops], o)
        PROVE  VInv'
    <3>1. Fits("trace", [isRequest |-> isRequest, hops |-> hops])
      BY DEF Fits
    <3> QED BY <1>2, <2>4, <3>1
  <2> QED BY <2>1, <2>2, <2>3, <2>4, Zenon
<1>6. ASSUME NEW o, NEW status, HandleStatus(o, status) PROVE VInv'
  BY <1>1, <1>6 DEF HandleStatus
<1>7. CASE HttpClosed \/ Crash
  <2>1. packets' = << >> /\ nodes' = << >>
    BY <1>7 DEF HttpClosed, Crash, Exit
  <2>2. 1 .. Len(packets') = {} /\ DOMAIN nodes' = {}
    BY <2>1
  <2> QED BY <2>2 DEF VInv, PacketsDateable, NodesPlaced
<1>8. ASSUME NEW row, NEW written, GetBoard(row, written) PROVE VInv'
  BY <1>1, <1>8 DEF GetBoard, stores
<1>9. ASSUME NEW failed, RefreshAll(failed) PROVE VInv'
  BY <1>1, <1>9 DEF RefreshAll, stores
<1>10. CASE Boot \/ Signal \/ SocketsClosed \/ Tick
  BY <1>1, <1>10 DEF Boot, Signal, SocketsClosed, Tick, stores
<1>11. CASE UNCHANGED vars
  BY <1>1, <1>11 DEF vars, stores
<1> QED BY <1>3, <1>4, <1>5, <1>6, <1>7, <1>8, <1>9, <1>10, <1>11, Zenon DEF Next

\* Distances of the nodes of the registry are numbers.
LEMMA PlacedMeasured == NodesPlaced => Measured
<1> SUFFICES ASSUME NodesPlaced, NEW a, NEW b PROVE Between(nodes, a, b) \in Nat \cup {NULL}
  BY DEF Measured
<1> DEFINE src == NodeOf(nodes, a)
           dst == NodeOf(nodes, b)
           full(n) == n # NULL /\ n.latitude # NULL /\ n.longitude # NULL
           place(n) == << n.latitude, n.longitude >>
<1>1. Between(nodes, a, b)
        = IF full(src) /\ full(dst) THEN Distance(place(src), place(dst)) ELSE NULL
  BY DEF Between
<1>2. \A n, id : n = NodeOf(nodes, id) /\ full(n) => place(n) \in Positions
  BY DEF NodeOf, NodesPlaced, KnownPlace
<1>3. ASSUME full(src) /\ full(dst) PROVE Distance(place(src), place(dst)) \in Nat
  <2>1. place(src) \in Positions /\ place(dst) \in Positions
    BY <1>2, <1>3
  <2>2. NULL \notin {place(src)[1], place(src)[2], place(dst)[1], place(dst)[2]}
    BY <1>3
  <2> HIDE DEF place, src, dst
  <2> QED BY <2>1, <2>2, PositionAssumption
<1> QED BY <1>1, <1>3

\* The listing adds up in every state of these types.
LEMMA TypedAddsUp == TInv /\ VInv => ViewsAddUp
<1> SUFFICES ASSUME TInv, VInv PROVE ViewsAddUp
  OBVIOUS
<1>1. /\ IsListing(packets) /\ IsFiniteSet(DOMAIN nodes)
      /\ \A i \in 1 .. Len(packets) : packets[i].snr \in Int \cup {NULL}
  BY DEF TInv, ListsTyped, RegistriesTyped
<1>2. Dated(packets) /\ Pathed /\ Heard(packets)
  BY <1>1 DEF VInv, PacketsDateable, Dateable, Dated, Pathed, Heard
<1>3. Measured
  BY PlacedMeasured DEF VInv
<1>4. BoardsInOrder
  BY <1>1, <1>2, <1>3, OrderHolds
<1>5. DirectWithinHop
  BY <1>1, <1>3, DirectHolds
<1>6. StreaksAreLongest /\ WindowsCountLess /\ GraphAddsUp
  BY <1>1, <1>2, StreaksHold, WindowsHold, GraphHolds
<1> QED BY <1>4, <1>5, <1>6 DEF ViewsAddUp

\* Boards and graph agree with the listing: boards are in order and rank nobody
\* twice, a direct message goes no farther than the longest hop, a streak is
\* the longest interval of hours, a window counts no more than the whole, and
\* every link adds its weight to both of its ends.
THEOREM ViewsHold == Spec => []ViewsAddUp
<1>1. Init => VInv
  <2> SUFFICES ASSUME Init PROVE VInv
    OBVIOUS
  <2>1. 1 .. Len(packets) = {} /\ DOMAIN nodes = {}
    BY DEF Init
  <2> QED BY <2>1 DEF VInv, PacketsDateable, NodesPlaced
<1>2. TInv /\ VInv /\ [Next]_vars => VInv'
  BY NextHolds
<1> QED BY <1>1, <1>2, TInvAlways, TypedAddsUp, PTL DEF Spec
=============================================================================
