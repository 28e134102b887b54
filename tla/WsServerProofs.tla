---------------------------- MODULE WsServerProofs ----------------------------
(***************************************************************************)
(* Theorems about the WebSocket server, for every set of connections and   *)
(* every timeout shorter than the heartbeat interval.                      *)
(***************************************************************************)
EXTENDS WsServer, TLAPS

-----------------------------------------------------------------------------
(* The inductive invariant.                                                *)

\* Nothing happened yet to a connection that was not opened.
UnopenedIsClean ==
  \A c \in Conn : state[c] = "none" =>
    ~pinged[c] /\ silent[c] = 0 /\ received[c] = 0 /\ c \notin dropped

\* After close() no connection is open, and none that the heartbeat
\* terminated ever is.
EndedIsNotOpen ==
  /\ ~serving => \A c \in Conn : state[c] # "open"
  /\ \A c \in dropped : state[c] # "open"

\* The timeout of a ping was set when the interval was, and is over before
\* the interval is.
TimersFollowHeartbeat ==
  serving => \A c \in Conn : \A t \in pongTimers[c] :
    heartbeat - t = HeartbeatEvery - PongTimeout

\* Where the flag is down, a ping is unanswered and its timeout pending.
DownMeansPinged ==
  \A c \in Conn : state[c] = "open" /\ ~isAlive[c] => pinged[c] /\ pongTimers[c] # {}

\* A prompt peer has not answered only in the moment of the ping.
PromptAnswersAtOnce ==
  \A c \in Conn :
    state[c] = "open" /\ peer[c] = "prompt" /\ pinged[c] => heartbeat = HeartbeatEvery

\* A peer has been dead no longer than since the last ping it answered:
\* since the last one while the flag is up, else since the one before.
DeadSince ==
  \A c \in Conn :
    /\ state[c] = "open" /\ peer[c] # "dead" => silent[c] = 0
    /\ state[c] = "open" /\ isAlive[c] => silent[c] <= HeartbeatEvery - heartbeat
    /\ state[c] = "open" => silent[c] <= HeartbeatEvery + HeartbeatEvery - heartbeat

\* What was sent on a connection, open or not, are events of this server.
SentIsBounded ==
  \A c \in Conn : received[c] <= sent /\ joined[c] <= sent

IInv ==
  /\ TypeOK /\ UnopenedIsClean /\ EndedIsNotOpen
  /\ TimersFollowHeartbeat /\ DownMeansPinged
  /\ PromptIsKept /\ PromptAnswersAtOnce
  /\ DeadSince
  /\ OpenMissesNothing /\ SentIsBounded

USE IntervalAssumption, MaxEventsAssumption DEF MaxSilence

LEMMA InitInv == Init => IInv
<1> SUFFICES ASSUME Init PROVE IInv
  OBVIOUS
<1>1. TypeOK
  BY DEF Init, TypeOK
<1>2. UnopenedIsClean /\ EndedIsNotOpen /\ TimersFollowHeartbeat /\ DownMeansPinged
  BY DEF Init, UnopenedIsClean, EndedIsNotOpen, TimersFollowHeartbeat, DownMeansPinged
<1>3. PromptIsKept /\ PromptAnswersAtOnce /\ DeadSince
  BY DEF Init, PromptIsKept, PromptAnswersAtOnce, DeadSince
<1>4. OpenMissesNothing /\ SentIsBounded
  BY DEF Init, OpenMissesNothing, SentIsBounded
<1> QED BY <1>1, <1>2, <1>3, <1>4 DEF IInv

-----------------------------------------------------------------------------
(* Connections.                                                            *)

\* A new connection starts with the flag up, no ping and no event.
LEMMA ConnectKeeps ==
  ASSUME IInv, NEW c \in Conn, NEW kind \in {"prompt", "slow"}, Connect(c, kind)
  PROVE  IInv'
<1> USE DEF IInv, Connect
<1>1. TypeOK'
  BY DEF TypeOK
<1>2. UnopenedIsClean' /\ EndedIsNotOpen' /\ TimersFollowHeartbeat' /\ DownMeansPinged'
  BY DEF TypeOK, UnopenedIsClean, EndedIsNotOpen, TimersFollowHeartbeat, DownMeansPinged
<1>3. PromptIsKept' /\ PromptAnswersAtOnce'
  BY DEF TypeOK, UnopenedIsClean, PromptIsKept, PromptAnswersAtOnce
<1>4. DeadSince'
  BY DEF TypeOK, UnopenedIsClean, DeadSince
<1>5. OpenMissesNothing' /\ SentIsBounded'
  BY DEF TypeOK, UnopenedIsClean, OpenMissesNothing, SentIsBounded
<1> QED BY <1>1, <1>2, <1>3, <1>4, <1>5

LEMMA DisconnectedKeeps ==
  ASSUME IInv, NEW c \in Conn, Disconnected(c)
  PROVE  IInv'
<1> USE DEF IInv, Disconnected, TypeOK
<1>1. TypeOK'
  OBVIOUS
<1>2. UnopenedIsClean' /\ EndedIsNotOpen' /\ TimersFollowHeartbeat' /\ DownMeansPinged'
  BY DEF UnopenedIsClean, EndedIsNotOpen, TimersFollowHeartbeat, DownMeansPinged
<1>3. PromptIsKept' /\ PromptAnswersAtOnce' /\ DeadSince'
  BY DEF PromptIsKept, PromptAnswersAtOnce, DeadSince
<1>4. OpenMissesNothing' /\ SentIsBounded'
  BY DEF OpenMissesNothing, SentIsBounded
<1> QED BY <1>1, <1>2, <1>3, <1>4

\* Who answers is not dead, and has not been silent.
LEMMA PongKeeps ==
  ASSUME IInv, NEW c \in Conn, Pong(c)
  PROVE  IInv'
<1> USE DEF IInv, Pong, TypeOK
<1>1. TypeOK'
  OBVIOUS
<1>2. UnopenedIsClean' /\ EndedIsNotOpen' /\ TimersFollowHeartbeat' /\ DownMeansPinged'
  BY DEF UnopenedIsClean, EndedIsNotOpen, TimersFollowHeartbeat, DownMeansPinged
<1>3. PromptIsKept' /\ PromptAnswersAtOnce' /\ DeadSince'
  BY DEF PromptIsKept, PromptAnswersAtOnce, DeadSince
<1>4. OpenMissesNothing' /\ SentIsBounded'
  BY DEF OpenMissesNothing, SentIsBounded
<1> QED BY <1>1, <1>2, <1>3, <1>4

LEMMA DegradeKeeps ==
  ASSUME IInv, NEW c \in Conn, NEW kind \in {"slow", "dead"}, Degrade(c, kind)
  PROVE  IInv'
<1> USE DEF IInv, Degrade, TypeOK
<1>1. TypeOK'
  OBVIOUS
<1>2. UnopenedIsClean' /\ EndedIsNotOpen' /\ TimersFollowHeartbeat' /\ DownMeansPinged'
  BY DEF UnopenedIsClean, EndedIsNotOpen, TimersFollowHeartbeat, DownMeansPinged
<1>3. PromptIsKept' /\ PromptAnswersAtOnce' /\ DeadSince'
  BY DEF PromptIsKept, PromptAnswersAtOnce, DeadSince
<1>4. OpenMissesNothing' /\ SentIsBounded'
  BY DEF OpenMissesNothing, SentIsBounded
<1> QED BY <1>1, <1>2, <1>3, <1>4

-----------------------------------------------------------------------------
(* The heartbeat.                                                          *)

\* When the interval is over no timeout is pending, so that every open
\* connection has answered: nobody is terminated by the interval itself.
LEMMA HeartbeatFindsAllAlive ==
  ASSUME IInv, Heartbeat
  PROVE  /\ \A c \in Conn : pongTimers[c] = {}
         /\ \A c \in Conn : state[c] = "open" => isAlive[c]
<1> USE DEF IInv, Heartbeat
<1>1. \A c \in Conn : \A t \in pongTimers[c] : FALSE
  BY DEF TimersFollowHeartbeat, TypeOK
<1>2. \A c \in Conn : state[c] = "open" => isAlive[c]
  BY <1>1 DEF DownMeansPinged, TypeOK
<1> QED BY <1>1, <1>2

LEMMA HeartbeatKeeps ==
  ASSUME IInv, Heartbeat
  PROVE  IInv'
<1> USE DEF IInv
<1> DEFINE unanswered == {c \in Clients : ~isAlive[c]}
           probed == Clients \ unanswered
<1>1. /\ \A c \in Conn : pongTimers[c] = {}
      /\ \A c \in Conn : state[c] = "open" => isAlive[c]
  BY HeartbeatFindsAllAlive
<1>2. /\ heartbeat = 0 /\ serving
      /\ heartbeat' = HeartbeatEvery
      /\ isAlive' = [c \in Conn |-> isAlive[c] /\ c \notin probed]
      /\ pinged' = [c \in Conn |-> pinged[c] \/ c \in probed]
      /\ pongTimers' = [c \in Conn |-> IF c \in probed THEN TimersWithPing(c) ELSE pongTimers[c]]
      /\ UNCHANGED << peer, silent, serving, sent, joined, received >>
  BY DEF Heartbeat
<1>3. state' = state
  <2>1. state' = [c \in Conn |-> IF c \in unanswered /\ state[c] = "open"
                                 THEN "closing" ELSE state[c]]
    BY DEF Heartbeat, Terminated
  <2>2. \A c \in Conn : ~(c \in unanswered /\ state[c] = "open")
    BY <1>1
  <2> QED BY <2>1, <2>2 DEF TypeOK
<1>4. dropped' = dropped
  <2>1. dropped' = dropped \cup {c \in unanswered : state[c] = "open"}
    BY DEF Heartbeat, Terminated
  <2>2. {c \in unanswered : state[c] = "open"} = {}
    BY <1>1 DEF Clients
  <2> QED BY <2>1, <2>2
<1>5. \A c \in Conn : pongTimers'[c] = IF c \in probed THEN {PongTimeout} ELSE {}
  BY <1>1, <1>2 DEF TimersWithPing
<1>6. \A c \in Conn : state[c] = "open" => c \in probed /\ ~isAlive'[c] /\ pinged'[c]
  BY <1>1, <1>2 DEF Clients
<1>7. TypeOK'
  <2>1. isAlive' \in [Conn -> BOOLEAN] /\ pinged' \in [Conn -> BOOLEAN]
    BY <1>2 DEF TypeOK
  <2>2. \A c \in Conn : pongTimers'[c] \subseteq 0 .. PongTimeout
    BY <1>5
  <2> QED BY <1>2, <1>3, <1>4, <2>1, <2>2 DEF TypeOK
<1>8. \A c \in Conn : state[c] = "none" => c \notin probed
  BY DEF Clients
<1>9. UnopenedIsClean' /\ EndedIsNotOpen'
  BY <1>2, <1>3, <1>4, <1>8 DEF UnopenedIsClean, EndedIsNotOpen
<1>10. TimersFollowHeartbeat'
  BY <1>2, <1>5 DEF TimersFollowHeartbeat
<1>11. DownMeansPinged'
  BY <1>3, <1>5, <1>6 DEF DownMeansPinged
<1>12. PromptIsKept' /\ PromptAnswersAtOnce'
  BY <1>2, <1>4 DEF PromptIsKept, PromptAnswersAtOnce
<1>13. DeadSince'
  BY <1>1, <1>2, <1>3, <1>6 DEF DeadSince, TypeOK
<1>14. OpenMissesNothing' /\ SentIsBounded'
  BY <1>2, <1>3 DEF OpenMissesNothing, SentIsBounded
<1> QED BY <1>7, <1>9, <1>10, <1>11, <1>12, <1>13, <1>14

\* A timeout that finds the flag down does not find a prompt peer: the
\* ping is as old as the timeout.
LEMMA PongOverdueKeeps ==
  ASSUME IInv, NEW c \in Conn, PongOverdue(c)
  PROVE  IInv'
<1> USE DEF IInv, TypeOK
<1> DEFINE who == IF isAlive[c] THEN {} ELSE {c}
<1>1. /\ 0 \in pongTimers[c]
      /\ pongTimers' = [pongTimers EXCEPT ![c] = pongTimers[c] \ {0}]
      /\ state' = [d \in Conn |-> IF d \in who /\ state[d] = "open" THEN "closing" ELSE state[d]]
      /\ dropped' = dropped \cup {d \in who : state[d] = "open"}
      /\ UNCHANGED << isAlive, pinged, peer, silent, heartbeat, serving, sent, joined, received >>
  BY DEF PongOverdue, Terminated
<1>2. state[c] = "open" /\ ~isAlive[c] => peer[c] # "prompt"
  <2> SUFFICES ASSUME state[c] = "open", ~isAlive[c], peer[c] = "prompt" PROVE FALSE
    OBVIOUS
  <2>1. serving /\ heartbeat = HeartbeatEvery
    BY DEF EndedIsNotOpen, DownMeansPinged, PromptAnswersAtOnce
  <2>2. heartbeat - 0 = HeartbeatEvery - PongTimeout
    BY <1>1, <2>1 DEF TimersFollowHeartbeat
  <2> QED BY <2>1, <2>2
<1>3. \A d \in Conn : /\ state'[d] = "open" => state[d] = "open" /\ d \notin who
                      /\ state'[d] = "none" <=> state[d] = "none"
  BY <1>1
<1>4. \A d \in dropped' : d \in dropped \/ (d = c /\ state[c] = "open" /\ ~isAlive[c])
  BY <1>1
<1>5. TypeOK'
  <2>1. state' \in [Conn -> {"none", "open", "closing", "gone"}]
    BY <1>1
  <2>2. \A d \in Conn : pongTimers'[d] \subseteq pongTimers[d]
    BY <1>1
  <2>3. dropped' \subseteq Conn
    BY <1>4
  <2> QED BY <1>1, <2>1, <2>2, <2>3
<1>6. UnopenedIsClean'
  BY <1>1, <1>3, <1>4 DEF UnopenedIsClean
<1>7. EndedIsNotOpen'
  BY <1>1, <1>3, <1>4 DEF EndedIsNotOpen
<1>8. TimersFollowHeartbeat'
  BY <1>1 DEF TimersFollowHeartbeat
<1>9. DownMeansPinged'
  BY <1>1, <1>3 DEF DownMeansPinged
<1>10. PromptIsKept'
  BY <1>1, <1>2, <1>4 DEF PromptIsKept
<1>11. PromptAnswersAtOnce' /\ DeadSince'
  BY <1>1, <1>3 DEF PromptAnswersAtOnce, DeadSince
<1>12. OpenMissesNothing' /\ SentIsBounded'
  BY <1>1, <1>3 DEF OpenMissesNothing, SentIsBounded
<1> QED BY <1>5, <1>6, <1>7, <1>8, <1>9, <1>10, <1>11, <1>12

-----------------------------------------------------------------------------
(* Broadcasts, close and time.                                             *)

LEMMA BroadcastKeeps ==
  ASSUME IInv, Broadcast
  PROVE  IInv'
<1> USE DEF IInv, Broadcast, TypeOK
<1>1. \A c \in Conn : received'[c] = IF state[c] = "open" THEN received[c] + 1 ELSE received[c]
  BY DEF Recipients, Clients
<1>2. OpenMissesNothing'
  BY <1>1 DEF OpenMissesNothing
<1>3. SentIsBounded'
  BY <1>1 DEF SentIsBounded, OpenMissesNothing
<1>4. TypeOK'
  <2>1. sent' \in 0 .. MaxEvents
    BY MaxEventsAssumption
  <2>2. \A c \in Conn : received'[c] \in 0 .. MaxEvents
    BY <1>1, <1>3, <2>1 DEF SentIsBounded
  <2>3. received' \in [Conn -> 0 .. MaxEvents]
    BY <2>2
  <2> QED BY <2>1, <2>3
<1>5. UnopenedIsClean' /\ EndedIsNotOpen' /\ TimersFollowHeartbeat' /\ DownMeansPinged'
  BY <1>1 DEF UnopenedIsClean, EndedIsNotOpen, TimersFollowHeartbeat, DownMeansPinged
<1>6. PromptIsKept' /\ PromptAnswersAtOnce' /\ DeadSince'
  BY DEF PromptIsKept, PromptAnswersAtOnce, DeadSince
<1> QED BY <1>2, <1>3, <1>4, <1>5, <1>6

LEMMA CloseKeeps ==
  ASSUME IInv, Close
  PROVE  IInv'
<1> USE DEF IInv, Close, TypeOK
<1>1. \A c \in Conn : state'[c] # "open" /\ (state'[c] = "none" <=> state[c] = "none")
  OBVIOUS
<1>2. TypeOK'
  OBVIOUS
<1>3. UnopenedIsClean' /\ EndedIsNotOpen' /\ TimersFollowHeartbeat' /\ DownMeansPinged'
  BY <1>1 DEF UnopenedIsClean, EndedIsNotOpen, TimersFollowHeartbeat, DownMeansPinged
<1>4. PromptIsKept' /\ PromptAnswersAtOnce' /\ DeadSince'
  BY <1>1 DEF PromptIsKept, PromptAnswersAtOnce, DeadSince
<1>5. OpenMissesNothing' /\ SentIsBounded'
  BY <1>1 DEF OpenMissesNothing, SentIsBounded
<1> QED BY <1>2, <1>3, <1>4, <1>5

\* A tick passes with every prompt peer's answer in, every due timeout run
\* and the interval not over.
LEMMA TickKeeps ==
  ASSUME IInv, Tick
  PROVE  IInv'
<1> USE DEF IInv, TypeOK
<1>1. /\ serving => heartbeat > 0
      /\ \A c \in Conn : /\ 0 \notin pongTimers[c]
                         /\ ~(state[c] = "open" /\ pinged[c] /\ peer[c] = "prompt")
      /\ heartbeat' = IF serving THEN heartbeat - 1 ELSE heartbeat
      /\ pongTimers' = [c \in Conn |-> {t - 1 : t \in pongTimers[c]}]
      /\ silent' = [c \in Conn |->
                      IF state[c] = "open" /\ peer[c] = "dead" /\ silent[c] <= MaxSilence
                      THEN silent[c] + 1 ELSE silent[c]]
      /\ UNCHANGED << state, isAlive, pinged, peer, dropped, serving, sent, joined, received >>
  BY DEF Tick
<1>2. \A c \in Conn : \A t \in pongTimers'[c] : t \in 0 .. PongTimeout /\ t + 1 \in pongTimers[c]
  BY <1>1
<1>3. \A c \in Conn : pongTimers[c] # {} => pongTimers'[c] # {}
  BY <1>1
<1>4. \A c \in Conn : /\ silent'[c] \in 0 .. MaxSilence + 1
                      /\ silent'[c] <= silent[c] + 1
                      /\ peer[c] # "dead" \/ state[c] # "open" => silent'[c] = silent[c]
  BY <1>1
<1>5. TypeOK'
  <2>1. silent' \in [Conn -> 0 .. MaxSilence + 1]
    BY <1>1, <1>4
  <2>2. heartbeat' \in 0 .. HeartbeatEvery
    BY <1>1
  <2> QED BY <1>1, <1>2, <2>1, <2>2
<1>6. UnopenedIsClean' /\ EndedIsNotOpen'
  BY <1>1, <1>4 DEF UnopenedIsClean, EndedIsNotOpen
<1>7. TimersFollowHeartbeat'
  <2> SUFFICES ASSUME serving, NEW c \in Conn, NEW t \in pongTimers'[c]
               PROVE  heartbeat' - t = HeartbeatEvery - PongTimeout
    BY <1>1 DEF TimersFollowHeartbeat
  <2>1. t \in 0 .. PongTimeout /\ t + 1 \in pongTimers[c]
    BY <1>2
  <2>2. heartbeat - (t + 1) = HeartbeatEvery - PongTimeout
    BY <2>1 DEF TimersFollowHeartbeat
  <2> QED BY <1>1, <2>1, <2>2
<1>8. DownMeansPinged'
  BY <1>1, <1>3 DEF DownMeansPinged
<1>9. PromptIsKept' /\ PromptAnswersAtOnce'
  BY <1>1 DEF PromptIsKept, PromptAnswersAtOnce
<1>10. DeadSince'
  <2> SUFFICES ASSUME NEW c \in Conn, state[c] = "open"
               PROVE  /\ peer[c] # "dead" => silent'[c] = 0
                      /\ isAlive[c] => silent'[c] <= HeartbeatEvery - heartbeat'
                      /\ silent'[c] <= HeartbeatEvery + HeartbeatEvery - heartbeat'
    BY <1>1 DEF DeadSince
  <2>1. serving /\ heartbeat' = heartbeat - 1
    BY <1>1 DEF EndedIsNotOpen
  <2>2. silent'[c] \in Nat /\ silent[c] \in Nat /\ heartbeat \in Nat
    BY <1>4
  <2> QED BY <1>4, <2>1, <2>2 DEF DeadSince
<1>11. OpenMissesNothing' /\ SentIsBounded'
  BY <1>1 DEF OpenMissesNothing, SentIsBounded
<1> QED BY <1>5, <1>6, <1>7, <1>8, <1>9, <1>10, <1>11

LEMMA StutterKeeps ==
  ASSUME IInv, UNCHANGED vars
  PROVE  IInv'
<1> USE DEF IInv, vars
<1>1. TypeOK' /\ UnopenedIsClean' /\ EndedIsNotOpen'
  BY DEF TypeOK, UnopenedIsClean, EndedIsNotOpen
<1>2. TimersFollowHeartbeat' /\ DownMeansPinged' /\ PromptIsKept' /\ PromptAnswersAtOnce'
  BY DEF TimersFollowHeartbeat, DownMeansPinged, PromptIsKept, PromptAnswersAtOnce
<1>3. DeadSince' /\ OpenMissesNothing' /\ SentIsBounded'
  BY DEF DeadSince, OpenMissesNothing, SentIsBounded
<1> QED BY <1>1, <1>2, <1>3

LEMMA Invariant == Spec => []IInv
<1>1. IInv /\ [Next]_vars => IInv'
  BY ConnectKeeps, DisconnectedKeeps, PongKeeps, DegradeKeeps, HeartbeatKeeps,
     PongOverdueKeeps, BroadcastKeeps, CloseKeeps, TickKeeps, StutterKeeps DEF Next
<1> QED BY InitInv, <1>1, PTL DEF Spec

-----------------------------------------------------------------------------
(* The theorems.                                                           *)

\* Every connection and the heartbeat keep their types; no countdown goes
\* below zero.
THEOREM TypesAreKept == Spec => []TypeOK
<1>1. IInv => TypeOK
  BY DEF IInv
<1> QED BY <1>1, Invariant, PTL

\* The heartbeat and its timeouts never terminate a connection whose peer
\* answers promptly.
THEOREM PromptPeersStay == Spec => []PromptIsKept
<1>1. IInv => PromptIsKept
  BY DEF IInv
<1> QED BY <1>1, Invariant, PTL

\* A connection whose peer is gone is terminated within one interval and
\* one timeout: while the flag is down the timeout of the ping is pending.
THEOREM DeadPeersGo == Spec => []DeadIsDropped
<1>1. IInv => DeadIsDropped
  <2> SUFFICES ASSUME IInv, NEW c \in Conn, state[c] = "open"
               PROVE  silent[c] <= HeartbeatEvery + PongTimeout
    BY DEF DeadIsDropped
  <2> USE DEF IInv, TypeOK
  <2>1. CASE isAlive[c]
    BY <2>1 DEF DeadSince
  <2>2. CASE ~isAlive[c]
    <3>1. serving
      BY DEF EndedIsNotOpen
    <3>2. PICK t \in pongTimers[c] : TRUE
      BY <2>2 DEF DownMeansPinged
    <3>3. t \in 0 .. PongTimeout /\ heartbeat - t = HeartbeatEvery - PongTimeout
      BY <3>1, <3>2 DEF TimersFollowHeartbeat
    <3>4. silent[c] <= HeartbeatEvery + HeartbeatEvery - heartbeat
      BY DEF DeadSince
    <3> QED BY <3>3, <3>4
  <2> QED BY <2>1, <2>2
<1> QED BY <1>1, Invariant, PTL

\* An open connection is sent every event broadcast since it was opened.
THEOREM NoEventIsMissed == Spec => []OpenMissesNothing
<1>1. IInv => OpenMissesNothing
  BY DEF IInv
<1> QED BY <1>1, Invariant, PTL
=============================================================================
