------------------------------- MODULE WsServer -------------------------------
(***************************************************************************)
(* The WebSocket server (src/ws/server.js): connections upgraded from the  *)
(* HTTP server, a heartbeat that pings every connection and terminates the *)
(* ones that do not answer, broadcasts, and close().                       *)
(*                                                                         *)
(* Time passes in ticks of PONG_TIMEOUT_MS / PongTimeout milliseconds; the *)
(* timers of the code, the heartbeat interval and one timeout per ping,    *)
(* are countdowns.  Time does not pass while a callback is due, so timers  *)
(* are exact: the event loop is never held up for as long as a tick.       *)
(*                                                                         *)
(* A peer is "prompt" if its pong is back before PONG_TIMEOUT_MS is over,  *)
(* "slow" if it answers at any time or never, and "dead" if it stopped     *)
(* answering without closing its connection.  A prompt peer may become     *)
(* slow, and any peer dead, at any time.                                   *)
(***************************************************************************)
EXTENDS Integers, FiniteSets

CONSTANTS
  Conn,           \* connections there can be
  HeartbeatEvery, \* HEARTBEAT_INTERVAL_MS, in ticks
  PongTimeout,    \* PONG_TIMEOUT_MS, in ticks
  MaxEvents       \* bound: how many events are broadcast

ASSUME IntervalAssumption ==
  /\ PongTimeout \in Nat \ {0}
  /\ HeartbeatEvery \in Nat
  /\ PongTimeout < HeartbeatEvery

ASSUME MaxEventsAssumption == MaxEvents \in Nat

VARIABLES
  state,       \* connection -> "none", "open", "closing" or "gone"
  isAlive,     \* the flag the server keeps on each connection
  pinged,      \* the ping the peer has not answered yet, if any
  pongTimers,  \* countdowns of the timeouts set for a connection's pings
  peer,        \* environment: how the peer behaves
  silent,      \* history: ticks since the peer of an open connection died
  dropped,     \* history: did the heartbeat terminate the connection?
  heartbeat,   \* countdown of the heartbeat interval
  serving,     \* FALSE once close() was called
  sent,        \* history: events broadcast so far
  joined,      \* history: events broadcast before the connection opened
  received     \* events sent on each connection

vars == << state, isAlive, pinged, pongTimers, peer, silent, dropped, heartbeat,
           serving, sent, joined, received >>

\* Connections in wss.clients: a terminated one stays until its socket has
\* closed.
Clients == {c \in Conn : state[c] \in {"open", "closing"}}

-----------------------------------------------------------------------------
(* Connections.                                                            *)

\* An upgrade request on /ws.  The ws library refuses it after close().
Connect(c, kind) ==
  /\ serving /\ state[c] = "none"
  /\ state' = [state EXCEPT ![c] = "open"]
  /\ isAlive' = [isAlive EXCEPT ![c] = TRUE]
  /\ peer' = [peer EXCEPT ![c] = kind]
  /\ joined' = [joined EXCEPT ![c] = sent]
  /\ UNCHANGED << pinged, pongTimers, silent, dropped, heartbeat, serving, sent, received >>

\* The peer closes its connection, or its socket has closed after terminate.
Disconnected(c) ==
  /\ state[c] \in {"open", "closing"}
  /\ state' = [state EXCEPT ![c] = "gone"]
  /\ pinged' = [pinged EXCEPT ![c] = FALSE]
  /\ silent' = [silent EXCEPT ![c] = 0]
  /\ UNCHANGED << isAlive, pongTimers, peer, dropped, heartbeat, serving, sent, joined, received >>

\* on('pong').
Pong(c) ==
  /\ state[c] = "open" /\ pinged[c] /\ peer[c] # "dead"
  /\ pinged' = [pinged EXCEPT ![c] = FALSE]
  /\ isAlive' = [isAlive EXCEPT ![c] = TRUE]
  /\ UNCHANGED << state, pongTimers, peer, silent, dropped, heartbeat, serving, sent, joined, received >>

Degrade(c, kind) ==
  /\ state[c] = "open"
  /\ \/ peer[c] = "prompt" /\ kind \in {"slow", "dead"}
     \/ peer[c] = "slow" /\ kind = "dead"
  /\ peer' = [peer EXCEPT ![c] = kind]
  /\ UNCHANGED << state, isAlive, pinged, pongTimers, silent, dropped, heartbeat, serving, sent, joined, received >>

-----------------------------------------------------------------------------
(* The heartbeat.                                                          *)

Terminated(who) ==
  /\ state' = [c \in Conn |-> IF c \in who /\ state[c] = "open" THEN "closing" ELSE state[c]]
  /\ dropped' = dropped \cup {c \in who : state[c] = "open"}

\* Slip: the timeout of a ping is as long as the interval.
TimersWithInterval(c) == pongTimers[c] \cup {HeartbeatEvery}

TimersWithPing(c) == pongTimers[c] \cup {PongTimeout}

\* The callback of the interval: a connection that has not answered the
\* last ping is terminated, the others are pinged and given a timeout.
Heartbeat ==
  LET unanswered == {c \in Clients : ~isAlive[c]}
      probed == Clients \ unanswered
  IN  /\ heartbeat = 0 /\ serving
      /\ heartbeat' = HeartbeatEvery
      /\ Terminated(unanswered)
      /\ isAlive' = [c \in Conn |-> isAlive[c] /\ c \notin probed]
      /\ pinged' = [c \in Conn |-> pinged[c] \/ c \in probed]
      /\ pongTimers' = [c \in Conn |-> IF c \in probed THEN TimersWithPing(c) ELSE pongTimers[c]]
      /\ UNCHANGED << peer, silent, serving, sent, joined, received >>

\* Slip: a timeout terminates without looking at the flag again.
PongOverdueAlways(c) ==
  /\ 0 \in pongTimers[c]
  /\ pongTimers' = [pongTimers EXCEPT ![c] = @ \ {0}]
  /\ Terminated({c})
  /\ UNCHANGED << isAlive, pinged, peer, silent, heartbeat, serving, sent, joined, received >>

\* Slip: a timeout leaves it to the next heartbeat to terminate.
PongOverdueNever(c) ==
  /\ 0 \in pongTimers[c]
  /\ pongTimers' = [pongTimers EXCEPT ![c] = @ \ {0}]
  /\ UNCHANGED << state, isAlive, pinged, peer, silent, dropped, heartbeat, serving, sent, joined, received >>

\* The callback of a ping's timeout.  A pong does not cancel it: it checks
\* the flag, which speaks of the latest ping.
PongOverdue(c) ==
  /\ 0 \in pongTimers[c]
  /\ pongTimers' = [pongTimers EXCEPT ![c] = @ \ {0}]
  /\ Terminated(IF isAlive[c] THEN {} ELSE {c})
  /\ UNCHANGED << isAlive, pinged, peer, silent, heartbeat, serving, sent, joined, received >>

-----------------------------------------------------------------------------
(* Broadcasts and close.                                                   *)

\* Slip: only connections that answered their last ping are sent events.
RecipientsAlive == {c \in Clients : state[c] = "open" /\ isAlive[c]}

\* Connections with readyState 1.
Recipients == {c \in Clients : state[c] = "open"}

\* broadcast of an allowed event.
Broadcast ==
  /\ sent < MaxEvents
  /\ sent' = sent + 1
  /\ received' = [c \in Conn |->
                    IF c \in Recipients THEN received[c] + 1 ELSE received[c]]
  /\ UNCHANGED << joined, state, isAlive, pinged, pongTimers, peer, silent, dropped, heartbeat, serving >>

\* Slip: close leaves the connections to their peers.
CloseServerOnly ==
  /\ serving
  /\ serving' = FALSE
  /\ UNCHANGED << state, isAlive, pinged, pongTimers, peer, silent, dropped, heartbeat, sent, joined, received >>

\* close(): no more heartbeats, every connection is terminated.
Close ==
  /\ serving
  /\ serving' = FALSE
  /\ state' = [c \in Conn |-> IF state[c] = "open" THEN "closing" ELSE state[c]]
  /\ UNCHANGED << isAlive, pinged, pongTimers, peer, silent, dropped, heartbeat, sent, joined, received >>

-----------------------------------------------------------------------------
(* Time.                                                                   *)

MaxSilence == HeartbeatEvery + PongTimeout

\* A tick passes when no callback is due, no prompt peer is late and no
\* terminated socket is still closing.
Tick ==
  /\ serving => heartbeat > 0
  /\ \A c \in Conn :
       /\ 0 \notin pongTimers[c]
       /\ state[c] # "closing"
       /\ ~(state[c] = "open" /\ pinged[c] /\ peer[c] = "prompt")
  /\ heartbeat' = IF serving THEN heartbeat - 1 ELSE heartbeat
  /\ pongTimers' = [c \in Conn |-> {t - 1 : t \in pongTimers[c]}]
  /\ silent' = [c \in Conn |->
                  IF state[c] = "open" /\ peer[c] = "dead" /\ silent[c] <= MaxSilence
                  THEN silent[c] + 1 ELSE silent[c]]
  /\ UNCHANGED << state, isAlive, pinged, peer, dropped, serving, sent, joined, received >>

Init ==
  /\ state = [c \in Conn |-> "none"]
  /\ isAlive = [c \in Conn |-> FALSE]
  /\ pinged = [c \in Conn |-> FALSE]
  /\ pongTimers = [c \in Conn |-> {}]
  /\ peer = [c \in Conn |-> "prompt"]
  /\ silent = [c \in Conn |-> 0]
  /\ dropped = {}
  /\ heartbeat = HeartbeatEvery
  /\ serving = TRUE
  /\ sent = 0
  /\ joined = [c \in Conn |-> 0]
  /\ received = [c \in Conn |-> 0]

Next ==
  \/ \E c \in Conn :
       \/ \E kind \in {"prompt", "slow"} : Connect(c, kind)
       \/ Disconnected(c)
       \/ Pong(c)
       \/ \E kind \in {"slow", "dead"} : Degrade(c, kind)
       \/ PongOverdue(c)
  \/ Heartbeat
  \/ Broadcast
  \/ Close
  \/ Tick

\* Time passes and due callbacks run; a terminated socket closes.
Fairness ==
  /\ WF_vars(Tick)
  /\ WF_vars(Heartbeat)
  /\ \A c \in Conn : WF_vars(PongOverdue(c))
  /\ \A c \in Conn : WF_vars(state[c] = "closing" /\ Disconnected(c))
  /\ \A c \in Conn : WF_vars(peer[c] = "prompt" /\ Pong(c))

Spec == Init /\ [][Next]_vars /\ Fairness

-----------------------------------------------------------------------------
(* Properties.                                                             *)

TypeOK ==
  /\ state \in [Conn -> {"none", "open", "closing", "gone"}]
  /\ isAlive \in [Conn -> BOOLEAN]
  /\ pinged \in [Conn -> BOOLEAN]
  /\ \A c \in Conn : pongTimers[c] \subseteq 0 .. PongTimeout
  /\ peer \in [Conn -> {"prompt", "slow", "dead"}]
  /\ silent \in [Conn -> 0 .. MaxSilence + 1]
  /\ dropped \subseteq Conn
  /\ heartbeat \in 0 .. HeartbeatEvery
  /\ serving \in BOOLEAN
  /\ sent \in 0 .. MaxEvents
  /\ joined \in [Conn -> 0 .. MaxEvents]
  /\ received \in [Conn -> 0 .. MaxEvents]

\* The heartbeat never terminates a connection whose peer answers promptly,
\* wherever in the interval it was opened, although the flag is down from
\* each ping to its pong and no timeout is ever cancelled.
PromptIsKept == \A c \in dropped : peer[c] # "prompt"

\* A connection whose peer is gone is terminated within one interval and
\* one timeout.
DeadIsDropped == \A c \in Conn : state[c] = "open" => silent[c] <= MaxSilence

\* An open connection is sent every event broadcast since it was opened,
\* those that fall between a ping and its pong included.
OpenMissesNothing ==
  \A c \in Conn : state[c] = "open" => received[c] = sent - joined[c]

\* After close() every connection ends, so that the promise it returns is
\* fulfilled and the shutdown goes on.
CloseEndsConnections ==
  ~serving ~> \A c \in Conn : state[c] \in {"none", "gone"}
=============================================================================
