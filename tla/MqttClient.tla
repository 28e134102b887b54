------------------------------ MODULE MqttClient ------------------------------
(***************************************************************************)
(* The MQTT connection manager (src/mqtt/client.js): one client of mqtt.js *)
(* per configured broker, whose own reconnecting is switched off and       *)
(* replaced by an exponential backoff, and the close() of the manager that *)
(* a shutdown (src/index.js) calls before it waits for the servers to      *)
(* close and exits the process.                                            *)
(*                                                                         *)
(* mqtt.js is external.  What is assumed of it: connect() and reconnect()  *)
(* start one connection attempt; an attempt ends in a 'connect' event or   *)
(* in a 'close' event; a connection that is lost, or destroyed by          *)
(* end(true), ends in one 'close' event some time later; reconnect() works *)
(* on an ended client too.                                                 *)
(***************************************************************************)
EXTENDS Integers

CONSTANTS
  Broker,  \* the configured brokers
  NoTimer  \* no reconnect is scheduled

BACKOFF_BASE_MS == 1000
BACKOFF_MAX_MS == 30000
BACKOFF_MULTIPLIER == 2

\* Slip: the delay is not capped.
UncappedDelay(attempt) == BACKOFF_BASE_MS * BACKOFF_MULTIPLIER ^ attempt

backoffDelay(attempt) ==
  LET delay == BACKOFF_BASE_MS * BACKOFF_MULTIPLIER ^ attempt
  IN  IF delay < BACKOFF_MAX_MS THEN delay ELSE BACKOFF_MAX_MS

\* Bound: the counters stop here.  2^5 seconds are more than the longest
\* delay, so that none grows any more by then.
AttemptCeiling == 6

ASSUME NoTimerAssumption == NoTimer \notin Nat

VARIABLES
  link,              \* state of mqtt.js's stream to each broker
  subscription,      \* what became of the subscriptions made on connect
  reconnectAttempt,  \* attempts since the last connect
  reconnectTimer,    \* delay of the pending reconnect timer, or NoTimer
  brokerUp,          \* environment: can the broker be reached?
  closed,            \* has the shutdown called close()?
  exited,            \* has the process exited?
  failures           \* history: 'close' events since the last 'connect'

client == << link, subscription, reconnectAttempt, reconnectTimer, failures >>
vars == << client, brokerUp, closed, exited >>

Link == {"connecting", "up", "closing", "idle"}
Subscription == {"none", "requested", "granted", "refused"}

Counted(n) == IF n < AttemptCeiling THEN n + 1 ELSE AttemptCeiling

-----------------------------------------------------------------------------
(* The handlers the manager registers.                                     *)

\* scheduleReconnect: at most one timer is pending.
ScheduleReconnect(b) ==
  IF reconnectTimer[b] # NoTimer
  THEN UNCHANGED << reconnectTimer, reconnectAttempt >>
  ELSE /\ reconnectTimer' = [reconnectTimer EXCEPT ![b] = backoffDelay(reconnectAttempt[b])]
       /\ reconnectAttempt' = [reconnectAttempt EXCEPT ![b] = Counted(@)]

\* Slip: the timer is cleared, the attempt counter is not.
ClearTimerOnly(b) ==
  /\ reconnectTimer' = [reconnectTimer EXCEPT ![b] = NoTimer]
  /\ UNCHANGED reconnectAttempt

ClearReconnectState(b) ==
  /\ reconnectTimer' = [reconnectTimer EXCEPT ![b] = NoTimer]
  /\ reconnectAttempt' = [reconnectAttempt EXCEPT ![b] = 0]

\* Slip: the topics are subscribed to on the first connection only.
SubscribedOnce(b) ==
  /\ ~exited /\ link[b] = "connecting" /\ brokerUp[b]
  /\ link' = [link EXCEPT ![b] = "up"]
  /\ ClearReconnectState(b)
  /\ subscription' = [subscription EXCEPT ![b] = IF failures[b] = 0 THEN "requested" ELSE "none"]
  /\ failures' = [failures EXCEPT ![b] = 0]
  /\ UNCHANGED << brokerUp, closed, exited >>

\* on('connect'): forget the backoff, then subscribe to every topic anew.
Connected(b) ==
  /\ ~exited /\ link[b] = "connecting" /\ brokerUp[b]
  /\ link' = [link EXCEPT ![b] = "up"]
  /\ ClearReconnectState(b)
  /\ subscription' = [subscription EXCEPT ![b] = "requested"]
  /\ failures' = [failures EXCEPT ![b] = 0]
  /\ UNCHANGED << brokerUp, closed, exited >>

\* The broker answers the subscriptions; a refusal is only reported.
SubscribeAnswered(b, answer) ==
  /\ ~exited /\ link[b] = "up" /\ brokerUp[b] /\ subscription[b] = "requested"
  /\ subscription' = [subscription EXCEPT ![b] = answer]
  /\ UNCHANGED << link, reconnectAttempt, reconnectTimer, failures, brokerUp, closed, exited >>

\* mqtt.js gives up an attempt or notices that a connection is dead.
LinkLost(b) ==
  /\ ~exited /\ link[b] \in {"connecting", "up"} /\ ~brokerUp[b]
  /\ link' = [link EXCEPT ![b] = "closing"]
  /\ UNCHANGED << subscription, reconnectAttempt, reconnectTimer, failures, brokerUp, closed, exited >>

\* Slip: close does not schedule a reconnect for an attempt that failed.
CloseAfterConnectOnly(b) ==
  /\ ~exited /\ link[b] = "closing"
  /\ link' = [link EXCEPT ![b] = "idle"]
  /\ subscription' = [subscription EXCEPT ![b] = "none"]
  /\ failures' = [failures EXCEPT ![b] = Counted(@)]
  /\ IF subscription[b] = "none"
     THEN UNCHANGED << reconnectTimer, reconnectAttempt >>
     ELSE ScheduleReconnect(b)
  /\ UNCHANGED << brokerUp, closed, exited >>

\* on('close').
StreamClosed(b) ==
  /\ ~exited /\ link[b] = "closing"
  /\ link' = [link EXCEPT ![b] = "idle"]
  /\ subscription' = [subscription EXCEPT ![b] = "none"]
  /\ failures' = [failures EXCEPT ![b] = Counted(@)]
  /\ ScheduleReconnect(b)
  /\ UNCHANGED << brokerUp, closed, exited >>

\* The callback of the reconnect timer.
TimerFires(b) ==
  /\ ~exited /\ reconnectTimer[b] # NoTimer
  /\ reconnectTimer' = [reconnectTimer EXCEPT ![b] = NoTimer]
  /\ link' = [link EXCEPT ![b] = "connecting"]
  /\ UNCHANGED << subscription, reconnectAttempt, failures, brokerUp, closed, exited >>

-----------------------------------------------------------------------------
(* Shutdown and environment.                                               *)

\* close(): end(true) on every client destroys its stream, if it has one.
\* No handler is removed and no timer cleared.
Close ==
  /\ ~exited /\ ~closed
  /\ closed' = TRUE
  /\ link' = [b \in Broker |-> IF link[b] = "idle" THEN "idle" ELSE "closing"]
  /\ UNCHANGED << subscription, reconnectAttempt, reconnectTimer, failures, brokerUp, exited >>

\* The rest of the shutdown, which takes as long as the servers need to
\* close, ends in process.exit.
Exit ==
  /\ closed /\ ~exited
  /\ exited' = TRUE
  /\ UNCHANGED << client, brokerUp, closed >>

BrokerChanges(b) ==
  /\ ~exited
  /\ brokerUp' = [brokerUp EXCEPT ![b] = ~@]
  /\ UNCHANGED << client, closed, exited >>

\* createMqttClient connects to every broker at once.
Init ==
  /\ link = [b \in Broker |-> "connecting"]
  /\ subscription = [b \in Broker |-> "none"]
  /\ reconnectAttempt = [b \in Broker |-> 0]
  /\ reconnectTimer = [b \in Broker |-> NoTimer]
  /\ failures = [b \in Broker |-> 0]
  /\ brokerUp \in [Broker -> BOOLEAN]
  /\ closed = FALSE
  /\ exited = FALSE

Next ==
  \/ \E b \in Broker :
       \/ Connected(b)
       \/ \E answer \in {"granted", "refused"} : SubscribeAnswered(b, answer)
       \/ LinkLost(b)
       \/ StreamClosed(b)
       \/ TimerFires(b)
       \/ BrokerChanges(b)
  \/ Close
  \/ Exit

\* Timers fire, streams that were destroyed close, and a broker that can be
\* reached answers.  Brokers need not come up, and nobody has to shut the
\* server down; once begun, a shutdown may wait for its servers for ever.
Fairness ==
  \A b \in Broker :
    /\ WF_vars(Connected(b))
    /\ WF_vars(\E answer \in {"granted", "refused"} : SubscribeAnswered(b, answer))
    /\ WF_vars(LinkLost(b))
    /\ WF_vars(StreamClosed(b))
    /\ WF_vars(TimerFires(b))

Spec == Init /\ [][Next]_vars /\ Fairness

-----------------------------------------------------------------------------
(* Properties.                                                             *)

TypeOK ==
  /\ link \in [Broker -> Link]
  /\ subscription \in [Broker -> Subscription]
  /\ reconnectAttempt \in [Broker -> 0 .. AttemptCeiling]
  /\ reconnectTimer \in [Broker -> (BACKOFF_BASE_MS .. BACKOFF_MAX_MS) \cup {NoTimer}]
  /\ failures \in [Broker -> 0 .. AttemptCeiling]
  /\ brokerUp \in [Broker -> BOOLEAN]
  /\ closed \in BOOLEAN /\ exited \in BOOLEAN

\* A broker is never given up, and never dialled twice: a reconnect is
\* pending exactly while there is no stream to the broker, open, opening or
\* closing.
PendingIffIdle ==
  \A b \in Broker : reconnectTimer[b] # NoTimer <=> link[b] = "idle"

\* The delay before an attempt depends on the failures since the last
\* connection alone: one second after a lost connection, doubled by each
\* failed attempt, thirty seconds at most.  The counter behind it is kept
\* by three handlers.
DelayFollowsFailures ==
  \A b \in Broker :
    reconnectTimer[b] # NoTimer => reconnectTimer[b] = backoffDelay(failures[b] - 1)

\* A broker that from some time on can be reached is, from some time on,
\* connected and has answered the subscriptions, whatever happened before.
ReconnectsForGood ==
  \A b \in Broker :
    <>[](brokerUp[b] /\ ~closed)
      => <>[](link[b] = "up" /\ subscription[b] \in {"granted", "refused"})

\* After close() no connection is opened any more: the shutdown closes the
\* MQTT client first so that no message arrives while it closes the rest.
ClosedStaysClosed ==
  [][closed => \A b \in Broker : link'[b] # "up" \/ link[b] = "up"]_vars
=============================================================================
