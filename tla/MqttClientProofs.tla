--------------------------- MODULE MqttClientProofs ---------------------------
(***************************************************************************)
(* Theorems about the MQTT connection manager, for every set of brokers.   *)
(***************************************************************************)
EXTENDS MqttClient, TLAPS

-----------------------------------------------------------------------------
(* The delays.                                                             *)

\* What an attempt counter can be.
LEMMA CounterValues == 0 .. AttemptCeiling = {0, 1, 2, 3, 4, 5, 6}
BY DEF AttemptCeiling

\* The delays of all attempts that are told apart.
LEMMA Delays ==
  /\ backoffDelay(0) = 1000 /\ backoffDelay(1) = 2000 /\ backoffDelay(2) = 4000
  /\ backoffDelay(3) = 8000 /\ backoffDelay(4) = 16000
  /\ backoffDelay(5) = 30000 /\ backoffDelay(6) = 30000
BY SMT DEF backoffDelay, BACKOFF_BASE_MS, BACKOFF_MAX_MS, BACKOFF_MULTIPLIER

\* A delay is between one and thirty seconds and no timer is one.
LEMMA DelayInRange ==
  ASSUME NEW n \in 0 .. AttemptCeiling
  PROVE  /\ backoffDelay(n) \in BACKOFF_BASE_MS .. BACKOFF_MAX_MS
         /\ backoffDelay(n) # NoTimer
BY CounterValues, Delays, NoTimerAssumption DEF BACKOFF_BASE_MS, BACKOFF_MAX_MS

\* One failure later the delay is that of the failures before, whether or
\* not the counter has stopped.
LEMMA DelayAfterFailure ==
  ASSUME NEW n \in 0 .. AttemptCeiling
  PROVE  /\ Counted(n) \in 0 .. AttemptCeiling
         /\ backoffDelay(n) = backoffDelay(Counted(n) - 1)
BY CounterValues, Delays DEF Counted, AttemptCeiling

-----------------------------------------------------------------------------
(* The inductive invariant: the attempt counter, which three handlers keep, *)
(* is the number of failures since the last connection.                     *)

AttemptsAreFailures == reconnectAttempt = failures

IInv == TypeOK /\ PendingIffIdle /\ DelayFollowsFailures /\ AttemptsAreFailures

LEMMA InitInv == Init => IInv
<1> SUFFICES ASSUME Init PROVE IInv
  OBVIOUS
<1>1. 0 \in 0 .. AttemptCeiling
  BY CounterValues
<1>2. TypeOK
  BY <1>1 DEF Init, TypeOK, Link, Subscription
<1>3. PendingIffIdle /\ DelayFollowsFailures /\ AttemptsAreFailures
  BY DEF Init, PendingIffIdle, DelayFollowsFailures, AttemptsAreFailures
<1> QED BY <1>2, <1>3 DEF IInv

\* A connection forgets the timer, the attempts and the failures together.
LEMMA ConnectedKeeps ==
  ASSUME IInv, NEW b \in Broker, Connected(b)
  PROVE  IInv'
<1> USE DEF IInv, Connected, ClearReconnectState
<1>1. 0 \in 0 .. AttemptCeiling
  BY CounterValues
<1>2. TypeOK'
  BY <1>1 DEF TypeOK, Link, Subscription
<1>3. PendingIffIdle' /\ DelayFollowsFailures' /\ AttemptsAreFailures'
  BY DEF TypeOK, PendingIffIdle, DelayFollowsFailures, AttemptsAreFailures
<1> QED BY <1>2, <1>3

\* No timer is pending when a stream closes, so that one is always set.
LEMMA StreamClosedKeeps ==
  ASSUME IInv, NEW b \in Broker, StreamClosed(b)
  PROVE  IInv'
<1> USE DEF IInv, StreamClosed
<1>1. reconnectTimer[b] = NoTimer
  BY DEF PendingIffIdle
<1>2. /\ reconnectTimer' = [reconnectTimer EXCEPT ![b] = backoffDelay(failures[b])]
      /\ reconnectAttempt' = [reconnectAttempt EXCEPT ![b] = Counted(failures[b])]
      /\ failures' = [failures EXCEPT ![b] = Counted(failures[b])]
  BY <1>1 DEF ScheduleReconnect, AttemptsAreFailures, TypeOK
<1>3. failures[b] \in 0 .. AttemptCeiling
  BY DEF TypeOK
<1>4. /\ backoffDelay(failures[b]) \in BACKOFF_BASE_MS .. BACKOFF_MAX_MS
      /\ backoffDelay(failures[b]) # NoTimer
  BY <1>3, DelayInRange
<1>5. /\ Counted(failures[b]) \in 0 .. AttemptCeiling
      /\ backoffDelay(failures[b]) = backoffDelay(Counted(failures[b]) - 1)
  BY <1>3, DelayAfterFailure
<1>6. TypeOK'
  BY <1>2, <1>4, <1>5 DEF TypeOK, Link, Subscription
<1>7. PendingIffIdle'
  BY <1>2, <1>4 DEF PendingIffIdle, TypeOK
<1>8. DelayFollowsFailures'
  BY <1>2, <1>5 DEF DelayFollowsFailures, TypeOK
<1>9. AttemptsAreFailures'
  BY <1>2 DEF AttemptsAreFailures
<1> QED BY <1>6, <1>7, <1>8, <1>9

\* A timer that fires is used up by the attempt it starts.
LEMMA TimerFiresKeeps ==
  ASSUME IInv, NEW b \in Broker, TimerFires(b)
  PROVE  IInv'
<1> USE DEF IInv, TimerFires
<1>1. TypeOK'
  BY DEF TypeOK, Link
<1>2. PendingIffIdle' /\ DelayFollowsFailures' /\ AttemptsAreFailures'
  BY DEF TypeOK, PendingIffIdle, DelayFollowsFailures, AttemptsAreFailures
<1> QED BY <1>1, <1>2

\* close() turns no idle link into another and no other into an idle one.
LEMMA CloseKeeps ==
  ASSUME IInv, Close
  PROVE  IInv'
<1> USE DEF IInv, Close
<1>1. TypeOK'
  BY DEF TypeOK, Link
<1>2. PendingIffIdle' /\ DelayFollowsFailures' /\ AttemptsAreFailures'
  BY DEF TypeOK, Link, PendingIffIdle, DelayFollowsFailures, AttemptsAreFailures
<1> QED BY <1>1, <1>2

\* The other steps touch no timer and no counter.
LEMMA OthersKeep ==
  ASSUME IInv,
         \/ \E b \in Broker :
              \/ \E answer \in {"granted", "refused"} : SubscribeAnswered(b, answer)
              \/ LinkLost(b)
              \/ BrokerChanges(b)
         \/ Exit
         \/ UNCHANGED vars
  PROVE  IInv'
<1> USE DEF IInv, TypeOK, Link, Subscription, PendingIffIdle, DelayFollowsFailures,
            AttemptsAreFailures
<1>1. ASSUME NEW b \in Broker, NEW answer \in {"granted", "refused"},
             SubscribeAnswered(b, answer)
      PROVE  IInv'
  BY <1>1 DEF SubscribeAnswered
<1>2. ASSUME NEW b \in Broker, LinkLost(b) PROVE IInv'
  BY <1>2 DEF LinkLost
<1>3. ASSUME NEW b \in Broker, BrokerChanges(b) PROVE IInv'
  BY <1>3 DEF BrokerChanges, client
<1>4. CASE Exit
  BY <1>4 DEF Exit, client
<1>5. CASE UNCHANGED vars
  BY <1>5 DEF vars, client
<1> QED BY <1>1, <1>2, <1>3, <1>4, <1>5

LEMMA Invariant == Spec => []IInv
<1>1. IInv /\ [Next]_vars => IInv'
  BY ConnectedKeeps, StreamClosedKeeps, TimerFiresKeeps, CloseKeeps, OthersKeep DEF Next
<1> QED BY InitInv, <1>1, PTL DEF Spec

-----------------------------------------------------------------------------
(* The theorems.                                                           *)

\* The state of every connection keeps its types; every delay is between
\* one and thirty seconds (backoffDelay).
THEOREM TypesAreKept == Spec => []TypeOK
<1>1. IInv => TypeOK
  BY DEF IInv
<1> QED BY <1>1, Invariant, PTL

\* No broker is given up and none is dialled twice: a reconnect is pending
\* exactly while there is no stream to it (scheduleReconnect, and the
\* handlers of 'connect' and 'close').
THEOREM NeverTwiceNeverNot == Spec => []PendingIffIdle
<1>1. IInv => PendingIffIdle
  BY DEF IInv
<1> QED BY <1>1, Invariant, PTL

\* The delay of a pending reconnect is that of the failures since the last
\* connection, however connections, failures and timers interleave.
THEOREM BackoffCountsFailures == Spec => []DelayFollowsFailures
<1>1. IInv => DelayFollowsFailures
  BY DEF IInv
<1> QED BY <1>1, Invariant, PTL
=============================================================================
