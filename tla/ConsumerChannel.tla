-------------------------- MODULE ConsumerChannel --------------------------
(***************************************************************************)
(* The consumer of the notification worker and its readiness (index.ts,    *)
(* metrics.ts): everything is set up in the hook that amqplib runs after   *)
(* every successful connection, and only there.                            *)
(*                                                                         *)
(* What the broker does to a channel or a consumer reaches the process     *)
(* later, as an event; one that travels on a lost connection is lost.      *)
(***************************************************************************)
EXTENDS Broker

VARIABLES
  hook,         \* where the recovery hook is, or the connection without it
  consuming,    \* the broker has the consumer on an open channel
  answered,     \* consume is answered, what awaits it has not gone on
  event,        \* a close, an error or an empty message is on its way
  ready         \* the gauge, and what GET /health answers

consumerVars == <<hook, consuming, answered, event, ready>>

Hooks == {"down", "connected", "channel", "declared", "done", "closed"}

ConsumerTypeOK ==
  /\ hook \in Hooks
  /\ consuming \in BOOLEAN /\ answered \in BOOLEAN
  /\ event \in BOOLEAN /\ ready \in BOOLEAN

ConsumerInit ==
  /\ hook = "down"
  /\ consuming = FALSE /\ answered = FALSE /\ event = FALSE /\ ready = FALSE

\* The connection is gone: 'disconnect', or the end of the process, which also
\* ends its gauge.  A connection that the broker closes may be gone before an
\* answer read with the close has been acted upon.
Disconnect(to) ==
  /\ hook' = to
  /\ consuming' = FALSE /\ event' = FALSE /\ ready' = FALSE
  /\ answered' = (answered /\ to = "down")

Disconnected ==
  /\ hook \notin {"down", "closed"} /\ Fault
  /\ Disconnect("down")
  /\ UNCHANGED <<up, declared>>

shutdown == hook # "closed" /\ Disconnect("closed") /\ UNCHANGED brokerVars

\* Mutant: a restored connection is taken for a restored consumer.
ConnectBare ==
  /\ hook = "down" /\ up /\ ~answered
  /\ hook' = IF declared THEN "done" ELSE "connected"
  /\ UNCHANGED <<brokerVars, consuming, answered, event, ready>>

ConnectWorker ==
  /\ hook = "down" /\ up /\ ~answered
  /\ hook' = "connected"
  /\ UNCHANGED <<brokerVars, consuming, answered, event, ready>>

\* The steps of the hook.  A channel that was closed meanwhile answers none of
\* them: the hook fails, and amqplib connects again.
createChannel ==
  /\ hook = "connected"
  /\ hook' = "channel"
  /\ UNCHANGED <<brokerVars, consuming, answered, event, ready>>

declareTopology ==
  /\ hook = "channel"
  /\ assertTopology
  /\ hook' = "declared"
  /\ UNCHANGED <<consuming, answered, event, ready>>

\* prefetch, and consume, which the broker answers.
consume ==
  /\ hook = "declared"
  /\ hook' = "done"
  /\ consuming' = TRUE
  /\ answered' = TRUE
  /\ UNCHANGED <<brokerVars, event, ready>>

\* The hook goes on after its await.  amqplib emits the events of all frames it
\* has read before that, so what the broker sent after the answer may have been
\* handled by now.
setConsuming ==
  /\ answered
  /\ answered' = FALSE
  /\ ready' = TRUE
  /\ UNCHANGED <<brokerVars, hook, consuming, event>>

\* The broker closes the channel, or cancels the consumer, while the
\* connection stays up: a delivery that took too long, a queue that moved.
ConsumerLost ==
  /\ consuming /\ Fault
  /\ consuming' = FALSE
  /\ event' = TRUE
  /\ UNCHANGED <<up, declared, hook, answered, ready>>

\* Mutant: the empty message that announces a cancellation is skipped.
ConsumerEventSkipped ==
  /\ event
  /\ event' = FALSE
  /\ UNCHANGED <<brokerVars, hook, consuming, answered, ready>>

\* 'close', 'error' or the empty message: setConsuming(false), nothing else.
ConsumerEvent ==
  /\ event
  /\ event' = FALSE
  /\ ready' = FALSE
  /\ UNCHANGED <<brokerVars, hook, consuming, answered>>

ConsumerStep ==
  \/ ConnectWorker \/ createChannel \/ declareTopology \/ consume \/ setConsuming
  \/ ConsumerLost \/ ConsumerEvent \/ Disconnected \/ shutdown

-----------------------------------------------------------------------------
(* Properties                                                              *)

\* The gauge is up if the broker has the consumer, but for what the process has
\* not heard or not acted upon yet.
GaugeIsRight ==
  /\ ready => consuming \/ event
  /\ consuming => ready \/ answered

\* A connected worker that is ready consumes, or is about to hear that it does
\* not: the comment on the hook wants no "silent zombie".  The code breaks it in
\* the turn between the answer and setConsuming(true).
NoSilentZombie == hook = "done" /\ ready => consuming \/ event

\* That turn is the only way to a wrong gauge: whatever the broker, the
\* connection and the consumer go through otherwise, and in whatever order the
\* process hears of it, the gauge follows the consumer.
GaugeFollowsConsumer ==
  [][GaugeIsRight => GaugeIsRight' \/ (answered /\ ~answered')]_consumerVars

=============================================================================
