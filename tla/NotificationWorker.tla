------------------------- MODULE NotificationWorker -------------------------
(***************************************************************************)
(* workers/notifications: each slot handles one delivery at a time (a      *)
(* worker process has up to PREFETCH of them).  The idempotency marker and *)
(* the notifications are written in one transaction, the acknowledgement   *)
(* comes after it, and the channel may be lost at any moment: the broker   *)
(* then redelivers the message while the old handler is still running.     *)
(***************************************************************************)
EXTENDS NotificationQueue

CONSTANTS Slots  \* deliveries the workers may handle at once

VARIABLES
  slot,          \* the delivery in each slot, and whether its channel is open
  processed,     \* processed_events: events whose handling is committed
  notifications  \* notifications rows written for an event and a user

workerVars == <<slot, processed, notifications>>

NoMessage == <<0, 0>>

EmptySlot == [pc |-> "idle", msg |-> NoMessage, attached |-> FALSE]

EventOf(s) == slot[s].msg[1]

WorkerInit ==
  /\ slot = [s \in Slots |-> EmptySlot]
  /\ processed = {}
  /\ notifications = [e \in Events |-> [u \in Users |-> 0]]

WorkerTypeOK ==
  /\ slot \in [Slots -> [pc : {"idle", "received", "inserted", "handled"},
                         msg : Messages \cup {NoMessage},
                         attached : BOOLEAN]]
  /\ processed \in SUBSET Events
  /\ notifications \in [Events -> [Users -> Nat]]

\* Mutant: the consumer is registered without manual acknowledgement.
DeliverAutoAck(s, m) ==
  /\ slot[s].pc = "idle"
  /\ place[m] = "ready"
  /\ place' = [place EXCEPT ![m] = "acked"]
  /\ slot' = [slot EXCEPT ![s] = [pc |-> "received", msg |-> m, attached |-> FALSE]]
  /\ UNCHANGED <<processed, notifications, returns, faults>>

Deliver(s, m) ==
  /\ slot[s].pc = "idle"
  /\ place[m] = "ready"
  /\ place' = [place EXCEPT ![m] = "unacked"]
  /\ slot' = [slot EXCEPT ![s] = [pc |-> "received", msg |-> m, attached |-> TRUE]]
  /\ UNCHANGED <<processed, notifications, returns, faults>>

\* The uncommitted row of another handler makes this INSERT wait for it.
KeyHeld(s) ==
  \E z \in Slots \ {s} : slot[z].pc = "inserted" /\ EventOf(z) = EventOf(s)

\* Mutant: processed_events has no primary key, so the INSERT waits for nobody.
InsertWithoutKey(s) ==
  /\ slot[s].pc = "received"
  /\ EventOf(s) \notin processed
  /\ slot' = [slot EXCEPT ![s].pc = "inserted"]
  /\ UNCHANGED <<processed, notifications, queueVars, faults>>

\* INSERT INTO processed_events.
InsertProcessed(s) ==
  /\ slot[s].pc = "received"
  /\ EventOf(s) \notin processed
  /\ ~KeyHeld(s)
  /\ slot' = [slot EXCEPT ![s].pc = "inserted"]
  /\ UNCHANGED <<processed, notifications, queueVars, faults>>

\* ER_DUP_ENTRY: a redelivery, or another copy of the event.
FindDuplicate(s) ==
  /\ slot[s].pc = "received"
  /\ EventOf(s) \in processed
  /\ slot' = [slot EXCEPT ![s].pc = "handled"]
  /\ UNCHANGED <<processed, notifications, queueVars, faults>>

Recipients(e) == audience[outbox[e]]

\* One notification per member as of now, and COMMIT.
Apply(e) ==
  /\ processed' = processed \cup {e}
  /\ notifications' = [notifications EXCEPT ![e] =
       [u \in Users |-> @[u] + (IF u \in Recipients(e) THEN 1 ELSE 0)]]

CommitHandler(s) ==
  /\ slot[s].pc = "inserted"
  /\ Apply(EventOf(s))
  /\ slot' = [slot EXCEPT ![s].pc = "handled"]
  /\ UNCHANGED <<queueVars, faults>>

\* On a closed channel the acknowledgement throws and is only logged.
Acknowledge(s) ==
  /\ slot[s].pc = "handled"
  /\ IF slot[s].attached
       THEN place' = [place EXCEPT ![slot[s].msg] = "acked"]
       ELSE UNCHANGED place
  /\ slot' = [slot EXCEPT ![s] = EmptySlot]
  /\ UNCHANGED <<processed, notifications, returns, faults>>

\* Mutant: a failed delivery is neither acknowledged nor returned.
ReleaseSilently(s) ==
  /\ slot' = [slot EXCEPT ![s] = EmptySlot]
  /\ UNCHANGED queueVars

\* What the broker does with a delivery its slot gives up.
Release(s) ==
  /\ IF slot[s].attached THEN GiveBack(slot[s].msg) ELSE UNCHANGED queueVars
  /\ slot' = [slot EXCEPT ![s] = EmptySlot]

\* The handler throws, its transaction is rolled back, nack with requeue.
HandlerThrows(s) ==
  /\ slot[s].pc \in {"received", "inserted"}
  /\ Fault
  /\ Release(s)
  /\ UNCHANGED <<processed, notifications>>

\* The COMMIT happened but its answer was lost: nack with requeue as well.
CommitAnswerLost(s) ==
  /\ slot[s].pc = "inserted"
  /\ Fault
  /\ Apply(EventOf(s))
  /\ Release(s)

\* The connection drops while the handler keeps running.
ChannelLost(s) ==
  /\ slot[s].pc # "idle"
  /\ slot[s].attached
  /\ Fault
  /\ GiveBack(slot[s].msg)
  /\ slot' = [slot EXCEPT ![s].attached = FALSE]
  /\ UNCHANGED <<processed, notifications>>

\* The process dies or shuts down, with or without an open channel.
WorkerDies(s) ==
  /\ slot[s].pc # "idle"
  /\ Fault
  /\ Release(s)
  /\ UNCHANGED <<processed, notifications>>

SlotStep(s) ==
  \/ \E m \in Messages : Deliver(s, m)
  \/ InsertProcessed(s) \/ FindDuplicate(s) \/ CommitHandler(s) \/ Acknowledge(s)
  \/ HandlerThrows(s) \/ CommitAnswerLost(s) \/ ChannelLost(s) \/ WorkerDies(s)

-----------------------------------------------------------------------------

\* A member gets at most one notification of an event, and only with the
\* marker that stops the next copy, however often the event is published,
\* redelivered or handled by two slots at once.
NotifiedAtMostOnce ==
  \A e \in Events, u \in Users :
    notifications[e][u] <= (IF e \in processed THEN 1 ELSE 0)

\* A delivery is acknowledged only when its event is committed as processed,
\* so an acknowledgement never loses an event.
AckedOnlyIfProcessed ==
  \A m \in Messages : place[m] = "acked" => m[1] \in processed

=============================================================================
