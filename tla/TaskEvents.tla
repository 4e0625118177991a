----------------------------- MODULE TaskEvents -----------------------------
(***************************************************************************)
(* The whole path of a completion: the API requests of TaskUpdates, the    *)
(* relays of OutboxRelay, the queue of NotificationQueue and the handlers  *)
(* of NotificationWorker, interleaved and failing independently.           *)
(***************************************************************************)
EXTENDS OutboxRelay, NotificationWorker

vars == <<updateVars, queueVars, faults, relayVars, workerVars>>

Init == UpdInit /\ QueueInit /\ RelayInit /\ WorkerInit

Api    == UpdNext /\ UNCHANGED <<queueVars, faults, relayVars, workerVars>>
Relay  == \E i \in Relays : RelayStep(i) /\ UNCHANGED <<updateVars, workerVars>>
Worker == \E s \in Slots : SlotStep(s) /\ UNCHANGED <<updateVars, relayVars>>

Next == Api \/ Relay \/ Worker

Spec == Init /\ [][Next]_vars

(***************************************************************************)
(* A relay reschedules itself after every tick, whatever its outcome, and  *)
(* the broker pushes a ready message to a consumer with a free slot; a     *)
(* handler runs to its acknowledgement unless something fails.  Requests   *)
(* are not fair: users may do nothing.                                     *)
(***************************************************************************)
Fairness ==
  /\ \A i \in Relays :
       WF_vars(/\ \/ ClaimBatch(i) \/ PublishConfirmed(i)
                  \/ MarkPublished(i) \/ MarkFails(i)
               /\ UNCHANGED <<updateVars, workerVars>>)
  /\ \A s \in Slots :
       WF_vars(/\ \/ \E m \in Messages : Deliver(s, m)
                  \/ InsertProcessed(s) \/ FindDuplicate(s)
                  \/ CommitHandler(s) \/ Acknowledge(s)
               /\ UNCHANGED <<updateVars, relayVars>>)

FairSpec == Spec /\ Fairness

-----------------------------------------------------------------------------

TypeOK == UpdTypeOK /\ QueueTypeOK /\ RelayTypeOK /\ WorkerTypeOK

\* An event marked published is still with the broker, in the dead-letter
\* queue, or applied: no crash, timeout, lost confirmation or redelivery makes
\* a committed completion disappear.
NoEventLost ==
  \A e \in published :
    \/ e \in processed
    \/ \E c \in Copies : place[<<e, c>>] \in {"ready", "unacked", "dead"}

Settled(e) ==
  \/ e \in processed
  \/ e \in published /\ \A c \in CopiesOf(e) : place[<<e, c>>] = "dead"

\* Once failures stop, every committed completion is applied or dead-lettered.
EveryEventSettles == \A e \in Events : (e \in Recorded) ~> Settled(e)

\* Once failures stop, the relays empty the outbox, whichever of them holds
\* the row when one of them dies.
OutboxDrains == \A e \in Events : (e \in Recorded) ~> (e \in published)

-----------------------------------------------------------------------------

FeedState(e) ==
  IF outbox[e] = NoTask THEN "none"
  ELSE IF e \in processed THEN "applied"
  ELSE IF Settled(e) THEN "dead"
  ELSE "pending"

TaskState(t) ==
  IF row[t].life = "unborn" THEN "unborn"
  ELSE IF row[t].life = "deleted" THEN "gone"
  ELSE IF row[t].completed THEN "done" ELSE "open"

Feed == INSTANCE CompletionFeed WITH
  state <- [t \in Tasks |-> TaskState(t)],
  feed  <- [e \in Events |-> FeedState(e)]

\* The pipeline implements the abstract feed.
ImplementsFeed == Feed!FeedSpec

=============================================================================
