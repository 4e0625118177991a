-------------------------- MODULE TaskEvents_proofs --------------------------
(***************************************************************************)
(* Proofs about the whole pipeline, for any number of tasks, users,        *)
(* requests, relays, slots, events and failures.  PipeInv joins the        *)
(* invariant of the task repository with what the relays and the workers   *)
(* maintain about the queue between them.                                  *)
(*                                                                         *)
(* Two invariants of their own stand on it.  CopiesPaidFor counts, for     *)
(* every event, the copies at the broker and those still to come.          *)
(* OnlyRecordedTravels says that an event is nowhere before its commit,    *)
(* which is what the refinement of CompletionFeed needs at that commit.    *)
(***************************************************************************)
EXTENDS TaskEvents, TaskUpdates_proofs, FiniteSetTheorems

\* A row a relay counts as confirmed, or that is marked published, has reached
\* the broker at least once.
ConfirmedReachedBroker ==
  /\ \A i \in Relays : relay[i].sent \subseteq relay[i].claimed
  /\ \A i \in Relays : \A e \in relay[i].sent : CopiesOf(e) # {}
  /\ \A e \in published : CopiesOf(e) # {}

\* The broker's view of a delivery and the slot's view of it agree.
DeliveriesAgree ==
  /\ \A s \in Slots : slot[s].pc # "idle" => slot[s].msg \in Messages
  /\ \A s \in Slots : slot[s].attached =>
       /\ slot[s].pc # "idle"
       /\ place[slot[s].msg] = "unacked"
       /\ \A z \in Slots \ {s} : slot[z].attached => slot[z].msg # slot[s].msg
  /\ \A m \in Messages : place[m] # "dead" => returns[m] <= DeliveryLimit

\* The uncommitted marker is held by one slot, for an event not yet processed;
\* a slot is done with an event only once it is.
MarkersAgree ==
  \A s \in Slots :
    /\ slot[s].pc = "inserted" => /\ EventOf(s) \notin processed
                                  /\ ~KeyHeld(s)
    /\ slot[s].pc = "handled" => EventOf(s) \in processed

RollbacksCounted == \A e \in Events : rollbacks[e] <= faults

PipeInv ==
  /\ UpdInv
  /\ QueueTypeOK
  /\ RelayTypeOK
  /\ WorkerTypeOK
  /\ RollbacksCounted
  /\ ClaimsAreExclusive
  /\ ConfirmedReachedBroker
  /\ DeliveriesAgree
  /\ AckedOnlyIfProcessed
  /\ MarkersAgree
  /\ NotifiedAtMostOnce

\* What the relays touch, and what the workers touch.
RelayInv == RelayTypeOK /\ RollbacksCounted /\ ClaimsAreExclusive /\ ConfirmedReachedBroker
WorkerInv == WorkerTypeOK /\ DeliveriesAgree /\ AckedOnlyIfProcessed /\ MarkersAgree
               /\ NotifiedAtMostOnce

\* Relays that lost their transaction and still have to send the event.
Late(e) == {i \in cut : e \in relay[i].claimed \ relay[i].sent}

\* One copy needs no rollback: the one of the transaction that holds the row,
\* or that marked it.
Covered(e) == e \in published \/ \E i \in Relays : e \in Locked(i) \cap relay[i].sent

\* Every other copy the broker got, or is still going to get from a relay
\* without locks, belongs to a rollback of its own.
CopiesPaidFor ==
  /\ IsFiniteSet(cut)
  /\ \A e \in Events :
       Cardinality(CopiesOf(e)) + Cardinality(Late(e)) <= rollbacks[e] + (IF Covered(e) THEN 1 ELSE 0)

\* Nothing travels, and nothing is applied, that was not committed.
OnlyRecordedTravels ==
  /\ processed \subseteq Recorded
  /\ published \subseteq Recorded
  /\ \A i \in Relays : relay[i].claimed \subseteq Recorded
  /\ \A m \in Messages : place[m] # "unsent" => m[1] \in Recorded
  /\ \A s \in Slots : slot[s].pc # "idle" => EventOf(s) \in Recorded

USE TaskUpdatesAssumption, NotificationQueueAssumption, OutboxRelayAssumption

-----------------------------------------------------------------------------

LEMMA CopyIsMessage ==
  ASSUME NEW e \in Events, NEW c \in Copies
  PROVE  <<e, c>> \in Messages /\ <<e, c>>[1] = e
  BY DEF Messages

LEMMA MessageIsCopy ==
  ASSUME NEW m \in Messages
  PROVE  m[1] \in Events /\ m[2] \in Copies /\ m = <<m[1], m[2]>>
  BY DEF Messages

LEMMA NoMessageIsNone == NoMessage \notin Messages
  BY DEF NoMessage, Messages, Events, Copies

\* Publishing turns one unsent copy of the event into a ready one.
LEMMA EnqueueStep ==
  ASSUME QueueTypeOK, NEW e \in Events, Enqueue(e)
  PROVE  \E c \in Copies : /\ place[<<e, c>>] = "unsent"
                           /\ place' = [place EXCEPT ![<<e, c>>] = "ready"]
                           /\ UNCHANGED returns
<1> PICK c \in Copies : /\ CopiesOf(e) = 1..c - 1
                        /\ place' = [place EXCEPT ![<<e, c>>] = "ready"]
                        /\ UNCHANGED returns
  BY DEF Enqueue
<1>1. c \notin CopiesOf(e)
  BY DEF Copies
<1> QED BY <1>1 DEF CopiesOf

\* A redelivered copy stays in the broker: ready again or dead-lettered.
LEMMA GiveBackStep ==
  ASSUME QueueTypeOK, NEW m \in Messages, GiveBack(m), returns[m] <= DeliveryLimit
  PROVE  /\ place' \in [Messages -> Places]
         /\ returns' \in [Messages -> 0..DeliveryLimit + 1]
         /\ \A x \in Messages \ {m} : place'[x] = place[x] /\ returns'[x] = returns[x]
         /\ place'[m] \in {"ready", "dead"}
         /\ place'[m] # "dead" => returns'[m] <= DeliveryLimit
<1>1. returns[m] + 1 \in 0..DeliveryLimit + 1
  BY DEF QueueTypeOK
<1>2. returns' = [returns EXCEPT ![m] = returns[m] + 1]
  BY DEF GiveBack
<1>3. returns' \in [Messages -> 0..DeliveryLimit + 1]
  BY <1>1, <1>2 DEF QueueTypeOK
<1>4. \A x \in Messages \ {m} : place'[x] = place[x] /\ returns'[x] = returns[x]
  BY DEF QueueTypeOK, GiveBack
<1>5. place' \in [Messages -> Places] /\ place'[m] \in {"ready", "dead"}
  BY DEF QueueTypeOK, GiveBack, Places
<1>6. place'[m] # "dead" => returns'[m] <= DeliveryLimit
  BY <1>1 DEF QueueTypeOK, GiveBack
<1> QED BY <1>3, <1>4, <1>5, <1>6

LEMMA CopiesKept ==
  ASSUME \A m \in Messages : place[m] # "unsent" => place'[m] # "unsent"
  PROVE  \A e \in Events : CopiesOf(e) \subseteq CopiesOf(e)'
  BY CopyIsMessage DEF CopiesOf

-----------------------------------------------------------------------------
(* The API: it only adds committed rows to the outbox. *)

LEMMA RecordedGrows == UpdInv /\ [UpdNext]_updateVars => Recorded \subseteq Recorded'
<1> SUFFICES ASSUME UpdInv, [UpdNext]_updateVars PROVE Recorded \subseteq Recorded'
  OBVIOUS
<1>1. ASSUME NEW r \in Requests, Commit(r) PROVE Recorded \subseteq Recorded'
  BY <1>1 DEF Commit, UpdInv, ReadIsCurrent, Recorded
<1>2. CASE UNCHANGED outbox
  BY <1>2 DEF Recorded
<1> QED
  BY <1>1, <1>2 DEF UpdNext, updateVars, Create, SelectForUpdate, WriteRow, Rollback, Remove,
                    ChangeAudience, ChangeOwner

LEMMA ApiStep ==
  ASSUME PipeInv, [UpdNext]_updateVars, UNCHANGED <<queueVars, faults, relayVars, workerVars>>
  PROVE  PipeInv'
<1> USE DEF queueVars, relayVars, workerVars
<1>1. UpdInv'
  BY UpdInvStep DEF PipeInv
<1>2. QueueTypeOK' /\ RelayTypeOK' /\ WorkerTypeOK' /\ RollbacksCounted'
  BY DEF PipeInv, QueueTypeOK, RelayTypeOK, WorkerTypeOK, RollbacksCounted
<1>3. ClaimsAreExclusive'
  BY RecordedGrows DEF PipeInv, ClaimsAreExclusive, Locked
<1>4. ConfirmedReachedBroker'
  BY DEF PipeInv, ConfirmedReachedBroker, CopiesOf
<1>5. DeliveriesAgree' /\ AckedOnlyIfProcessed'
  BY DEF PipeInv, DeliveriesAgree, AckedOnlyIfProcessed
<1>6. MarkersAgree' /\ NotifiedAtMostOnce'
  BY DEF PipeInv, MarkersAgree, NotifiedAtMostOnce, EventOf, KeyHeld
<1> QED BY <1>1, <1>2, <1>3, <1>4, <1>5, <1>6 DEF PipeInv

-----------------------------------------------------------------------------
(* The relays: they send copies, and mark rows they sent. *)

\* A relay step either leaves the queue alone or makes one unsent copy ready.
RelayTouchesQueue ==
  \/ UNCHANGED queueVars
  \/ \E m \in Messages : /\ place[m] = "unsent"
                         /\ place' = [place EXCEPT ![m] = "ready"]
                         /\ UNCHANGED returns

LEMMA EnqueueTouchesQueue ==
  ASSUME QueueTypeOK, NEW e \in Events, Enqueue(e)
  PROVE  RelayTouchesQueue /\ CopiesOf(e)' # {}
<1> PICK c \in Copies : /\ place[<<e, c>>] = "unsent"
                        /\ place' = [place EXCEPT ![<<e, c>>] = "ready"]
                        /\ UNCHANGED returns
  BY EnqueueStep
<1>1. <<e, c>> \in Messages
  BY CopyIsMessage
<1>2. c \in CopiesOf(e)'
  BY <1>1 DEF CopiesOf, QueueTypeOK
<1> QED BY <1>1, <1>2 DEF RelayTouchesQueue

LEMMA QueueGrows ==
  ASSUME QueueTypeOK, WorkerInv, RelayTouchesQueue, UNCHANGED workerVars
  PROVE  /\ place' \in [Messages -> Places] /\ returns' \in [Messages -> 0..DeliveryLimit + 1]
         /\ WorkerInv'
         /\ \A e \in Events : CopiesOf(e) \subseteq CopiesOf(e)'
<1>1. CASE UNCHANGED queueVars
  <2>1. WorkerInv'
    BY <1>1 DEF queueVars, workerVars, WorkerInv, WorkerTypeOK, DeliveriesAgree,
                AckedOnlyIfProcessed, MarkersAgree, NotifiedAtMostOnce, EventOf, KeyHeld
  <2> QED BY <1>1, <2>1 DEF queueVars, QueueTypeOK, CopiesOf
<1>2. ASSUME NEW m \in Messages, place[m] = "unsent",
             place' = [place EXCEPT ![m] = "ready"], UNCHANGED returns
      PROVE  /\ place' \in [Messages -> Places] /\ returns' \in [Messages -> 0..DeliveryLimit + 1]
             /\ WorkerInv'
             /\ \A e \in Events : CopiesOf(e) \subseteq CopiesOf(e)'
  <2>1. place' \in [Messages -> Places] /\ returns' \in [Messages -> 0..DeliveryLimit + 1]
    BY <1>2 DEF QueueTypeOK, Places
  <2>2. \A x \in Messages : place[x] # "unsent" => place'[x] = place[x]
    BY <1>2 DEF QueueTypeOK
  <2>3. DeliveriesAgree'
    BY <1>2, <2>2 DEF workerVars, WorkerInv, DeliveriesAgree, QueueTypeOK
  <2>4. AckedOnlyIfProcessed'
    BY <1>2 DEF workerVars, WorkerInv, AckedOnlyIfProcessed, QueueTypeOK
  <2>5. WorkerTypeOK' /\ MarkersAgree' /\ NotifiedAtMostOnce'
    BY DEF workerVars, WorkerInv, WorkerTypeOK, MarkersAgree, NotifiedAtMostOnce, EventOf, KeyHeld
  <2>6. \A e \in Events : CopiesOf(e) \subseteq CopiesOf(e)'
    BY <2>2, CopiesKept
  <2> QED BY <2>1, <2>3, <2>4, <2>5, <2>6 DEF WorkerInv
<1> QED BY <1>1, <1>2 DEF RelayTouchesQueue

\* A rolled-back transaction counts against the failures.
LEMMA RollBacksStayCounted ==
  ASSUME PipeInv, NEW i \in Relays, Fault, CountRollBack(i)
  PROVE  /\ faults' \in 0..MaxFaults
         /\ rollbacks' \in [Events -> 0..MaxFaults]
         /\ \A e \in Events : rollbacks'[e] <= faults'
<1>1. /\ faults \in 0..MaxFaults /\ faults' = faults + 1 /\ faults' \in 0..MaxFaults
      /\ \A e \in Events : rollbacks[e] \in 0..MaxFaults /\ rollbacks[e] <= faults
  BY DEF Fault, PipeInv, QueueTypeOK, RelayTypeOK, RollbacksCounted
<1>2. rollbacks' = [e \in Events |-> rollbacks[e] + (IF e \in Locked(i) THEN 1 ELSE 0)]
  BY DEF CountRollBack
<1>3. \A e \in Events : rollbacks'[e] \in 0..MaxFaults /\ rollbacks'[e] <= faults'
  BY <1>1, <1>2
<1> QED BY <1>1, <1>2, <1>3

\* Giving locks up, and marking nothing, disturbs no other relay.
LEMMA FewerLocks ==
  ASSUME PipeInv, UNCHANGED <<published, updateVars>>,
         \A j \in Relays : Locked(j)' \subseteq Locked(j)
  PROVE  ClaimsAreExclusive'
<1>1. Recorded' = Recorded
  BY DEF updateVars, Recorded
<1>2. \A j \in Relays : Locked(j) \subseteq Recorded \ published
  BY DEF PipeInv, ClaimsAreExclusive
<1>3. \A j \in Relays : \A k \in Relays \ {j} : Locked(j) \cap Locked(k) = {}
  BY DEF PipeInv, ClaimsAreExclusive
<1> QED BY <1>1, <1>2, <1>3 DEF ClaimsAreExclusive

\* A relay that forgets its tick.
LEMMA EndOfTick ==
  ASSUME PipeInv, NEW i \in Relays,
         relay' = [relay EXCEPT ![i] = NoTick], cut' = cut \ {i}
  PROVE  /\ relay'[i].claimed = {} /\ relay'[i].sent = {}
         /\ \A j \in Relays \ {i} : relay'[j] = relay[j] /\ Locked(j)' = Locked(j)
         /\ Locked(i)' = {}
         /\ relay' \in [Relays -> [claimed : SUBSET Events, sent : SUBSET Events]]
         /\ cut' \subseteq {j \in Relays : relay'[j].claimed # {}}
<1>1. relay \in [Relays -> [claimed : SUBSET Events, sent : SUBSET Events]]
  BY DEF PipeInv, RelayTypeOK
<1>2. /\ relay'[i] = NoTick
      /\ \A j \in Relays \ {i} : relay'[j] = relay[j]
      /\ relay' \in [Relays -> [claimed : SUBSET Events, sent : SUBSET Events]]
  BY <1>1 DEF NoTick
<1>3. cut \subseteq {j \in Relays : relay[j].claimed # {}}
  BY DEF PipeInv, RelayTypeOK
<1> QED BY <1>2, <1>3 DEF NoTick, Locked

\* Undoing a tick forgets its claim.
LEMMA RollBackTickStep ==
  ASSUME PipeInv, NEW i \in Relays, RollBackTick(i), RelayTouchesQueue,
         UNCHANGED <<updateVars, workerVars>>
  PROVE  RelayInv' /\ faults' \in 0..MaxFaults
<1>0. /\ Fault /\ CountRollBack(i)
      /\ published' = published
      /\ relay' = [relay EXCEPT ![i] = NoTick] /\ cut' = cut \ {i}
  BY DEF RollBackTick
<1>1. RelayTypeOK' /\ RollbacksCounted' /\ faults' \in 0..MaxFaults
  BY <1>0, EndOfTick, RollBacksStayCounted DEF PipeInv, RelayTypeOK, RollbacksCounted
<1>2. ClaimsAreExclusive'
  <2>1. \A j \in Relays : Locked(j)' \subseteq Locked(j)
    BY <1>0, EndOfTick
  <2> QED BY <1>0, <2>1, FewerLocks
<1>3. \A e \in Events : CopiesOf(e) \subseteq CopiesOf(e)'
  BY QueueGrows DEF PipeInv, WorkerInv
<1>4. ConfirmedReachedBroker'
  <2>1. /\ \A j \in Relays : relay[j].sent \subseteq Events
        /\ published \subseteq Events
    BY DEF PipeInv, RelayTypeOK
  <2>2. \A j \in Relays : /\ relay'[j].sent \subseteq relay[j].sent
                          /\ relay'[j].sent \subseteq relay'[j].claimed
    BY <1>0, EndOfTick DEF PipeInv, ConfirmedReachedBroker
  <2> QED BY <1>0, <1>3, <2>1, <2>2 DEF PipeInv, ConfirmedReachedBroker
<1> QED BY <1>1, <1>2, <1>4 DEF RelayInv

LEMMA RelayStepInv ==
  ASSUME PipeInv, NEW i \in Relays, RelayStep(i), UNCHANGED <<updateVars, workerVars>>
  PROVE  QueueTypeOK' /\ RelayInv' /\ WorkerInv'
<1>0. /\ QueueTypeOK /\ WorkerInv /\ Recorded' = Recorded
      /\ \A j \in Relays : /\ relay[j].claimed \subseteq Events /\ relay[j].sent \subseteq Events
                           /\ Locked(j) \subseteq Recorded \ published
                           /\ relay[j].sent \subseteq relay[j].claimed
      /\ relay \in [Relays -> [claimed : SUBSET Events, sent : SUBSET Events]]
      /\ published \subseteq Events
      /\ cut \subseteq {j \in Relays : relay[j].claimed # {}}
  BY DEF PipeInv, WorkerInv, RelayTypeOK, ClaimsAreExclusive, ConfirmedReachedBroker,
         updateVars, Recorded
<1>1. CASE ClaimBatch(i)
  <2> DEFINE batch == LowestIds(Claimable(i), BatchSize)
  <2>1. /\ relay' = [relay EXCEPT ![i].claimed = batch]
        /\ relay[i].claimed = {} /\ relay[i].sent = {} /\ i \notin cut
        /\ UNCHANGED <<published, cut, rollbacks, queueVars, faults>>
    BY <1>0, <1>1 DEF ClaimBatch
  <2>2. batch \subseteq Claimable(i) /\ batch \subseteq Events
    BY DEF LowestIds, Claimable, Recorded
  <2>3. /\ relay'[i].claimed = batch /\ relay'[i].sent = {}
        /\ \A j \in Relays \ {i} : relay'[j] = relay[j]
        /\ relay' \in [Relays -> [claimed : SUBSET Events, sent : SUBSET Events]]
    BY <1>0, <2>1, <2>2
  <2>4. ClaimsAreExclusive'
    <3>1. Locked(i)' = batch /\ \A j \in Relays \ {i} : Locked(j)' = Locked(j)
      BY <2>1, <2>3 DEF Locked
    <3>2. /\ batch \subseteq Recorded \ published
          /\ \A j \in Relays \ {i} : batch \cap Locked(j) = {}
      BY <2>2 DEF Claimable
    <3>3. \A j \in Relays : \A k \in Relays \ {j} : Locked(j) \cap Locked(k) = {}
      BY DEF PipeInv, ClaimsAreExclusive
    <3> QED BY <1>0, <2>1, <3>1, <3>2, <3>3 DEF ClaimsAreExclusive
  <2>5. ConfirmedReachedBroker'
    BY <2>1, <2>3 DEF PipeInv, ConfirmedReachedBroker, queueVars, CopiesOf
  <2>6. RelayTypeOK' /\ RollbacksCounted'
    BY <2>1, <2>3 DEF PipeInv, RelayTypeOK, RollbacksCounted
  <2>7. QueueTypeOK' /\ WorkerInv'
    BY <1>0, <2>1, QueueGrows DEF RelayTouchesQueue, queueVars, QueueTypeOK
  <2> QED BY <2>4, <2>5, <2>6, <2>7 DEF RelayInv
<1>2. CASE PublishConfirmed(i)
  <2> PICK e \in Events : /\ IsNext(i, e)
                          /\ Enqueue(e)
                          /\ relay' = [relay EXCEPT ![i].sent = @ \cup {e}]
                          /\ UNCHANGED <<published, cut, rollbacks, faults>>
    BY <1>2 DEF PublishConfirmed
  <2>1. RelayTouchesQueue /\ CopiesOf(e)' # {}
    BY <1>0, EnqueueTouchesQueue
  <2>2. /\ place' \in [Messages -> Places] /\ returns' \in [Messages -> 0..DeliveryLimit + 1]
        /\ WorkerInv'
        /\ \A x \in Events : CopiesOf(x) \subseteq CopiesOf(x)'
    BY <1>0, <2>1, QueueGrows
  <2>3. /\ e \in relay[i].claimed
        /\ relay'[i].claimed = relay[i].claimed /\ relay'[i].sent = relay[i].sent \cup {e}
        /\ \A j \in Relays \ {i} : relay'[j] = relay[j]
        /\ relay' \in [Relays -> [claimed : SUBSET Events, sent : SUBSET Events]]
    BY <1>0 DEF IsNext
  <2>4. ClaimsAreExclusive'
    BY <1>0, <2>3, FewerLocks DEF Locked
  <2>5. ConfirmedReachedBroker'
    BY <1>0, <2>1, <2>2, <2>3 DEF PipeInv, ConfirmedReachedBroker
  <2>6. RelayTypeOK' /\ RollbacksCounted'
    BY <2>3 DEF PipeInv, RelayTypeOK, RollbacksCounted
  <2> QED BY <1>0, <2>2, <2>4, <2>5, <2>6 DEF RelayInv, QueueTypeOK
<1>3. CASE PublishFails(i)
  <2>1. RelayTouchesQueue
    BY <1>0, <1>3, EnqueueTouchesQueue DEF PublishFails, RelayTouchesQueue
  <2>2. RelayInv' /\ faults' \in 0..MaxFaults
    BY <1>3, <2>1, RollBackTickStep DEF PublishFails
  <2> QED BY <1>0, <2>1, <2>2, QueueGrows DEF QueueTypeOK
<1>4. CASE MarkPublished(i)
  <2>1. /\ relay' = [relay EXCEPT ![i] = NoTick]
        /\ published' = published \cup relay[i].claimed
        /\ relay[i].sent = relay[i].claimed /\ i \notin cut
        /\ UNCHANGED <<cut, rollbacks, queueVars, faults>>
    BY <1>4 DEF MarkPublished
  <2>2. /\ relay'[i].claimed = {} /\ relay'[i].sent = {} /\ Locked(i)' = {}
        /\ \A j \in Relays \ {i} : relay'[j] = relay[j] /\ Locked(j)' = Locked(j)
        /\ relay' \in [Relays -> [claimed : SUBSET Events, sent : SUBSET Events]]
        /\ cut' \subseteq {j \in Relays : relay'[j].claimed # {}}
    <3>1. cut' = cut \ {i}
      BY <2>1
    <3> QED BY <2>1, <3>1, EndOfTick
  <2>3. ClaimsAreExclusive'
    <3>1. Locked(i) = relay[i].claimed
      BY <2>1 DEF Locked
    <3>2. \A j \in Relays : \A k \in Relays \ {j} : Locked(j) \cap Locked(k) = {}
      BY DEF PipeInv, ClaimsAreExclusive
    <3> QED BY <1>0, <2>1, <2>2, <3>1, <3>2 DEF ClaimsAreExclusive
  <2>4. ConfirmedReachedBroker'
    BY <2>1, <2>2 DEF PipeInv, ConfirmedReachedBroker, queueVars, CopiesOf
  <2>5. RelayTypeOK' /\ RollbacksCounted'
    BY <1>0, <2>1, <2>2 DEF PipeInv, RelayTypeOK, RollbacksCounted
  <2>6. QueueTypeOK' /\ WorkerInv'
    BY <1>0, <2>1, QueueGrows DEF RelayTouchesQueue, queueVars, QueueTypeOK
  <2> QED BY <2>3, <2>4, <2>5, <2>6 DEF RelayInv
<1>5. CASE TickDies(i)
  <2>1. RelayTouchesQueue
    BY <1>5 DEF TickDies, RelayTouchesQueue
  <2>2. RelayInv' /\ faults' \in 0..MaxFaults
    BY <1>5, <2>1, RollBackTickStep DEF TickDies
  <2> QED BY <1>0, <2>1, <2>2, QueueGrows DEF QueueTypeOK
<1>6. CASE TransactionLost(i)
  <2>1. /\ relay[i].claimed # {} /\ Fault /\ cut' = cut \cup {i} /\ CountRollBack(i)
        /\ UNCHANGED <<published, relay, queueVars>>
    BY <1>6 DEF TransactionLost
  <2>2. RelayTypeOK' /\ RollbacksCounted' /\ faults' \in 0..MaxFaults
    BY <1>0, <2>1, RollBacksStayCounted DEF PipeInv, RelayTypeOK, RollbacksCounted
  <2>3. ClaimsAreExclusive'
    <3>1. \A j \in Relays : Locked(j)' \subseteq Locked(j)
      BY <2>1 DEF Locked
    <3> QED BY <2>1, <3>1, FewerLocks
  <2>4. ConfirmedReachedBroker'
    BY <2>1 DEF PipeInv, ConfirmedReachedBroker, queueVars, CopiesOf
  <2>5. QueueTypeOK' /\ WorkerInv'
    BY <1>0, <2>1, <2>2, QueueGrows DEF RelayTouchesQueue, queueVars, QueueTypeOK
  <2> QED BY <2>2, <2>3, <2>4, <2>5 DEF RelayInv
<1>7. CASE MarkFails(i)
  <2>1. /\ relay' = [relay EXCEPT ![i] = NoTick] /\ cut' = cut \ {i}
        /\ UNCHANGED <<published, rollbacks, queueVars, faults>>
    BY <1>7 DEF MarkFails
  <2>2. RelayTypeOK' /\ RollbacksCounted'
    BY <1>0, <2>1, EndOfTick DEF PipeInv, RelayTypeOK, RollbacksCounted
  <2>3. ClaimsAreExclusive'
    <3>1. \A j \in Relays : Locked(j)' \subseteq Locked(j)
      BY <2>1, EndOfTick
    <3> QED BY <2>1, <3>1, FewerLocks
  <2>4. ConfirmedReachedBroker'
    <3>1. \A e \in Events : CopiesOf(e)' = CopiesOf(e)
      BY <2>1 DEF queueVars, CopiesOf
    <3>2. \A j \in Relays : /\ relay'[j].sent \subseteq relay[j].sent
                            /\ relay'[j].sent \subseteq relay'[j].claimed
      BY <1>0, <2>1, EndOfTick
    <3> QED BY <1>0, <2>1, <3>1, <3>2 DEF PipeInv, ConfirmedReachedBroker
  <2>5. QueueTypeOK' /\ WorkerInv'
    BY <1>0, <2>1, QueueGrows DEF RelayTouchesQueue, queueVars, QueueTypeOK
  <2> QED BY <2>2, <2>3, <2>4, <2>5 DEF RelayInv
<1> QED BY <1>1, <1>2, <1>3, <1>4, <1>5, <1>6, <1>7 DEF RelayStep

-----------------------------------------------------------------------------
(* The workers: they move copies, and write notifications with the marker. *)

\* A worker step never turns a copy back into an unsent one.
LEMMA WorkerLeavesRelays ==
  ASSUME PipeInv, UNCHANGED <<updateVars, relayVars>>, faults' \in {faults, faults + 1},
         \A m \in Messages : place[m] # "unsent" => place'[m] # "unsent"
  PROVE  RelayInv'
<1>1. \A e \in Events : CopiesOf(e) \subseteq CopiesOf(e)'
  BY CopiesKept
<1>2. ConfirmedReachedBroker'
  BY <1>1 DEF PipeInv, RelayTypeOK, ConfirmedReachedBroker, relayVars
<1>3. RelayTypeOK' /\ ClaimsAreExclusive'
  BY DEF PipeInv, RelayTypeOK, ClaimsAreExclusive, Locked, relayVars, updateVars, Recorded
<1>4. RollbacksCounted'
  BY DEF PipeInv, RelayTypeOK, QueueTypeOK, RollbacksCounted, relayVars
<1> QED BY <1>2, <1>3, <1>4 DEF RelayInv

\* What the database part of a worker step may do: nothing, or apply the event
\* of a slot that holds its uncommitted marker.
LEMMA ApplyStep ==
  ASSUME PipeInv, NEW s \in Slots, slot[s].pc = "inserted", Apply(EventOf(s))
  PROVE  /\ processed' \in SUBSET Events /\ notifications' \in [Events -> [Users -> Nat]]
         /\ processed' = processed \cup {EventOf(s)}
         /\ NotifiedAtMostOnce'
         /\ \A z \in Slots \ {s} : slot[z].pc = "inserted" => EventOf(z) \notin processed'
<1> DEFINE e == EventOf(s)
<1>0. e \in Events /\ e \notin processed /\ ~KeyHeld(s)
  BY MessageIsCopy DEF PipeInv, DeliveriesAgree, MarkersAgree, EventOf
<1>1. processed' = processed \cup {e} /\ processed' \subseteq Events
  BY <1>0 DEF Apply, PipeInv, WorkerTypeOK
<1> DEFINE new == [u \in Users |-> notifications[e][u] + (IF u \in Recipients(e) THEN 1 ELSE 0)]
<1>2. notifications' = [notifications EXCEPT ![e] = new]
  BY DEF Apply
<1>3. new \in [Users -> Nat]
  BY <1>0 DEF PipeInv, WorkerTypeOK
<1>4. notifications' \in [Events -> [Users -> Nat]]
  BY <1>2, <1>3 DEF PipeInv, WorkerTypeOK
<1>5. NotifiedAtMostOnce'
  <2> SUFFICES ASSUME NEW x \in Events, NEW u \in Users
               PROVE  notifications'[x][u] <= (IF x \in processed' THEN 1 ELSE 0)
    BY DEF NotifiedAtMostOnce
  <2>1. notifications[x][u] \in Nat /\ notifications[x][u] <= (IF x \in processed THEN 1 ELSE 0)
    BY DEF PipeInv, WorkerTypeOK, NotifiedAtMostOnce
  <2>2. CASE x = e
    <3>1. notifications'[x][u] = notifications[e][u] + (IF u \in Recipients(e) THEN 1 ELSE 0)
      BY <1>2, <2>2, <1>0 DEF PipeInv, WorkerTypeOK
    <3> QED BY <1>0, <1>1, <2>1, <2>2, <3>1
  <2>3. CASE x # e
    <3>1. notifications'[x][u] = notifications[x][u]
      BY <1>2, <2>3 DEF PipeInv, WorkerTypeOK
    <3> QED BY <1>1, <2>1, <2>3, <3>1
  <2> QED BY <2>2, <2>3
<1>6. \A z \in Slots \ {s} : slot[z].pc = "inserted" => EventOf(z) \notin processed'
  BY <1>0, <1>1 DEF PipeInv, MarkersAgree, KeyHeld
<1> QED BY <1>1, <1>4, <1>5, <1>6

LEMMA ReleaseStep ==
  ASSUME PipeInv, NEW s \in Slots, slot[s].pc # "idle", Release(s)
  PROVE  /\ place' \in [Messages -> Places] /\ returns' \in [Messages -> 0..DeliveryLimit + 1]
         /\ \A m \in Messages : place[m] # "unsent" => place'[m] # "unsent"
         /\ \A m \in Messages : place'[m] = "acked" => place[m] = "acked"
         /\ slot' = [slot EXCEPT ![s] = EmptySlot]
         /\ DeliveriesAgree'
<1>0. /\ QueueTypeOK /\ slot[s].msg \in Messages /\ slot' = [slot EXCEPT ![s] = EmptySlot]
      /\ slot'[s] = EmptySlot /\ \A z \in Slots \ {s} : slot'[z] = slot[z]
  BY DEF PipeInv, WorkerTypeOK, DeliveriesAgree, Release
<1>1. CASE ~slot[s].attached
  <2>1. UNCHANGED queueVars
    BY <1>1 DEF Release
  <2>2. DeliveriesAgree'
    BY <1>0, <2>1 DEF PipeInv, DeliveriesAgree, EmptySlot, queueVars
  <2> QED BY <1>0, <2>1, <2>2 DEF queueVars, QueueTypeOK
<1>2. CASE slot[s].attached
  <2> DEFINE m == slot[s].msg
  <2>1. GiveBack(m) /\ place[m] = "unacked" /\ returns[m] <= DeliveryLimit
    BY <1>0, <1>2 DEF Release, PipeInv, DeliveriesAgree
  <2>2. /\ place' \in [Messages -> Places] /\ returns' \in [Messages -> 0..DeliveryLimit + 1]
        /\ \A x \in Messages \ {m} : place'[x] = place[x] /\ returns'[x] = returns[x]
        /\ place'[m] \in {"ready", "dead"}
        /\ place'[m] # "dead" => returns'[m] <= DeliveryLimit
    BY <1>0, <2>1, GiveBackStep
  <2>3. \A z \in Slots \ {s} : slot[z].attached => slot[z].msg \in Messages \ {m}
    BY <1>0, <1>2 DEF PipeInv, DeliveriesAgree
  <2>4. DeliveriesAgree'
    BY <1>0, <2>2, <2>3 DEF PipeInv, DeliveriesAgree, EmptySlot
  <2> QED BY <1>0, <2>2, <2>4
<1> QED BY <1>1, <1>2 DEF PipeInv, WorkerTypeOK

\* The parts of WorkerInv a slot keeps when it becomes empty.
LEMMA EmptyingStep ==
  ASSUME PipeInv, NEW s \in Slots, slot' = [slot EXCEPT ![s] = EmptySlot],
         processed' \in {processed, processed \cup {EventOf(s)}},
         \A z \in Slots \ {s} : slot[z].pc = "inserted" => EventOf(z) \notin processed'
  PROVE  /\ slot' \in [Slots -> [pc : {"idle", "received", "inserted", "handled"},
                                  msg : Messages \cup {NoMessage}, attached : BOOLEAN]]
         /\ MarkersAgree'
<1>1. slot'[s] = EmptySlot /\ \A z \in Slots \ {s} : slot'[z] = slot[z]
  BY DEF PipeInv, WorkerTypeOK
<1>2. slot' \in [Slots -> [pc : {"idle", "received", "inserted", "handled"},
                           msg : Messages \cup {NoMessage}, attached : BOOLEAN]]
  BY DEF PipeInv, WorkerTypeOK, EmptySlot
<1>3. MarkersAgree'
  BY <1>1 DEF PipeInv, MarkersAgree, EventOf, KeyHeld, EmptySlot
<1> QED BY <1>2, <1>3

LEMMA WorkerStepInv ==
  ASSUME PipeInv, NEW s \in Slots, SlotStep(s), UNCHANGED <<updateVars, relayVars>>
  PROVE  QueueTypeOK' /\ RelayInv' /\ WorkerInv'
<1> DEFINE Slot == [pc : {"idle", "received", "inserted", "handled"},
                    msg : Messages \cup {NoMessage}, attached : BOOLEAN]
<1>0. /\ QueueTypeOK /\ WorkerInv /\ slot \in [Slots -> Slot] /\ processed \subseteq Events
      /\ slot[s].pc # "idle" => slot[s].msg \in Messages
  BY DEF PipeInv, WorkerInv, WorkerTypeOK, DeliveriesAgree
<1>f. Fault => faults' \in 0..MaxFaults /\ faults' = faults + 1
  BY <1>0 DEF Fault, QueueTypeOK
<1>1. ASSUME NEW m \in Messages, Deliver(s, m)
      PROVE  QueueTypeOK' /\ RelayInv' /\ WorkerInv'
  <2> DEFINE new == [pc |-> "received", msg |-> m, attached |-> TRUE]
  <2>1. /\ slot[s].pc = "idle" /\ place[m] = "ready"
        /\ place' = [place EXCEPT ![m] = "unacked"]
        /\ slot' = [slot EXCEPT ![s] = new]
        /\ UNCHANGED <<processed, notifications, returns, faults>>
    BY <1>1 DEF Deliver
  <2>2. /\ slot'[s] = new /\ \A z \in Slots \ {s} : slot'[z] = slot[z]
        /\ place'[m] = "unacked" /\ \A x \in Messages \ {m} : place'[x] = place[x]
        /\ slot' \in [Slots -> Slot]
    BY <1>0, <2>1 DEF QueueTypeOK
  <2>3. QueueTypeOK'
    BY <1>0, <2>1 DEF QueueTypeOK, Places
  <2>4. RelayInv'
    BY <2>1, <2>2, WorkerLeavesRelays
  <2>5. DeliveriesAgree'
    BY <1>0, <2>1, <2>2 DEF WorkerInv, DeliveriesAgree
  <2>6. AckedOnlyIfProcessed' /\ NotifiedAtMostOnce'
    BY <2>1, <2>2 DEF PipeInv, AckedOnlyIfProcessed, NotifiedAtMostOnce
  <2>7. MarkersAgree'
    BY <2>1, <2>2 DEF PipeInv, MarkersAgree, EventOf, KeyHeld
  <2>8. WorkerTypeOK'
    BY <1>0, <2>1, <2>2 DEF WorkerInv, WorkerTypeOK
  <2> QED BY <2>3, <2>4, <2>5, <2>6, <2>7, <2>8 DEF WorkerInv
<1>2. CASE InsertProcessed(s)
  <2>1. /\ slot[s].pc = "received" /\ EventOf(s) \notin processed /\ ~KeyHeld(s)
        /\ slot'[s] = [slot[s] EXCEPT !.pc = "inserted"]
        /\ \A z \in Slots \ {s} : slot'[z] = slot[z]
        /\ slot' \in [Slots -> Slot]
        /\ UNCHANGED <<processed, notifications, queueVars, faults>>
    BY <1>0, <1>2 DEF InsertProcessed
  <2>2. MarkersAgree'
    BY <1>0, <2>1 DEF PipeInv, MarkersAgree, EventOf, KeyHeld
  <2>3. DeliveriesAgree'
    BY <1>0, <2>1 DEF WorkerInv, DeliveriesAgree, queueVars
  <2>4. QueueTypeOK' /\ RelayInv'
    BY <1>0, <2>1, WorkerLeavesRelays DEF queueVars, QueueTypeOK
  <2> QED BY <1>0, <2>1, <2>2, <2>3, <2>4
          DEF WorkerInv, WorkerTypeOK, AckedOnlyIfProcessed, NotifiedAtMostOnce, queueVars
<1>3. CASE FindDuplicate(s)
  <2>1. /\ slot[s].pc = "received" /\ EventOf(s) \in processed
        /\ slot'[s] = [slot[s] EXCEPT !.pc = "handled"]
        /\ \A z \in Slots \ {s} : slot'[z] = slot[z]
        /\ slot' \in [Slots -> Slot]
        /\ UNCHANGED <<processed, notifications, queueVars, faults>>
    BY <1>0, <1>3 DEF FindDuplicate
  <2>2. MarkersAgree'
    BY <1>0, <2>1 DEF PipeInv, MarkersAgree, EventOf, KeyHeld
  <2>3. DeliveriesAgree'
    BY <1>0, <2>1 DEF WorkerInv, DeliveriesAgree, queueVars
  <2>4. QueueTypeOK' /\ RelayInv'
    BY <1>0, <2>1, WorkerLeavesRelays DEF queueVars, QueueTypeOK
  <2> QED BY <1>0, <2>1, <2>2, <2>3, <2>4
          DEF WorkerInv, WorkerTypeOK, AckedOnlyIfProcessed, NotifiedAtMostOnce, queueVars
<1>4. CASE CommitHandler(s)
  <2>1. /\ slot[s].pc = "inserted" /\ Apply(EventOf(s))
        /\ slot'[s] = [slot[s] EXCEPT !.pc = "handled"]
        /\ \A z \in Slots \ {s} : slot'[z] = slot[z]
        /\ slot' \in [Slots -> Slot]
        /\ UNCHANGED <<queueVars, faults>>
    BY <1>0, <1>4 DEF CommitHandler
  <2>2. /\ processed' \in SUBSET Events /\ notifications' \in [Events -> [Users -> Nat]]
        /\ processed' = processed \cup {EventOf(s)}
        /\ NotifiedAtMostOnce'
        /\ \A z \in Slots \ {s} : slot[z].pc = "inserted" => EventOf(z) \notin processed'
    BY <2>1, ApplyStep
  <2>3. MarkersAgree'
    BY <1>0, <2>1, <2>2 DEF PipeInv, MarkersAgree, EventOf, KeyHeld
  <2>4. DeliveriesAgree'
    BY <1>0, <2>1 DEF WorkerInv, DeliveriesAgree, queueVars
  <2>5. QueueTypeOK' /\ RelayInv'
    BY <1>0, <2>1, WorkerLeavesRelays DEF queueVars, QueueTypeOK
  <2>6. AckedOnlyIfProcessed'
    BY <1>0, <2>1, <2>2 DEF WorkerInv, AckedOnlyIfProcessed, queueVars
  <2> QED BY <1>0, <2>1, <2>2, <2>3, <2>4, <2>5, <2>6 DEF WorkerInv, WorkerTypeOK
<1>5. CASE Acknowledge(s)
  <2> DEFINE m == slot[s].msg
  <2>1. /\ slot[s].pc = "handled" /\ m \in Messages /\ m[1] \in processed
        /\ slot' = [slot EXCEPT ![s] = EmptySlot]
        /\ slot'[s] = EmptySlot /\ \A z \in Slots \ {s} : slot'[z] = slot[z]
        /\ UNCHANGED <<processed, notifications, returns, faults>>
        /\ \/ ~slot[s].attached /\ place' = place
           \/ slot[s].attached /\ place' = [place EXCEPT ![m] = "acked"]
    BY <1>0, <1>5 DEF Acknowledge, PipeInv, MarkersAgree, EventOf
  <2>2. /\ place' \in [Messages -> Places]
        /\ \A x \in Messages : place'[x] # place[x] => x = m /\ slot[s].attached /\ place'[x] = "acked"
    BY <1>0, <2>1 DEF QueueTypeOK, Places
  <2>3. QueueTypeOK' /\ RelayInv'
    BY <1>0, <2>1, <2>2, WorkerLeavesRelays DEF QueueTypeOK
  <2>4. DeliveriesAgree'
    BY <1>0, <2>1, <2>2 DEF WorkerInv, DeliveriesAgree, EmptySlot
  <2>5. AckedOnlyIfProcessed' /\ NotifiedAtMostOnce'
    BY <2>1, <2>2 DEF PipeInv, AckedOnlyIfProcessed, NotifiedAtMostOnce
  <2>6. slot' \in [Slots -> Slot] /\ MarkersAgree'
    BY <2>1, EmptyingStep DEF PipeInv, MarkersAgree
  <2> QED BY <1>0, <2>1, <2>3, <2>4, <2>5, <2>6 DEF WorkerInv, WorkerTypeOK
<1>6. CASE HandlerThrows(s) \/ WorkerDies(s)
  <2>1. /\ slot[s].pc # "idle" /\ Release(s) /\ Fault /\ UNCHANGED <<processed, notifications>>
    BY <1>6 DEF HandlerThrows, WorkerDies
  <2>2. /\ place' \in [Messages -> Places] /\ returns' \in [Messages -> 0..DeliveryLimit + 1]
        /\ \A m \in Messages : place[m] # "unsent" => place'[m] # "unsent"
        /\ \A m \in Messages : place'[m] = "acked" => place[m] = "acked"
        /\ slot' = [slot EXCEPT ![s] = EmptySlot]
        /\ DeliveriesAgree'
    BY <2>1, ReleaseStep
  <2>3. QueueTypeOK' /\ RelayInv'
    BY <1>f, <2>1, <2>2, WorkerLeavesRelays DEF QueueTypeOK
  <2>4. slot' \in [Slots -> Slot] /\ MarkersAgree'
    BY <2>1, <2>2, EmptyingStep DEF PipeInv, MarkersAgree
  <2>5. AckedOnlyIfProcessed' /\ NotifiedAtMostOnce'
    BY <2>1, <2>2 DEF PipeInv, AckedOnlyIfProcessed, NotifiedAtMostOnce
  <2> QED BY <1>0, <2>1, <2>2, <2>3, <2>4, <2>5 DEF WorkerInv, WorkerTypeOK
<1>7. CASE CommitAnswerLost(s)
  <2>1. slot[s].pc = "inserted" /\ Release(s) /\ Fault /\ Apply(EventOf(s))
    BY <1>7 DEF CommitAnswerLost
  <2>2. /\ place' \in [Messages -> Places] /\ returns' \in [Messages -> 0..DeliveryLimit + 1]
        /\ \A m \in Messages : place[m] # "unsent" => place'[m] # "unsent"
        /\ \A m \in Messages : place'[m] = "acked" => place[m] = "acked"
        /\ slot' = [slot EXCEPT ![s] = EmptySlot]
        /\ DeliveriesAgree'
    BY <2>1, ReleaseStep
  <2>3. /\ processed' \in SUBSET Events /\ notifications' \in [Events -> [Users -> Nat]]
        /\ processed' = processed \cup {EventOf(s)}
        /\ NotifiedAtMostOnce'
        /\ \A z \in Slots \ {s} : slot[z].pc = "inserted" => EventOf(z) \notin processed'
    BY <2>1, ApplyStep
  <2>4. QueueTypeOK' /\ RelayInv'
    BY <1>f, <2>1, <2>2, WorkerLeavesRelays DEF QueueTypeOK
  <2>5. slot' \in [Slots -> Slot] /\ MarkersAgree'
    BY <2>2, <2>3, EmptyingStep
  <2>6. AckedOnlyIfProcessed'
    BY <2>2, <2>3 DEF PipeInv, AckedOnlyIfProcessed
  <2> QED BY <2>2, <2>3, <2>4, <2>5, <2>6 DEF WorkerInv, WorkerTypeOK
<1>8. CASE ChannelLost(s)
  <2> DEFINE m == slot[s].msg
  <2>1. /\ slot[s].pc # "idle" /\ slot[s].attached /\ Fault /\ m \in Messages
        /\ GiveBack(m) /\ place[m] = "unacked" /\ returns[m] <= DeliveryLimit
        /\ slot'[s] = [slot[s] EXCEPT !.attached = FALSE]
        /\ \A z \in Slots \ {s} : slot'[z] = slot[z]
        /\ slot' \in [Slots -> Slot]
        /\ UNCHANGED <<processed, notifications>>
    <3>1. slot[s].pc # "idle" /\ slot[s].attached /\ Fault /\ GiveBack(m)
      BY <1>8 DEF ChannelLost
    <3>2. m \in Messages /\ place[m] = "unacked" /\ returns[m] <= DeliveryLimit
      BY <3>1 DEF WorkerInv, PipeInv, DeliveriesAgree
    <3>3. UNCHANGED <<processed, notifications>> /\ slot' = [slot EXCEPT ![s].attached = FALSE]
      BY <1>8 DEF ChannelLost
    <3>4. /\ slot'[s] = [slot[s] EXCEPT !.attached = FALSE]
          /\ \A z \in Slots \ {s} : slot'[z] = slot[z]
          /\ slot' \in [Slots -> Slot]
      BY <1>0, <3>3
    <3> QED BY <3>1, <3>2, <3>3, <3>4
  <2>2. /\ place' \in [Messages -> Places] /\ returns' \in [Messages -> 0..DeliveryLimit + 1]
        /\ \A x \in Messages \ {m} : place'[x] = place[x] /\ returns'[x] = returns[x]
        /\ place'[m] \in {"ready", "dead"}
        /\ place'[m] # "dead" => returns'[m] <= DeliveryLimit
    BY <1>0, <2>1, GiveBackStep
  <2>3. QueueTypeOK' /\ RelayInv'
    BY <1>f, <2>1, <2>2, WorkerLeavesRelays DEF QueueTypeOK
  <2>4. DeliveriesAgree'
    <3>1. \A z \in Slots \ {s} : slot[z].attached => slot[z].msg \in Messages \ {m}
      BY <2>1 DEF PipeInv, DeliveriesAgree
    <3>2. /\ ~slot'[s].attached /\ slot'[s].msg = m
          /\ \A z \in Slots \ {s} : slot'[z] = slot[z]
      BY <1>0, <2>1 DEF WorkerInv, WorkerTypeOK
    <3>3. \A z \in Slots : slot'[z].pc # "idle" => slot'[z].msg \in Messages
      BY <2>1, <3>2 DEF PipeInv, DeliveriesAgree
    <3>4. \A z \in Slots : slot'[z].attached =>
            /\ slot'[z].pc # "idle"
            /\ place'[slot'[z].msg] = "unacked"
            /\ \A y \in Slots \ {z} : slot'[y].attached => slot'[y].msg # slot'[z].msg
      <4> TAKE z \in Slots
      <4> HAVE slot'[z].attached
      <4>1. z # s /\ slot'[z] = slot[z] /\ slot[z].attached
        BY <3>2
      <4>2. \A y \in Slots \ {z} : slot'[y].attached => y # s /\ slot'[y] = slot[y]
        BY <3>2
      <4> QED BY <2>2, <3>1, <4>1, <4>2 DEF PipeInv, DeliveriesAgree
    <3>5. \A x \in Messages : place'[x] # "dead" => returns'[x] <= DeliveryLimit
      BY <2>2 DEF PipeInv, DeliveriesAgree
    <3> QED BY <3>3, <3>4, <3>5 DEF DeliveriesAgree
  <2>5. AckedOnlyIfProcessed' /\ NotifiedAtMostOnce'
    BY <2>1, <2>2 DEF PipeInv, AckedOnlyIfProcessed, NotifiedAtMostOnce
  <2>6. MarkersAgree'
    <3>1. \A z \in Slots : slot'[z].pc = slot[z].pc /\ slot'[z].msg = slot[z].msg
      BY <1>0, <2>1
    <3>2. \A z \in Slots : EventOf(z)' = EventOf(z)
      BY <3>1 DEF EventOf
    <3>3. \A z \in Slots : KeyHeld(z)' = KeyHeld(z)
      BY <3>1, <3>2 DEF KeyHeld
    <3>4. processed' = processed
      BY <2>1
    <3> QED BY <3>1, <3>2, <3>3, <3>4 DEF PipeInv, MarkersAgree
  <2> QED BY <1>0, <2>1, <2>3, <2>4, <2>5, <2>6 DEF WorkerInv, WorkerTypeOK
<1> QED BY <1>1, <1>2, <1>3, <1>4, <1>5, <1>6, <1>7, <1>8 DEF SlotStep

-----------------------------------------------------------------------------

LEMMA PipeInit == Init => PipeInv
<1> SUFFICES ASSUME Init PROVE PipeInv
  OBVIOUS
<1>1. UpdInv
  BY UpdInitInv DEF Init
<1>2. QueueTypeOK
  BY DEF Init, QueueInit, QueueTypeOK, Places
<1>3. RelayInv
  BY DEF Init, RelayInit, QueueInit, RelayInv, RelayTypeOK, RollbacksCounted, ClaimsAreExclusive,
         Locked, ConfirmedReachedBroker, NoTick
<1>4. WorkerInv
  BY DEF Init, WorkerInit, QueueInit, WorkerInv, WorkerTypeOK, DeliveriesAgree,
         AckedOnlyIfProcessed, MarkersAgree, NotifiedAtMostOnce, EmptySlot
<1> QED BY <1>1, <1>2, <1>3, <1>4 DEF PipeInv, RelayInv, WorkerInv

LEMMA PipeStep == PipeInv /\ [Next]_vars => PipeInv'
<1> SUFFICES ASSUME PipeInv, [Next]_vars PROVE PipeInv'
  OBVIOUS
<1>1. CASE Api \/ UNCHANGED vars
  BY <1>1, ApiStep DEF Api, vars
<1>2. CASE Relay
  <2> PICK i \in Relays : RelayStep(i) /\ UNCHANGED <<updateVars, workerVars>>
    BY <1>2 DEF Relay
  <2>1. UpdInv'
    BY UpdInvStep DEF PipeInv
  <2> QED BY <2>1, RelayStepInv DEF PipeInv, RelayInv, WorkerInv
<1>3. CASE Worker
  <2> PICK s \in Slots : SlotStep(s) /\ UNCHANGED <<updateVars, relayVars>>
    BY <1>3 DEF Worker
  <2>1. UpdInv'
    BY UpdInvStep DEF PipeInv
  <2> QED BY <2>1, WorkerStepInv DEF PipeInv, RelayInv, WorkerInv
<1> QED BY <1>1, <1>2, <1>3 DEF Next

\* Every reachable state of the pipeline satisfies the invariant.
THEOREM PipeInvariance == Spec => []PipeInv
  BY PipeInit, PipeStep, PTL DEF Spec

\* Type correctness of the pipeline; in particular no copy is delivered again
\* once its returns exceed the delivery limit.
THEOREM TypeCorrect == Spec => []TypeOK
<1>1. PipeInv => TypeOK
  BY DEF PipeInv, UpdInv, TypeOK
<1> QED BY <1>1, PipeInvariance, PTL

\* SKIP LOCKED keeps the claims of any number of relays apart.
THEOREM ClaimsStayExclusive == Spec => []ClaimsAreExclusive
<1>1. PipeInv => ClaimsAreExclusive
  BY DEF PipeInv
<1> QED BY <1>1, PipeInvariance, PTL

\* However often an event is published or redelivered, each member gets at most
\* one notification of it.
THEOREM AtMostOneNotification == Spec => []NotifiedAtMostOnce
<1>1. PipeInv => NotifiedAtMostOnce
  BY DEF PipeInv
<1> QED BY <1>1, PipeInvariance, PTL

\* A published completion is never lost.
THEOREM PublishedNeverLost == Spec => []NoEventLost
<1>1. PipeInv => NoEventLost
  <2> SUFFICES ASSUME PipeInv, NEW e \in published, e \notin processed
               PROVE  \E c \in Copies : place[<<e, c>>] \in {"ready", "unacked", "dead"}
    BY DEF NoEventLost
  <2>1. e \in Events /\ CopiesOf(e) # {}
    BY DEF PipeInv, RelayTypeOK, ConfirmedReachedBroker
  <2> PICK c \in Copies : place[<<e, c>>] # "unsent"
    BY <2>1 DEF CopiesOf
  <2>2. <<e, c>> \in Messages /\ <<e, c>>[1] = e
    BY <2>1, CopyIsMessage
  <2>3. place[<<e, c>>] \in Places /\ place[<<e, c>>] # "acked"
    BY <2>2 DEF PipeInv, QueueTypeOK, AckedOnlyIfProcessed
  <2> QED BY <2>3 DEF Places
<1> QED BY <1>1, PipeInvariance, PTL

-----------------------------------------------------------------------------
(* The copies of an event: counting them. *)

LEMMA CopiesCount ==
  ASSUME NEW e \in Events
  PROVE  /\ IsFiniteSet(CopiesOf(e)) /\ Cardinality(CopiesOf(e)) \in Nat
         /\ Cardinality(CopiesOf(e)') \in Nat
<1>1. IsFiniteSet(Copies)
  BY FS_Interval DEF Copies
<1>2. CopiesOf(e) \in SUBSET Copies /\ CopiesOf(e)' \in SUBSET Copies
  BY DEF CopiesOf
<1> QED BY <1>1, <1>2, FS_Subset, FS_CardinalityType

LEMMA LateCount ==
  ASSUME NEW e \in Events, IsFiniteSet(cut)
  PROVE  IsFiniteSet(Late(e)) /\ Cardinality(Late(e)) \in Nat
<1>1. Late(e) \in SUBSET cut
  BY DEF Late
<1> QED BY <1>1, FS_Subset, FS_CardinalityType

LEMMA EnqueueAddsOne ==
  ASSUME QueueTypeOK, NEW d \in Events, Enqueue(d), NEW e \in Events
  PROVE  Cardinality(CopiesOf(e)') = Cardinality(CopiesOf(e)) + (IF e = d THEN 1 ELSE 0)
<1> PICK c \in Copies : /\ place[<<d, c>>] = "unsent"
                        /\ place' = [place EXCEPT ![<<d, c>>] = "ready"]
  BY EnqueueStep
<1>1. \A k \in Copies : place'[<<e, k>>] = IF e = d /\ k = c THEN "ready" ELSE place[<<e, k>>]
  BY CopyIsMessage DEF QueueTypeOK
<1>2. CopiesOf(e)' = IF e = d THEN CopiesOf(e) \cup {c} ELSE CopiesOf(e)
  BY <1>1 DEF CopiesOf
<1>3. e = d => c \notin CopiesOf(e)
  BY DEF CopiesOf
<1>4. IsFiniteSet(CopiesOf(e)) /\ Cardinality(CopiesOf(e)) \in Nat
  BY CopiesCount
<1>5. CASE e = d
  BY <1>2, <1>3, <1>4, <1>5, FS_AddElement
<1>6. CASE e # d
  BY <1>2, <1>4, <1>6
<1> QED BY <1>5, <1>6

\* While a transaction holds an event, nobody else does, and it is not marked.
LEMMA HolderCovers ==
  ASSUME PipeInv, NEW i \in Relays, NEW e \in Locked(i)
  PROVE  Covered(e) <=> e \in relay[i].sent
<1>1. e \notin published /\ \A j \in Relays \ {i} : e \notin Locked(j)
  BY DEF PipeInv, ClaimsAreExclusive
<1> QED BY <1>1 DEF Covered

\* A tick that ends without marking anything leaves its events to the others.
LEMMA EndUncovers ==
  ASSUME PipeInv, NEW i \in Relays, UNCHANGED published,
         relay' = [relay EXCEPT ![i] = NoTick], cut' = cut \ {i},
         NEW e \in Events
  PROVE  /\ Late(e)' = Late(e) \ {i}
         /\ Covered(e)' <=> Covered(e) /\ e \notin Locked(i)
<1>1. /\ Locked(i)' = {}
      /\ \A j \in Relays \ {i} : relay'[j] = relay[j] /\ Locked(j)' = Locked(j)
  BY EndOfTick
<1>2. cut \subseteq Relays
  BY DEF PipeInv, RelayTypeOK
<1>3. Late(e)' = Late(e) \ {i}
  BY <1>1, <1>2 DEF Late
<1>4. e \in Locked(i) => e \notin published /\ \A j \in Relays \ {i} : e \notin Locked(j)
  BY DEF PipeInv, ClaimsAreExclusive
<1>5. Covered(e)' <=> Covered(e) /\ e \notin Locked(i)
  BY <1>1, <1>4 DEF Covered
<1> QED BY <1>3, <1>5

\* A tick that is rolled back may have sent one event more than it confirmed.
LEMMA RollBackPays ==
  ASSUME PipeInv, CopiesPaidFor, NEW i \in Relays, RollBackTick(i),
         \A e \in Events :
           Cardinality(CopiesOf(e)') <= Cardinality(CopiesOf(e))
             + (IF e \in relay[i].claimed \ relay[i].sent THEN 1 ELSE 0)
  PROVE  CopiesPaidFor'
<1>0. /\ UNCHANGED published /\ cut' = cut \ {i} /\ relay' = [relay EXCEPT ![i] = NoTick]
      /\ rollbacks' = [e \in Events |-> rollbacks[e] + (IF e \in Locked(i) THEN 1 ELSE 0)]
  BY DEF RollBackTick, CountRollBack
<1>1. IsFiniteSet(cut) /\ IsFiniteSet(cut')
  BY <1>0, FS_RemoveElement DEF CopiesPaidFor
<1>2. ASSUME NEW e \in Events
      PROVE  Cardinality(CopiesOf(e)') + Cardinality(Late(e)')
               <= rollbacks'[e] + (IF Covered(e)' THEN 1 ELSE 0)
  <2> DEFINE n == Cardinality(CopiesOf(e))
             m == Cardinality(CopiesOf(e)')
             l == Cardinality(Late(e))
             k == Cardinality(Late(e)')
  <2>1. Late(e)' = Late(e) \ {i} /\ (Covered(e)' <=> Covered(e) /\ e \notin Locked(i))
    BY <1>0, EndUncovers
  <2>2. n \in Nat /\ l \in Nat /\ IsFiniteSet(Late(e)) /\ rollbacks[e] \in Nat
    BY <1>1, CopiesCount, LateCount DEF PipeInv, RelayTypeOK
  <2>3. m \in Nat
    BY CopiesCount
  <2>4. k = IF i \in Late(e) THEN l - 1 ELSE l
    BY <2>1, <2>2, FS_RemoveElement
  <2>5. m <= n + (IF e \in relay[i].claimed \ relay[i].sent THEN 1 ELSE 0)
    OBVIOUS
  <2>6. n + l <= rollbacks[e] + (IF Covered(e) THEN 1 ELSE 0)
    BY DEF CopiesPaidFor
  <2>7. rollbacks'[e] = rollbacks[e] + (IF e \in Locked(i) THEN 1 ELSE 0)
    BY <1>0
  <2> HIDE DEF n, m, l, k
  <2>8. CASE i \in cut
    <3>1. i \in Late(e) <=> e \in relay[i].claimed \ relay[i].sent
      BY <2>8 DEF Late
    <3>2. e \notin Locked(i)
      BY <2>8 DEF Locked
    <3> QED BY <2>1, <2>2, <2>3, <2>4, <2>5, <2>6, <2>7, <3>1, <3>2 DEF m, k
  <2>9. CASE i \notin cut
    <3>1. i \notin Late(e)
      BY <2>9 DEF Late
    <3>2. e \in Locked(i) <=> e \in relay[i].claimed
      BY <2>9 DEF Locked
    <3>3. e \in Locked(i) => (Covered(e) <=> e \in relay[i].sent)
      BY HolderCovers
    <3> QED BY <2>1, <2>2, <2>3, <2>4, <2>5, <2>6, <2>7, <3>1, <3>2, <3>3 DEF m, k
  <2> QED BY <2>8, <2>9
<1> QED BY <1>1, <1>2 DEF CopiesPaidFor

\* A relay that sends and goes on: its own transaction covers the copy, or the
\* rollback it has already suffered does.
LEMMA SendPays ==
  ASSUME PipeInv, CopiesPaidFor, NEW i \in Relays, PublishConfirmed(i)
  PROVE  CopiesPaidFor'
<1> PICK d \in Events : /\ IsNext(i, d)
                        /\ Enqueue(d)
                        /\ relay' = [relay EXCEPT ![i].sent = @ \cup {d}]
                        /\ UNCHANGED <<published, cut, rollbacks, faults>>
  BY DEF PublishConfirmed
<1>1. /\ d \in relay[i].claimed \ relay[i].sent
      /\ relay'[i].claimed = relay[i].claimed /\ relay'[i].sent = relay[i].sent \cup {d}
      /\ \A j \in Relays \ {i} : relay'[j] = relay[j]
      /\ cut \subseteq Relays
  BY DEF IsNext, PipeInv, RelayTypeOK
<1>2. \A j \in Relays : Locked(j)' = Locked(j)
  BY <1>1 DEF Locked
<1>3. ASSUME NEW e \in Events
      PROVE  Cardinality(CopiesOf(e)') + Cardinality(Late(e)')
               <= rollbacks[e] + (IF Covered(e)' THEN 1 ELSE 0)
  <2> DEFINE n == Cardinality(CopiesOf(e))
             l == Cardinality(Late(e))
  <2>1. n \in Nat /\ l \in Nat /\ IsFiniteSet(Late(e)) /\ rollbacks[e] \in Nat
    BY CopiesCount, LateCount DEF PipeInv, RelayTypeOK, CopiesPaidFor
  <2>2. Cardinality(CopiesOf(e)') = n + (IF e = d THEN 1 ELSE 0)
    BY EnqueueAddsOne DEF PipeInv
  <2>3. n + l <= rollbacks[e] + (IF Covered(e) THEN 1 ELSE 0)
    BY DEF CopiesPaidFor
  <2>4. CASE e # d
    <3>1. Late(e)' = Late(e) /\ (Covered(e)' <=> Covered(e))
      BY <1>1, <1>2, <2>4 DEF Late, Covered
    <3> QED BY <2>1, <2>2, <2>3, <2>4, <3>1
  <2>5. CASE e = d /\ i \in cut
    <3>1. Late(e)' = Late(e) \ {i} /\ i \in Late(e)
      BY <1>1, <2>5 DEF Late
    <3>2. Covered(e)' <=> Covered(e)
      <4>1. Locked(i) = {}
        BY <2>5 DEF Locked
      <4> QED BY <1>1, <1>2, <4>1 DEF Covered
    <3>3. Cardinality(Late(e)') = l - 1
      BY <2>1, <3>1, FS_RemoveElement
    <3> HIDE DEF n, l
    <3> QED BY <2>1, <2>2, <2>3, <2>5, <3>2, <3>3
  <2>6. CASE e = d /\ i \notin cut
    <3>1. Late(e)' = Late(e)
      BY <1>1, <2>6 DEF Late
    <3>2. e \in Locked(i) /\ ~Covered(e)
      BY <1>1, <2>6, HolderCovers DEF Locked
    <3>3. Covered(e)'
      BY <1>1, <1>2, <2>6, <3>2 DEF Covered
    <3> QED BY <2>1, <2>2, <2>3, <2>6, <3>1, <3>2, <3>3
  <2> QED BY <2>4, <2>5, <2>6
<1> QED BY <1>3 DEF CopiesPaidFor

\* A lost connection moves the events of the tick from its transaction to the
\* rollback, the unsent ones together with the copy they still get.
LEMMA CutPays ==
  ASSUME PipeInv, CopiesPaidFor, NEW i \in Relays, TransactionLost(i)
  PROVE  CopiesPaidFor'
<1>1. /\ i \notin cut /\ cut' = cut \cup {i} /\ UNCHANGED <<published, relay, place>>
      /\ rollbacks' = [e \in Events |-> rollbacks[e] + (IF e \in Locked(i) THEN 1 ELSE 0)]
      /\ cut \subseteq Relays
  BY DEF TransactionLost, CountRollBack, queueVars, PipeInv, RelayTypeOK
<1>2. IsFiniteSet(cut) /\ IsFiniteSet(cut')
  BY <1>1, FS_AddElement DEF CopiesPaidFor
<1>3. /\ Locked(i)' = {} /\ Locked(i) = relay[i].claimed
      /\ \A j \in Relays \ {i} : Locked(j)' = Locked(j)
  BY <1>1 DEF Locked
<1>4. ASSUME NEW e \in Events
      PROVE  Cardinality(CopiesOf(e)') + Cardinality(Late(e)')
               <= rollbacks'[e] + (IF Covered(e)' THEN 1 ELSE 0)
  <2> DEFINE n == Cardinality(CopiesOf(e))
             l == Cardinality(Late(e))
  <2>1. n \in Nat /\ l \in Nat /\ IsFiniteSet(Late(e)) /\ rollbacks[e] \in Nat
    BY <1>2, CopiesCount, LateCount DEF PipeInv, RelayTypeOK
  <2>2. CopiesOf(e)' = CopiesOf(e)
    BY <1>1 DEF CopiesOf
  <2>3. n + l <= rollbacks[e] + (IF Covered(e) THEN 1 ELSE 0)
    BY DEF CopiesPaidFor
  <2>4. rollbacks'[e] = rollbacks[e] + (IF e \in Locked(i) THEN 1 ELSE 0)
    BY <1>1
  <2>5. CASE e \notin relay[i].claimed
    <3>1. Late(e)' = Late(e) /\ (Covered(e)' <=> Covered(e))
      BY <1>1, <1>3, <2>5 DEF Late, Covered
    <3> QED BY <1>3, <2>1, <2>2, <2>3, <2>4, <2>5, <3>1
  <2>6. CASE e \in relay[i].sent
    <3>1. Late(e)' = Late(e) /\ e \in Locked(i)
      BY <1>1, <1>3, <2>6 DEF Late, PipeInv, ConfirmedReachedBroker
    <3> QED BY <2>1, <2>2, <2>3, <2>4, <3>1
  <2>7. CASE e \in relay[i].claimed \ relay[i].sent
    <3>1. Late(e)' = Late(e) \cup {i} /\ i \notin Late(e)
      BY <1>1, <2>7 DEF Late
    <3>2. e \in Locked(i) /\ ~Covered(e)
      BY <1>3, <2>7, HolderCovers
    <3>3. Cardinality(Late(e)') = l + 1
      BY <2>1, <3>1, FS_AddElement
    <3> HIDE DEF n, l
    <3>4. Cardinality(CopiesOf(e)') = n
      BY <2>2 DEF n
    <3> QED BY <2>1, <2>3, <2>4, <3>2, <3>3, <3>4
  <2> QED BY <2>5, <2>6, <2>7
<1> QED BY <1>2, <1>4 DEF CopiesPaidFor

LEMMA RelayStepPays ==
  ASSUME PipeInv, CopiesPaidFor, NEW i \in Relays, RelayStep(i)
  PROVE  CopiesPaidFor'
<1>0. /\ cut \subseteq Relays /\ IsFiniteSet(cut)
      /\ relay \in [Relays -> [claimed : SUBSET Events, sent : SUBSET Events]]
      /\ rollbacks \in [Events -> Nat]
  BY DEF PipeInv, RelayTypeOK, CopiesPaidFor
<1>1. CASE ClaimBatch(i)
  <2>1. /\ relay[i].claimed = {} /\ i \notin cut /\ relay[i].sent = {} /\ relay'[i].sent = {}
        /\ \A j \in Relays \ {i} : relay'[j] = relay[j]
        /\ UNCHANGED <<published, cut, rollbacks, place>>
    BY <1>0, <1>1 DEF ClaimBatch, PipeInv, RelayTypeOK, ConfirmedReachedBroker, queueVars
  <2>2. \A j \in Relays \ {i} : Locked(j)' = Locked(j)
    BY <2>1 DEF Locked
  <2>3. \A e \in Events : /\ CopiesOf(e)' = CopiesOf(e) /\ Late(e)' = Late(e)
                          /\ Covered(e)' <=> Covered(e)
    BY <1>0, <2>1, <2>2 DEF CopiesOf, Late, Covered
  <2> QED BY <2>1, <2>3 DEF CopiesPaidFor
<1>2. CASE PublishConfirmed(i)
  BY <1>2, SendPays
<1>3. CASE MarkPublished(i)
  <2>1. /\ i \notin cut /\ relay[i].sent = relay[i].claimed
        /\ published' = published \cup relay[i].claimed
        /\ relay'[i] = NoTick
        /\ \A j \in Relays \ {i} : relay'[j] = relay[j]
        /\ UNCHANGED <<cut, rollbacks, place>>
    BY <1>0, <1>3 DEF MarkPublished, queueVars
  <2>2. /\ \A j \in Relays \ {i} : Locked(j)' = Locked(j)
        /\ Locked(i) = relay[i].claimed /\ Locked(i)' = {}
    BY <2>1 DEF Locked, NoTick
  <2>3. \A e \in Events : /\ CopiesOf(e)' = CopiesOf(e) /\ Late(e)' = Late(e)
                          /\ Covered(e)' <=> Covered(e)
    BY <1>0, <2>1, <2>2 DEF CopiesOf, Late, Covered
  <2> QED BY <2>1, <2>3 DEF CopiesPaidFor
<1>4. CASE MarkFails(i)
  <2>1. /\ i \in cut /\ relay[i].sent = relay[i].claimed
        /\ UNCHANGED <<published, rollbacks, place>>
        /\ relay' = [relay EXCEPT ![i] = NoTick] /\ cut' = cut \ {i}
    BY <1>4 DEF MarkFails, queueVars
  <2>2. \A e \in Events : e \notin Locked(i) /\ i \notin Late(e)
    BY <2>1 DEF Locked, Late
  <2>3. ASSUME NEW e \in Events
        PROVE  /\ CopiesOf(e)' = CopiesOf(e) /\ Late(e)' = Late(e)
               /\ Covered(e)' <=> Covered(e)
    <3>1. CopiesOf(e)' = CopiesOf(e)
      BY <2>1 DEF CopiesOf
    <3>2. Late(e)' = Late(e) \ {i} /\ (Covered(e)' <=> Covered(e) /\ e \notin Locked(i))
      BY <2>1, EndUncovers
    <3> QED BY <2>2, <3>1, <3>2
  <2>4. IsFiniteSet(cut')
    BY <1>0, <2>1, FS_RemoveElement
  <2> QED BY <2>1, <2>3, <2>4 DEF CopiesPaidFor
<1>5. CASE PublishFails(i)
  <2> PICK d \in Events : IsNext(i, d) /\ (Enqueue(d) \/ UNCHANGED queueVars)
    BY <1>5 DEF PublishFails
  <2>1. ASSUME NEW e \in Events
        PROVE  Cardinality(CopiesOf(e)') <= Cardinality(CopiesOf(e))
                 + (IF e \in relay[i].claimed \ relay[i].sent THEN 1 ELSE 0)
    <3>1. d \in relay[i].claimed \ relay[i].sent
      BY DEF IsNext
    <3>2. Cardinality(CopiesOf(e)) \in Nat
      BY CopiesCount
    <3>3. CASE Enqueue(d)
      <4>1. Cardinality(CopiesOf(e)') = Cardinality(CopiesOf(e)) + (IF e = d THEN 1 ELSE 0)
        BY <3>3, EnqueueAddsOne DEF PipeInv
      <4> QED BY <3>1, <3>2, <4>1
    <3>4. CASE UNCHANGED queueVars
      <4>1. CopiesOf(e)' = CopiesOf(e)
        BY <3>4 DEF queueVars, CopiesOf
      <4> QED BY <3>2, <4>1
    <3> QED BY <3>3, <3>4
  <2>2. RollBackTick(i)
    BY <1>5 DEF PublishFails
  <2> QED BY <2>1, <2>2, RollBackPays
<1>6. CASE TransactionLost(i)
  BY <1>6, CutPays
<1>7. CASE TickDies(i)
  <2>1. \A e \in Events : CopiesOf(e)' = CopiesOf(e) /\ Cardinality(CopiesOf(e)) \in Nat
    BY <1>7, CopiesCount DEF TickDies, queueVars, CopiesOf
  <2>2. ASSUME NEW e \in Events
        PROVE  Cardinality(CopiesOf(e)') <= Cardinality(CopiesOf(e))
                 + (IF e \in relay[i].claimed \ relay[i].sent THEN 1 ELSE 0)
    BY <2>1
  <2>3. RollBackTick(i)
    BY <1>7 DEF TickDies
  <2> QED BY <2>2, <2>3, RollBackPays
<1> QED BY <1>1, <1>2, <1>3, <1>4, <1>5, <1>6, <1>7 DEF RelayStep

\* The workers move copies, and send none.
LEMMA WorkersSendNothing ==
  ASSUME PipeInv, NEW s \in Slots, SlotStep(s), NEW m \in Messages
  PROVE  place[m] = "unsent" <=> place'[m] = "unsent"
<1>0. /\ place \in [Messages -> Places]
      /\ slot[s].attached => slot[s].msg \in Messages /\ place[slot[s].msg] = "unacked"
  BY DEF PipeInv, QueueTypeOK, DeliveriesAgree
<1>1. CASE UNCHANGED place
  BY <1>1
<1>2. CASE \E x \in Messages : place[x] = "ready" /\ place' = [place EXCEPT ![x] = "unacked"]
  BY <1>0, <1>2
<1>3. CASE slot[s].attached /\ place' = [place EXCEPT ![slot[s].msg] = "acked"]
  BY <1>0, <1>3
<1>4. CASE slot[s].attached /\ GiveBack(slot[s].msg)
  BY <1>0, <1>4 DEF GiveBack
<1> QED BY <1>1, <1>2, <1>3, <1>4
        DEF SlotStep, Deliver, InsertProcessed, FindDuplicate, CommitHandler, Acknowledge,
            HandlerThrows, CommitAnswerLost, ChannelLost, WorkerDies, Release, queueVars

LEMMA CopiesStep == PipeInv /\ CopiesPaidFor /\ [Next]_vars => CopiesPaidFor'
<1> SUFFICES ASSUME PipeInv, CopiesPaidFor, [Next]_vars PROVE CopiesPaidFor'
  OBVIOUS
<1>1. CASE Relay
  BY <1>1, RelayStepPays DEF Relay
<1>2. CASE UNCHANGED relayVars /\ \A m \in Messages : place[m] = "unsent" <=> place'[m] = "unsent"
  <2>1. \A e \in Events : CopiesOf(e)' = CopiesOf(e) /\ Late(e)' = Late(e)
    BY <1>2, CopyIsMessage DEF relayVars, CopiesOf, Late
  <2>2. \A e \in Events : Covered(e)' <=> Covered(e)
    BY <1>2 DEF relayVars, Covered, Locked
  <2> QED BY <1>2, <2>1, <2>2 DEF relayVars, CopiesPaidFor
<1>3. CASE Api \/ UNCHANGED vars
  BY <1>2, <1>3 DEF Api, vars, queueVars
<1>4. CASE Worker
  BY <1>2, <1>4, WorkersSendNothing DEF Worker
<1> QED BY <1>1, <1>3, <1>4 DEF Next

LEMMA CopiesInit == Init => CopiesPaidFor
<1> SUFFICES ASSUME Init PROVE CopiesPaidFor
  OBVIOUS
<1>1. cut = {} /\ rollbacks = [e \in Events |-> 0] /\ place = [m \in Messages |-> "unsent"]
  BY DEF Init, RelayInit, QueueInit
<1>2. \A e \in Events : CopiesOf(e) = {} /\ Late(e) = {}
  BY <1>1, CopyIsMessage DEF CopiesOf, Late
<1>3. IsFiniteSet({}) /\ Cardinality({}) = 0
  BY FS_EmptySet
<1> QED BY <1>1, <1>2, <1>3 DEF CopiesPaidFor

\* The broker never has more copies of an event than transactions that were
\* rolled back while they held it, and one: SKIP LOCKED keeps concurrent relays
\* from publishing a row twice, and a relay without locks sends one copy more.
THEOREM DuplicatesCostRollbacks == Spec => []DuplicatesNeedARollback
<1>1. Spec => []CopiesPaidFor
  BY CopiesInit, CopiesStep, PipeInvariance, PTL DEF Spec
<1>2. PipeInv /\ CopiesPaidFor => DuplicatesNeedARollback
  <2> SUFFICES ASSUME PipeInv, CopiesPaidFor, NEW e \in Events
               PROVE  Cardinality(CopiesOf(e)) <= rollbacks[e] + 1
    BY DEF DuplicatesNeedARollback
  <2>1. /\ Cardinality(CopiesOf(e)) \in Nat /\ Cardinality(Late(e)) \in Nat
        /\ rollbacks[e] \in Nat
    BY CopiesCount, LateCount DEF PipeInv, RelayTypeOK, CopiesPaidFor
  <2> QED BY <2>1 DEF CopiesPaidFor
<1> QED BY <1>1, <1>2, PipeInvariance, PTL

-----------------------------------------------------------------------------
(* The bound on the copies is a device of the model checker. *)

\* Copies are numbered without gaps.
CopiesInRow == \A e \in Events : \E n \in 0..MaxFaults + 1 : CopiesOf(e) = 1..n

LEMMA RowStep == PipeInv /\ CopiesInRow /\ [Next]_vars => CopiesInRow'
<1> SUFFICES ASSUME PipeInv, CopiesInRow, [Next]_vars PROVE CopiesInRow'
  OBVIOUS
<1>1. CASE \A m \in Messages : place[m] = "unsent" <=> place'[m] = "unsent"
  <2>1. \A e \in Events : CopiesOf(e)' = CopiesOf(e)
    BY <1>1, CopyIsMessage DEF CopiesOf
  <2> QED BY <2>1 DEF CopiesInRow
<1>2. ASSUME NEW d \in Events, Enqueue(d) PROVE CopiesInRow'
  <2> PICK c \in Copies : CopiesOf(d) = 1..c - 1 /\ place' = [place EXCEPT ![<<d, c>>] = "ready"]
    BY <1>2 DEF Enqueue
  <2>1. \A e \in Events : \A k \in Copies :
          place'[<<e, k>>] = IF e = d /\ k = c THEN "ready" ELSE place[<<e, k>>]
    BY CopyIsMessage DEF PipeInv, QueueTypeOK
  <2>2. \A e \in Events \ {d} : CopiesOf(e)' = CopiesOf(e)
    BY <2>1 DEF CopiesOf
  <2>3. CopiesOf(d)' = CopiesOf(d) \cup {c}
    BY <2>1 DEF CopiesOf
  <2>4. CopiesOf(d)' = 1..c /\ c \in 0..MaxFaults + 1
    BY <2>3 DEF Copies
  <2> QED BY <2>2, <2>4 DEF CopiesInRow
<1>3. CASE Relay
  <2> PICK i \in Relays : RelayStep(i)
    BY <1>3 DEF Relay
  <2>1. UNCHANGED place \/ \E d \in Events : Enqueue(d)
    BY DEF RelayStep, ClaimBatch, PublishConfirmed, MarkPublished, MarkFails, PublishFails,
           TransactionLost, TickDies, queueVars
  <2> QED BY <1>1, <1>2, <2>1
<1>4. CASE Worker
  BY <1>1, <1>4, WorkersSendNothing DEF Worker
<1>5. CASE Api \/ UNCHANGED vars
  BY <1>1, <1>5 DEF Api, vars, queueVars
<1> QED BY <1>3, <1>4, <1>5 DEF Next

LEMMA RowInit == Init => CopiesInRow
<1> SUFFICES ASSUME Init PROVE CopiesInRow
  OBVIOUS
<1>1. \A e \in Events : CopiesOf(e) = 1..0
  BY CopyIsMessage DEF Init, QueueInit, CopiesOf
<1> QED BY <1>1 DEF CopiesInRow

\* A relay that is about to send an event always finds a free copy: the bound
\* on the copies keeps no publish of the code out of the model.
THEOREM CopiesSuffice ==
  Spec => [](\A i \in Relays, e \in Events : IsNext(i, e) => \E c \in Copies : CopiesOf(e) = 1..c - 1)
<1> DEFINE Free == \A i \in Relays, e \in Events :
                     IsNext(i, e) => \E c \in Copies : CopiesOf(e) = 1..c - 1
<1>1. Spec => []CopiesPaidFor
  BY CopiesInit, CopiesStep, PipeInvariance, PTL DEF Spec
<1>2. Spec => []CopiesInRow
  BY RowInit, RowStep, PipeInvariance, PTL DEF Spec
<1>3. PipeInv /\ CopiesPaidFor /\ CopiesInRow => Free
  <2> SUFFICES ASSUME PipeInv, CopiesPaidFor, CopiesInRow,
                      NEW i \in Relays, NEW e \in Events, IsNext(i, e)
               PROVE  \E c \in Copies : CopiesOf(e) = 1..c - 1
    OBVIOUS
  <2> PICK n \in 0..MaxFaults + 1 : CopiesOf(e) = 1..n
    BY DEF CopiesInRow
  <2>1. Cardinality(CopiesOf(e)) = n
    BY FS_Interval
  <2>2. /\ IsFiniteSet(Late(e)) /\ Cardinality(Late(e)) \in Nat
        /\ rollbacks[e] \in 0..MaxFaults
        /\ n + Cardinality(Late(e)) <= rollbacks[e] + (IF Covered(e) THEN 1 ELSE 0)
    BY <2>1, LateCount DEF CopiesPaidFor, PipeInv, RelayTypeOK
  <2>3. e \in relay[i].claimed \ relay[i].sent
    BY DEF IsNext
  <2>4. CASE i \in cut
    <3>1. Late(e) # {}
      BY <2>3, <2>4 DEF Late
    <3>2. Cardinality(Late(e)) # 0
      BY <2>2, <3>1, FS_EmptySet
    <3>3. n + 1 \in Copies /\ (n + 1) - 1 = n
      BY <2>2, <3>2 DEF Copies
    <3> QED BY <3>3
  <2>5. CASE i \notin cut
    <3>1. ~Covered(e)
      BY <2>3, <2>5, HolderCovers DEF Locked
    <3>2. n + 1 \in Copies /\ (n + 1) - 1 = n
      BY <2>2, <3>1 DEF Copies
    <3> QED BY <3>2
  <2> QED BY <2>4, <2>5
<1> QED BY <1>1, <1>2, <1>3, PipeInvariance, PTL

-----------------------------------------------------------------------------
(* The pipeline implements the abstract feed. *)

LEMMA TravelRelayStep ==
  ASSUME PipeInv, OnlyRecordedTravels, NEW i \in Relays, RelayStep(i),
         UNCHANGED <<updateVars, workerVars>>
  PROVE  OnlyRecordedTravels'
<1>0. /\ relay \in [Relays -> [claimed : SUBSET Events, sent : SUBSET Events]]
      /\ place \in [Messages -> Places] /\ Recorded' = Recorded
  BY DEF PipeInv, RelayTypeOK, QueueTypeOK, updateVars, Recorded
<1>1. processed' \subseteq Recorded' /\ \A s \in Slots : slot'[s].pc # "idle" => EventOf(s)' \in Recorded'
  BY <1>0 DEF OnlyRecordedTravels, workerVars, EventOf
<1>2. published' \subseteq Recorded'
  BY <1>0 DEF OnlyRecordedTravels, RelayStep, ClaimBatch, PublishConfirmed, MarkPublished,
              MarkFails, PublishFails, TransactionLost, TickDies, RollBackTick
<1>3. \A j \in Relays : relay'[j].claimed \subseteq Recorded'
  <2>1. CASE ClaimBatch(i)
    <3>1. LowestIds(Claimable(i), BatchSize) \subseteq Recorded
      BY DEF LowestIds, Claimable
    <3>2. relay' = [relay EXCEPT ![i].claimed = LowestIds(Claimable(i), BatchSize)]
      BY <2>1 DEF ClaimBatch
    <3> QED BY <1>0, <3>1, <3>2 DEF OnlyRecordedTravels
  <2>2. CASE PublishConfirmed(i)
    <3> PICK e \in Events : relay' = [relay EXCEPT ![i].sent = @ \cup {e}]
      BY <2>2 DEF PublishConfirmed
    <3>1. \A j \in Relays : relay'[j].claimed = relay[j].claimed
      BY <1>0
    <3> QED BY <1>0, <3>1 DEF OnlyRecordedTravels
  <2>3. CASE relay' = relay \/ relay' = [relay EXCEPT ![i] = NoTick]
    <3>1. \A j \in Relays : relay'[j].claimed \subseteq relay[j].claimed
      BY <1>0, <2>3 DEF NoTick
    <3> QED BY <1>0, <3>1 DEF OnlyRecordedTravels
  <2> QED BY <2>1, <2>2, <2>3
          DEF RelayStep, MarkPublished, MarkFails, PublishFails, TransactionLost, TickDies,
              RollBackTick
<1>4. \A m \in Messages : place'[m] # "unsent" => m[1] \in Recorded'
  <2>1. CASE UNCHANGED place
    BY <1>0, <2>1 DEF OnlyRecordedTravels
  <2>2. ASSUME NEW d \in Events, IsNext(i, d), Enqueue(d)
        PROVE  \A m \in Messages : place'[m] # "unsent" => m[1] \in Recorded'
    <3> PICK c \in Copies : place' = [place EXCEPT ![<<d, c>>] = "ready"]
      BY <2>2, EnqueueStep DEF PipeInv
    <3>1. <<d, c>>[1] = d /\ d \in Recorded
      BY <2>2 DEF IsNext, OnlyRecordedTravels
    <3> QED BY <1>0, <3>1 DEF OnlyRecordedTravels
  <2> QED BY <2>1, <2>2
          DEF RelayStep, ClaimBatch, PublishConfirmed, MarkPublished, MarkFails, PublishFails,
              TransactionLost, TickDies, queueVars
<1> QED BY <1>1, <1>2, <1>3, <1>4 DEF OnlyRecordedTravels

\* What a worker step does to the slots and the markers, seen from the events.
LEMMA SlotsKeepTheirEvents ==
  ASSUME PipeInv, NEW s \in Slots, SlotStep(s)
  PROVE  /\ processed' = processed \/ (slot[s].pc = "inserted" /\ Apply(EventOf(s)))
         /\ \A z \in Slots : slot'[z].pc # "idle" =>
              \/ slot[z].pc # "idle" /\ slot'[z].msg = slot[z].msg
              \/ slot'[z].msg \in Messages /\ place[slot'[z].msg] # "unsent"
<1>0. slot \in [Slots -> [pc : {"idle", "received", "inserted", "handled"},
                          msg : Messages \cup {NoMessage}, attached : BOOLEAN]]
  BY DEF PipeInv, WorkerTypeOK
<1>1. processed' = processed \/ (slot[s].pc = "inserted" /\ Apply(EventOf(s)))
  BY DEF SlotStep, Deliver, InsertProcessed, FindDuplicate, CommitHandler, Acknowledge,
         HandlerThrows, CommitAnswerLost, ChannelLost, WorkerDies
<1>2. ASSUME NEW m \in Messages, Deliver(s, m), NEW z \in Slots
      PROVE  \/ slot'[z] = slot[z]
             \/ slot'[z].msg \in Messages /\ place[slot'[z].msg] # "unsent"
  BY <1>0, <1>2 DEF Deliver
<1>3. ASSUME slot' = [slot EXCEPT ![s] = EmptySlot], NEW z \in Slots
      PROVE  slot'[z] = slot[z] \/ slot'[z].pc = "idle"
  BY <1>0, <1>3 DEF EmptySlot
<1>4. ASSUME \/ slot' = [slot EXCEPT ![s].pc = "inserted"]
             \/ slot' = [slot EXCEPT ![s].pc = "handled"]
             \/ slot' = [slot EXCEPT ![s].attached = FALSE],
             slot[s].pc # "idle", NEW z \in Slots
      PROVE  slot'[z].msg = slot[z].msg /\ (z = s \/ slot'[z] = slot[z])
  BY <1>0, <1>4
<1>5. \/ \E m \in Messages : Deliver(s, m)
      \/ slot' = [slot EXCEPT ![s] = EmptySlot]
      \/ /\ slot[s].pc # "idle"
         /\ \/ slot' = [slot EXCEPT ![s].pc = "inserted"]
            \/ slot' = [slot EXCEPT ![s].pc = "handled"]
            \/ slot' = [slot EXCEPT ![s].attached = FALSE]
  BY DEF SlotStep, InsertProcessed, FindDuplicate, CommitHandler, Acknowledge, Release,
         HandlerThrows, CommitAnswerLost, ChannelLost, WorkerDies
<1>6. \A z \in Slots : slot'[z].pc # "idle" =>
        \/ slot[z].pc # "idle" /\ slot'[z].msg = slot[z].msg
        \/ slot'[z].msg \in Messages /\ place[slot'[z].msg] # "unsent"
  BY <1>2, <1>3, <1>4, <1>5
<1> QED BY <1>1, <1>6

LEMMA TravelStep ==
  PipeInv /\ OnlyRecordedTravels /\ [Next]_vars => OnlyRecordedTravels'
<1> SUFFICES ASSUME PipeInv, OnlyRecordedTravels, [Next]_vars PROVE OnlyRecordedTravels'
  OBVIOUS
<1>1. CASE Relay
  BY <1>1, TravelRelayStep DEF Relay
<1>2. CASE Api \/ UNCHANGED vars
  <2>1. Recorded \subseteq Recorded'
    BY <1>2, RecordedGrows DEF PipeInv, Api, vars
  <2>2. UNCHANGED <<queueVars, relayVars, workerVars>>
    BY <1>2 DEF Api, vars
  <2> QED BY <2>1, <2>2 DEF OnlyRecordedTravels, queueVars, relayVars, workerVars, EventOf
<1>3. CASE Worker
  <2> PICK s \in Slots : SlotStep(s) /\ UNCHANGED <<updateVars, relayVars>>
    BY <1>3 DEF Worker
  <2>1. Recorded' = Recorded /\ UNCHANGED <<published, relay>>
    BY DEF updateVars, relayVars, Recorded
  <2>2. \A m \in Messages : place'[m] # "unsent" => m[1] \in Recorded'
    BY <2>1, WorkersSendNothing DEF OnlyRecordedTravels
  <2>3. \A z \in Slots : slot'[z].pc # "idle" => EventOf(z)' \in Recorded'
    BY <2>1, SlotsKeepTheirEvents DEF OnlyRecordedTravels, EventOf
  <2>4. processed' \subseteq Recorded'
    BY <2>1, SlotsKeepTheirEvents DEF OnlyRecordedTravels, Apply
  <2> QED BY <2>1, <2>2, <2>3, <2>4 DEF OnlyRecordedTravels
<1> QED BY <1>1, <1>2, <1>3 DEF Next

LEMMA TravelInit == Init => OnlyRecordedTravels
  BY DEF Init, RelayInit, QueueInit, WorkerInit, OnlyRecordedTravels, NoTick, EmptySlot

LEMMA FeedKept ==
  ASSUME NEW e \in Events, outbox'[e] = outbox[e],
         e \in processed' <=> e \in processed,
         e \in published' <=> e \in published,
         \A c \in Copies : place'[<<e, c>>] = place[<<e, c>>]
  PROVE  FeedState(e)' = FeedState(e)
<1>1. CopiesOf(e)' = CopiesOf(e)
  BY DEF CopiesOf
<1>2. Settled(e)' <=> Settled(e)
  BY <1>1 DEF Settled, CopiesOf
<1> QED BY <1>2 DEF FeedState

LEMMA TasksKept ==
  ASSUME UNCHANGED row
  PROVE  \A t \in Tasks : TaskState(t)' = TaskState(t)
  BY DEF TaskState

LEMMA FeedStutters ==
  ASSUME \A t \in Tasks : TaskState(t)' = TaskState(t),
         \A e \in Events : FeedState(e)' = FeedState(e)
  PROVE  UNCHANGED Feed!feedVars
  BY DEF Feed!feedVars

\* One event moves, and no task does.
LEMMA OneEventMoves ==
  ASSUME UNCHANGED row, NEW e \in Events,
         \A x \in Events \ {e} : FeedState(x)' = FeedState(x),
         <<FeedState(e), FeedState(e)'>> \in
           {<<"pending", "dead">>, <<"dead", "pending">>,
            <<"pending", "applied">>, <<"dead", "applied">>}
  PROVE  Feed!FeedNext
<1> DEFINE st == [t \in Tasks |-> TaskState(t)]
           fd == [x \in Events |-> FeedState(x)]
<1>1. st' = st
  BY TasksKept
<1>2. fd' = [fd EXCEPT ![e] = FeedState(e)'] /\ fd[e] = FeedState(e)
  OBVIOUS
<1>3. fd' = [x \in Events |-> IF x \in {e} THEN FeedState(e)' ELSE fd[x]]
  OBVIOUS
<1>4. CASE FeedState(e) = "pending" /\ FeedState(e)' = "dead"
  <2>1. Feed!GiveUp({e})
    BY <1>1, <1>2, <1>3, <1>4 DEF Feed!GiveUp
  <2> QED BY <2>1 DEF Feed!FeedNext
<1>5. CASE FeedState(e) = "dead" /\ FeedState(e)' = "pending"
  <2>1. Feed!Resend(e)
    BY <1>1, <1>2, <1>5 DEF Feed!Resend
  <2> QED BY <2>1 DEF Feed!FeedNext
<1>6. CASE FeedState(e) \in {"pending", "dead"} /\ FeedState(e)' = "applied"
  <2>1. Feed!ApplyEvent(e)
    BY <1>1, <1>2, <1>6 DEF Feed!ApplyEvent
  <2> QED BY <2>1 DEF Feed!FeedNext
<1> QED BY <1>4, <1>5, <1>6

\* The feed's view of a row, as the repository changes it.
LEMMA FeedOfUpdate ==
  ASSUME PipeInv, OnlyRecordedTravels, UpdNext,
         UNCHANGED <<queueVars, faults, relayVars, workerVars>>
  PROVE  [Feed!FeedNext]_(Feed!feedVars)
<1> DEFINE st == [t \in Tasks |-> TaskState(t)]
           fd == [x \in Events |-> FeedState(x)]
<1>0. /\ row \in [Tasks -> Row] /\ UNCHANGED <<processed, published, place>>
      /\ outbox \in [Events -> Tasks \cup {NoTask}]
  BY DEF PipeInv, UpdInv, UpdTypeOK, queueVars, relayVars, workerVars
<1>1. UNCHANGED outbox => fd' = fd
  BY <1>0, FeedKept
<1>2. ASSUME NEW t \in Tasks, NEW u \in Users, NEW k \in Statuses, Create(t, u, k)
      PROVE  Feed!FeedNext
  <2>1. /\ row[t].life = "unborn" /\ UNCHANGED outbox
        /\ row'[t].life = "live" /\ \A x \in Tasks \ {t} : row'[x] = row[x]
    BY <1>0, <1>2 DEF Create
  <2>2. /\ TaskState(t) = "unborn" /\ TaskState(t)' \in {"open", "done"}
        /\ \A x \in Tasks \ {t} : TaskState(x)' = TaskState(x)
    BY <2>1 DEF TaskState
  <2>3. st[t] = "unborn" /\ fd' = fd
    BY <1>1, <2>1, <2>2
  <2>4. st' = [st EXCEPT ![t] = TaskState(t)']
    BY <2>2
  <2>5. Feed!Edit(t)
    BY <2>2, <2>3, <2>4 DEF Feed!Edit
  <2> QED BY <2>5 DEF Feed!FeedNext
<1>3. ASSUME NEW t \in Tasks, NEW u \in Users, Remove(t, u)
      PROVE  Feed!FeedNext
  <2>1. /\ row[t].life = "live" /\ UNCHANGED outbox
        /\ row'[t].life = "deleted" /\ \A x \in Tasks \ {t} : row'[x] = row[x]
    BY <1>0, <1>3 DEF Remove, Row
  <2>2. /\ TaskState(t) \in {"open", "done"} /\ TaskState(t)' = "gone"
        /\ \A x \in Tasks \ {t} : TaskState(x)' = TaskState(x)
    BY <2>1 DEF TaskState
  <2>3. st[t] \in {"open", "done"} /\ fd' = fd
    BY <1>1, <2>1, <2>2
  <2>4. st' = [st EXCEPT ![t] = "gone"]
    BY <2>2
  <2>5. Feed!Edit(t)
    BY <2>3, <2>4 DEF Feed!Edit
  <2> QED BY <2>5 DEF Feed!FeedNext
<1>4. ASSUME NEW r \in Requests, Commit(r)
      PROVE  [Feed!FeedNext]_(Feed!feedVars)
  <2> DEFINE ch == req[r].changes
  <2>t. req[r].pc = "written" /\ req[r].task \in Tasks /\ req[r].event \in 0..MaxEvents
    BY <1>4 DEF Commit, PipeInv, UpdInv, UpdTypeOK, ReadIsCurrent, ReqState
  <2> PICK t \in Tasks : t = req[r].task
    BY <2>t
  <2> PICK e \in 0..MaxEvents : e = req[r].event
    BY <2>t
  <2>1. /\ row[t].life = "live" /\ row[t].completed = req[r].was
        /\ row' = [row EXCEPT ![t] = ApplyChanges(row[t], ch)]
        /\ \A x \in Events : outbox'[x] = IF x = e THEN t ELSE outbox[x]
        /\ row[t] \in Row
        /\ ch \in [status : Statuses \cup {"unset"}, completed : {"true", "false", "unset"}]
    BY <1>4, <2>t DEF Commit, PipeInv, UpdInv, UpdTypeOK, ReadIsCurrent, ReqState
  <2>2. /\ ApplyChanges(row[t], ch).completed =
             IF ch.completed = "unset" THEN row[t].completed ELSE ch.completed = "true"
        /\ ApplyChanges(row[t], ch).life = row[t].life
    BY <2>1, ApplyType DEF ApplyChanges, Row
  <2>3. /\ row'[t].life = "live" /\ row'[t].completed \in BOOLEAN /\ row[t].completed \in BOOLEAN
        /\ \A x \in Tasks \ {t} : row'[x] = row[x]
        /\ Completes(r) <=> (~row[t].completed /\ row'[t].completed)
    BY <1>0, <2>1, <2>2 DEF Completes, Row
  <2>4. \A x \in Tasks \ {t} : TaskState(x)' = TaskState(x)
    BY <2>3 DEF TaskState
  <2>5. /\ TaskState(t) = IF row[t].completed THEN "done" ELSE "open"
        /\ TaskState(t)' = IF row'[t].completed THEN "done" ELSE "open"
    BY <2>1, <2>3 DEF TaskState
  <2>6. e # 0 <=> Completes(r)
    BY <2>t DEF PipeInv, UpdInv, IdOwned
  <2>7. CASE Completes(r)
    <3>1. e \in Events /\ outbox[e] = NoTask
      BY <2>1, <2>6, <2>7 DEF PipeInv, UpdInv, IdsNeverShared, Recorded, Events
    <3>2. e \notin processed /\ e \notin published
      BY <3>1 DEF OnlyRecordedTravels, Recorded
    <3>3. FeedState(e) = "none" /\ FeedState(e)' = "pending"
      BY <1>0, <2>1, <3>1, <3>2, TaskUpdatesAssumption DEF FeedState, Settled
    <3>4. \A x \in Events \ {e} : FeedState(x)' = FeedState(x)
      BY <1>0, <2>1, FeedKept
    <3>5. TaskState(t) = "open" /\ TaskState(t)' = "done"
      BY <2>3, <2>5, <2>7
    <3>6. Feed!Complete(t, e)
      <4>1. st[t] = "open" /\ fd[e] = "none"
        BY <2>1, <3>1, <3>3, <3>5
      <4>2. st' = [st EXCEPT ![t] = "done"]
        BY <2>4, <3>5
      <4>3. fd' = [fd EXCEPT ![e] = "pending"]
        BY <3>3, <3>4
      <4> QED BY <4>1, <4>2, <4>3 DEF Feed!Complete
    <3> QED BY <2>1, <3>1, <3>6 DEF Feed!FeedNext
  <2>8. CASE ~Completes(r)
    <3>1. \A x \in Events : outbox'[x] = outbox[x]
      BY <2>1, <2>6, <2>8 DEF Events
    <3>2. \A x \in Events : FeedState(x)' = FeedState(x)
      BY <1>0, <3>1, FeedKept
    <3>3. CASE row'[t].completed = row[t].completed
      BY <2>4, <2>5, <3>2, <3>3, FeedStutters
    <3>4. CASE row[t].completed /\ ~row'[t].completed
      <4>1. st[t] = "done"
        BY <2>5, <3>4
      <4>2. st' = [st EXCEPT ![t] = "open"]
        BY <2>4, <2>5, <3>4
      <4>3. fd' = fd
        BY <3>2
      <4>4. Feed!Edit(t)
        BY <4>1, <4>2, <4>3 DEF Feed!Edit
      <4> QED BY <4>4 DEF Feed!FeedNext
    <3> QED BY <2>3, <2>8, <3>3, <3>4
  <2> QED BY <2>7, <2>8
<1>5. CASE UNCHANGED <<row, outbox>>
  BY <1>0, <1>5, FeedKept, TasksKept, FeedStutters
<1> QED
  BY <1>2, <1>3, <1>4, <1>5 DEF UpdNext, SelectForUpdate, WriteRow, Rollback, ChangeAudience, ChangeOwner

\* One more copy of an event the broker had given up revives it.
LEMMA FeedOfEnqueue ==
  ASSUME PipeInv, OnlyRecordedTravels, NEW d \in Recorded, Enqueue(d),
         UNCHANGED <<row, outbox, processed, published>>
  PROVE  [Feed!FeedNext]_(Feed!feedVars)
<1> PICK c \in Copies : /\ place[<<d, c>>] = "unsent"
                        /\ place' = [place EXCEPT ![<<d, c>>] = "ready"]
  BY EnqueueStep DEF PipeInv, Recorded
<1>0. d \in Events /\ outbox[d] # NoTask
  BY DEF Recorded
<1>1. \A e \in Events \ {d} : \A k \in Copies : place'[<<e, k>>] = place[<<e, k>>]
  BY CopyIsMessage DEF PipeInv, QueueTypeOK
<1>2. \A e \in Events \ {d} : FeedState(e)' = FeedState(e)
  BY <1>1, FeedKept
<1>3. place'[<<d, c>>] = "ready"
  BY <1>0, CopyIsMessage DEF PipeInv, QueueTypeOK
<1>4. FeedState(d)' = IF d \in processed THEN "applied" ELSE "pending"
  BY <1>0, <1>3 DEF FeedState, Settled, CopiesOf
<1>5. CASE FeedState(d)' = FeedState(d)
  BY <1>2, <1>5, TasksKept, FeedStutters
<1>6. CASE FeedState(d)' # FeedState(d)
  <2>1. FeedState(d)' = "pending" /\ FeedState(d) = "dead"
    BY <1>0, <1>4, <1>6 DEF FeedState
  <2> QED BY <1>0, <1>2, <2>1, OneEventMoves
<1> QED BY <1>5, <1>6

\* Marking a batch may give up several events at once: those whose copies the
\* broker has already moved to the dead-letter queue.
LEMMA FeedOfMark ==
  ASSUME PipeInv, NEW i \in Relays, MarkPublished(i), UNCHANGED <<updateVars, workerVars>>
  PROVE  [Feed!FeedNext]_(Feed!feedVars)
<1> DEFINE fd == [x \in Events |-> FeedState(x)]
<1>0. /\ published \subseteq published'
      /\ UNCHANGED <<row, outbox, processed, place>>
  BY DEF MarkPublished, queueVars, updateVars, workerVars
<1>1. \A e \in Events : \/ FeedState(e)' = FeedState(e)
                        \/ FeedState(e) = "pending" /\ FeedState(e)' = "dead"
  <2> TAKE e \in Events
  <2>1. CopiesOf(e)' = CopiesOf(e)
    BY <1>0 DEF CopiesOf
  <2>2. Settled(e) => Settled(e)'
    BY <1>0, <2>1 DEF Settled
  <2> QED BY <1>0, <2>2 DEF FeedState
<1> PICK es \in SUBSET Events :
      \A e \in Events : e \in es <=> FeedState(e)' # FeedState(e)
  <2> WITNESS {e \in Events : FeedState(e)' # FeedState(e)} \in SUBSET Events
  <2> QED OBVIOUS
<1>2. CASE es = {}
  BY <1>0, <1>2, TasksKept, FeedStutters
<1>3. CASE es # {}
  <2>1. \A e \in es : fd[e] = "pending"
    BY <1>1
  <2>2. fd' = [e \in Events |-> IF e \in es THEN "dead" ELSE fd[e]]
    BY <1>1
  <2>3. [t \in Tasks |-> TaskState(t)]' = [t \in Tasks |-> TaskState(t)]
    BY <1>0, TasksKept
  <2>4. Feed!GiveUp(es)
    BY <1>3, <2>1, <2>2, <2>3 DEF Feed!GiveUp
  <2> QED BY <2>4 DEF Feed!FeedNext
<1> QED BY <1>2, <1>3

LEMMA FeedOfRelay ==
  ASSUME PipeInv, OnlyRecordedTravels, NEW i \in Relays, RelayStep(i),
         UNCHANGED <<updateVars, workerVars>>
  PROVE  [Feed!FeedNext]_(Feed!feedVars)
<1>0. UNCHANGED <<row, outbox, processed>>
  BY DEF updateVars, workerVars
<1>1. CASE UNCHANGED <<published, place>>
  BY <1>0, <1>1, FeedKept, TasksKept, FeedStutters
<1>2. ASSUME NEW d \in Events, IsNext(i, d), Enqueue(d), UNCHANGED published
      PROVE  [Feed!FeedNext]_(Feed!feedVars)
  <2>1. d \in Recorded
    BY <1>2 DEF IsNext, OnlyRecordedTravels
  <2> QED BY <1>0, <1>2, <2>1, FeedOfEnqueue
<1>3. CASE MarkPublished(i)
  BY <1>3, FeedOfMark
<1> QED BY <1>1, <1>2, <1>3
        DEF RelayStep, ClaimBatch, PublishConfirmed, MarkFails, PublishFails, TransactionLost,
            TickDies, RollBackTick, queueVars

\* A handler commits: its event is applied, even one that was given up.
LEMMA FeedOfApply ==
  ASSUME PipeInv, OnlyRecordedTravels, NEW s \in Slots,
         slot[s].pc = "inserted", Apply(EventOf(s)),
         UNCHANGED place \/ GiveBack(slot[s].msg),
         UNCHANGED <<row, outbox, published>>
  PROVE  Feed!FeedNext
<1>1. /\ EventOf(s) \in Recorded /\ EventOf(s) \notin processed
      /\ slot[s].msg \in Messages /\ place \in [Messages -> Places]
      /\ processed' = processed \cup {EventOf(s)}
  BY DEF OnlyRecordedTravels, PipeInv, MarkersAgree, DeliveriesAgree, QueueTypeOK, Apply
<1> PICK e \in Events : e = EventOf(s)
  BY <1>1 DEF Recorded
<1>2. FeedState(e) \in {"pending", "dead"} /\ FeedState(e)' = "applied"
  BY <1>1 DEF FeedState, Recorded
<1>3. \A x \in Events \ {e} : \A c \in Copies : place'[<<x, c>>] = place[<<x, c>>]
  <2> TAKE x \in Events \ {e}
  <2> TAKE c \in Copies
  <2>1. <<x, c>> \in Messages /\ <<x, c>> # slot[s].msg
    BY CopyIsMessage DEF EventOf
  <2> QED BY <1>1, <2>1 DEF GiveBack
<1>4. \A x \in Events \ {e} : FeedState(x)' = FeedState(x)
  BY <1>1, <1>3, FeedKept
<1> QED BY <1>2, <1>4, OneEventMoves

\* A delivery that is handed over, acknowledged or given back moves one copy
\* the broker had not given up: its event may be given up now.
LEMMA FeedOfDelivery ==
  ASSUME PipeInv, OnlyRecordedTravels, NEW m \in Messages,
         place[m] \notin {"unsent", "dead"}, place'[m] # "unsent",
         \A x \in Messages \ {m} : place'[x] = place[x],
         UNCHANGED <<row, outbox, processed, published>>
  PROVE  [Feed!FeedNext]_(Feed!feedVars)
<1> PICK e \in Events : e = m[1]
  BY MessageIsCopy
<1>0. m[2] \in Copies /\ m = <<e, m[2]>> /\ e \in Recorded
  BY MessageIsCopy DEF OnlyRecordedTravels
<1>1. \A x \in Events \ {e} : FeedState(x)' = FeedState(x)
  <2>1. \A x \in Events \ {e} : \A c \in Copies : place'[<<x, c>>] = place[<<x, c>>]
    BY CopyIsMessage
  <2> QED BY <2>1, FeedKept
<1>2. m[2] \in CopiesOf(e) /\ place[<<e, m[2]>>] # "dead"
  BY <1>0 DEF CopiesOf
<1>3. FeedState(e) = IF e \in processed THEN "applied" ELSE "pending"
  BY <1>0, <1>2 DEF FeedState, Settled, Recorded
<1>4. FeedState(e)' \in IF e \in processed THEN {"applied"} ELSE {"pending", "dead"}
  BY <1>0 DEF FeedState, Recorded
<1>5. CASE FeedState(e)' = FeedState(e)
  BY <1>1, <1>5, TasksKept, FeedStutters
<1>6. CASE FeedState(e)' # FeedState(e)
  <2>1. FeedState(e) = "pending" /\ FeedState(e)' = "dead"
    BY <1>3, <1>4, <1>6
  <2> QED BY <1>1, <2>1, OneEventMoves
<1> QED BY <1>5, <1>6

LEMMA FeedOfWorker ==
  ASSUME PipeInv, OnlyRecordedTravels, NEW s \in Slots, SlotStep(s),
         UNCHANGED <<updateVars, relayVars>>
  PROVE  [Feed!FeedNext]_(Feed!feedVars)
<1>0. /\ UNCHANGED <<row, outbox, published>>
      /\ place \in [Messages -> Places]
      /\ slot[s].attached => slot[s].msg \in Messages /\ place[slot[s].msg] = "unacked"
  BY DEF updateVars, relayVars, PipeInv, QueueTypeOK, DeliveriesAgree
<1>1. CASE UNCHANGED <<processed, place>>
  BY <1>0, <1>1, FeedKept, TasksKept, FeedStutters
<1>2. ASSUME NEW m \in Messages, Deliver(s, m)
      PROVE  [Feed!FeedNext]_(Feed!feedVars)
  BY <1>0, <1>2, FeedOfDelivery DEF Deliver
<1>3. CASE slot[s].pc = "inserted" /\ Apply(EventOf(s)) /\ (UNCHANGED place \/ GiveBack(slot[s].msg))
  BY <1>0, <1>3, FeedOfApply
<1>4. CASE /\ slot[s].attached /\ UNCHANGED processed
           /\ GiveBack(slot[s].msg) \/ place' = [place EXCEPT ![slot[s].msg] = "acked"]
  <2> PICK m \in Messages : m = slot[s].msg
    BY <1>0, <1>4
  <2>1. /\ place[m] = "unacked" /\ place'[m] # "unsent"
        /\ \A x \in Messages \ {m} : place'[x] = place[x]
    BY <1>0, <1>4 DEF GiveBack
  <2> QED BY <1>0, <1>4, <2>1, FeedOfDelivery
<1> QED BY <1>1, <1>2, <1>3, <1>4
        DEF SlotStep, InsertProcessed, FindDuplicate, CommitHandler, Acknowledge, HandlerThrows,
            CommitAnswerLost, ChannelLost, WorkerDies, Release, queueVars

LEMMA FeedStep ==
  PipeInv /\ OnlyRecordedTravels /\ [Next]_vars => [Feed!FeedNext]_(Feed!feedVars)
<1> SUFFICES ASSUME PipeInv, OnlyRecordedTravels, [Next]_vars
             PROVE  [Feed!FeedNext]_(Feed!feedVars)
  OBVIOUS
<1>1. CASE Api
  BY <1>1, FeedOfUpdate DEF Api
<1>2. CASE Relay
  BY <1>2, FeedOfRelay DEF Relay
<1>3. CASE Worker
  BY <1>3, FeedOfWorker DEF Worker
<1>4. CASE UNCHANGED vars
  BY <1>4, FeedKept, TasksKept, FeedStutters DEF vars, updateVars, queueVars, relayVars, workerVars
<1> QED BY <1>1, <1>2, <1>3, <1>4 DEF Next

LEMMA FeedStart == Init => Feed!FeedInit
  BY DEF Init, UpdInit, Feed!FeedInit, TaskState, FeedState

\* The pipeline implements the feed: whatever fails, an event is recorded once
\* per completion, applied at most once, and leaves no other trace; only a copy
\* sent late takes an event out of the dead-letter state.
THEOREM PipelineImplementsFeed == Spec => ImplementsFeed
<1>1. Spec => []OnlyRecordedTravels
  BY TravelInit, TravelStep, PipeInvariance, PTL DEF Spec
<1> QED
  BY <1>1, FeedStart, FeedStep, PipeInvariance, PTL DEF Spec, ImplementsFeed, Feed!FeedSpec

=============================================================================
