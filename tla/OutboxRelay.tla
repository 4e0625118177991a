---------------------------- MODULE OutboxRelay ----------------------------
(***************************************************************************)
(* infrastructure/outbox: relays that poll the outbox side by side.  One   *)
(* tick is one transaction: claim a batch with FOR UPDATE SKIP LOCKED,     *)
(* publish its events one after the other in id order, mark them all       *)
(* published, commit.  Whatever fails in between rolls the whole tick      *)
(* back, although the broker keeps what it was sent.  When only the        *)
(* connection to MySQL is lost, the loop goes on publishing without locks. *)
(***************************************************************************)
EXTENDS NotificationQueue

CONSTANTS
  Relays,    \* running relay loops, one per API process
  BatchSize  \* rows claimed per tick

ASSUME OutboxRelayAssumption == BatchSize \in Nat \ {0}

VARIABLES
  published,  \* outbox rows whose published_at is set
  relay,      \* the tick each relay is in: rows claimed and rows confirmed
  cut,        \* relays whose transaction is gone while their tick goes on
  rollbacks   \* history: ticks rolled back while they held a row

relayVars == <<published, relay, cut, rollbacks>>

NoTick == [claimed |-> {}, sent |-> {}]

LowestIds(S, n) == {e \in S : Cardinality({d \in S : d < e}) < n}

\* Mutant: the SELECT of a batch locks nothing.
ClaimableUnlocked(i) == Recorded \ published

\* The rows a relay's transaction holds.
Locked(i) == IF i \in cut THEN {} ELSE relay[i].claimed

\* Committed, unpublished rows no other relay has locked.
Claimable(i) ==
  {e \in Recorded \ published : \A j \in Relays \ {i} : e \notin Locked(j)}

\* The batch is published in id order.
IsNext(i, e) ==
  /\ e \in relay[i].claimed \ relay[i].sent
  /\ \A d \in relay[i].claimed \ relay[i].sent : e <= d

RelayInit ==
  /\ published = {}
  /\ relay = [i \in Relays |-> NoTick]
  /\ cut = {}
  /\ rollbacks = [e \in Events |-> 0]

RelayTypeOK ==
  /\ published \in SUBSET Events
  /\ relay \in [Relays -> [claimed : SUBSET Events, sent : SUBSET Events]]
  /\ cut \subseteq {i \in Relays : relay[i].claimed # {}}
  /\ rollbacks \in [Events -> 0..MaxFaults]

\* Mutant: the relay waits for a full batch.
ClaimFullBatch(i) ==
  /\ relay[i].claimed = {}
  /\ Cardinality(Claimable(i)) >= BatchSize
  /\ relay' = [relay EXCEPT ![i].claimed = LowestIds(Claimable(i), BatchSize)]
  /\ UNCHANGED <<published, cut, rollbacks, queueVars, faults>>

\* A tick that claims nothing ends at once and changes nothing.
ClaimBatch(i) ==
  /\ relay[i].claimed = {}
  /\ Claimable(i) # {}
  /\ relay' = [relay EXCEPT ![i].claimed = LowestIds(Claimable(i), BatchSize)]
  /\ UNCHANGED <<published, cut, rollbacks, queueVars, faults>>

PublishConfirmed(i) ==
  \E e \in Events :
    /\ IsNext(i, e)
    /\ Enqueue(e)
    /\ relay' = [relay EXCEPT ![i].sent = @ \cup {e}]
    /\ UNCHANGED <<published, cut, rollbacks, faults>>

\* MySQL rolls the transaction of a tick back.
CountRollBack(i) ==
  rollbacks' = [e \in Events |-> rollbacks[e] + (IF e \in Locked(i) THEN 1 ELSE 0)]

\* The connection to MySQL drops in the middle of a tick: its locks go, and the
\* loop, which does not use the connection, publishes the rest of the batch.
TransactionLost(i) ==
  /\ relay[i].claimed # {}
  /\ i \notin cut
  /\ Fault
  /\ cut' = cut \cup {i}
  /\ CountRollBack(i)
  /\ UNCHANGED <<published, relay, queueVars>>

\* A tick ends with an error: its locks go, nothing is marked.
RollBackTick(i) ==
  /\ Fault
  /\ relay' = [relay EXCEPT ![i] = NoTick]
  /\ cut' = cut \ {i}
  /\ CountRollBack(i)
  /\ UNCHANGED published

\* publish() throws: no channel, or no confirmation within the timeout, in
\* which case the broker may or may not have the message.
PublishFails(i) ==
  /\ \E e \in Events : IsNext(i, e) /\ (Enqueue(e) \/ UNCHANGED queueVars)
  /\ RollBackTick(i)

\* Mutant: only the last id of the batch is marked.
MarkLastPublished(i) ==
  /\ relay[i].claimed # {}
  /\ i \notin cut
  /\ relay[i].sent = relay[i].claimed
  /\ published' = published \cup {e \in relay[i].claimed : \A d \in relay[i].claimed : d <= e}
  /\ relay' = [relay EXCEPT ![i] = NoTick]
  /\ UNCHANGED <<cut, rollbacks, queueVars, faults>>

\* Everything was confirmed: markPublished, COMMIT.
MarkPublished(i) ==
  /\ relay[i].claimed # {}
  /\ i \notin cut
  /\ relay[i].sent = relay[i].claimed
  /\ published' = published \cup relay[i].claimed
  /\ relay' = [relay EXCEPT ![i] = NoTick]
  /\ UNCHANGED <<cut, rollbacks, queueVars, faults>>

\* markPublished fails on the connection that was lost.
MarkFails(i) ==
  /\ i \in cut
  /\ relay[i].sent = relay[i].claimed
  /\ relay' = [relay EXCEPT ![i] = NoTick]
  /\ cut' = cut \ {i}
  /\ UNCHANGED <<published, rollbacks, queueVars, faults>>

\* The process stops (shutdown closes the pool under a running tick), or the
\* database refuses the UPDATE or the COMMIT.
TickDies(i) ==
  /\ relay[i].claimed # {}
  /\ RollBackTick(i)
  /\ UNCHANGED queueVars

RelayStep(i) ==
  \/ ClaimBatch(i) \/ PublishConfirmed(i) \/ MarkPublished(i) \/ MarkFails(i)
  \/ PublishFails(i) \/ TransactionLost(i) \/ TickDies(i)

-----------------------------------------------------------------------------

\* Two transactions never hold the same row, and a row is released once
\* published; only a relay that lost its transaction works on a row besides.
ClaimsAreExclusive ==
  \A i \in Relays :
    /\ Locked(i) \subseteq Recorded \ published
    /\ \A j \in Relays \ {i} : Locked(i) \cap Locked(j) = {}

\* No event is published twice by concurrent relays: the broker gets one copy
\* of an event, and one more for each tick that was rolled back holding it.
DuplicatesNeedARollback ==
  \A e \in Events : Cardinality(CopiesOf(e)) <= rollbacks[e] + 1

=============================================================================
