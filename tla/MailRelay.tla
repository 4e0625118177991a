----------------------------- MODULE MailRelay -----------------------------
(***************************************************************************)
(* The e-mail relays of the notification workers (emailRelay.ts), the      *)
(* notifications they read and the deletion of the accounts they write to. *)
(*                                                                         *)
(* A relay claims a batch with FOR UPDATE SKIP LOCKED on notifications     *)
(* joined with users, so it locks the rows of the recipients too, and      *)
(* sends its mails inside that transaction.  An account deletion locks the *)
(* row of the user first, then deletes their notifications.  The handler   *)
(* reads its recipients and inserts without a lock on either.              *)
(*                                                                         *)
(* A notification is numbered by created_at, its age in the queue.         *)
(***************************************************************************)
EXTENDS Naturals, FiniteSets

CONSTANTS
  Users,       \* account ids, never reused
  Bouncing,    \* those whose address the SMTP server always refuses
  MaxNotes,    \* bound on the notifications ever stored
  Relays,      \* worker processes with a relay
  BatchSize,   \* options.batchSize
  MaxFaults,   \* bound on the failures of one behaviour
  Nobody       \* no recipient: the notification is not stored

ASSUME MailAssumption ==
  /\ Bouncing \subseteq Users
  /\ Nobody \notin Users
  /\ MaxNotes \in Nat
  /\ BatchSize \in Nat \ {0}
  /\ MaxFaults \in Nat

VARIABLES
  accounts,    \* users: the rows that exist
  recipient,   \* notifications.recipient_id, Nobody for an id not used yet
  stored,      \* notifications: the rows that exist
  sentAt,      \* notifications whose sent_at is set
  nextNote,    \* the next created_at
  storing,     \* recipients a handler has read and not inserted yet
  deleting,    \* accounts whose deletion transaction is open
  relay,       \* per relay: its claim, what is left to send, what it sent
  cut,         \* relays whose transaction is lost while they go on sending
  mailed,      \* history: mails the SMTP server accepted, per notification
  faults       \* failures so far

noteVars == <<recipient, stored, sentAt, nextNote>>
relayVars == <<relay, cut>>
mailVars == <<accounts, noteVars, storing, deleting, relayVars, mailed, faults>>

Notes == 1..MaxNotes
Stopped == [claim |-> {}, left |-> {}, sent |-> {}]

MailTypeOK ==
  /\ accounts \subseteq Users
  /\ recipient \in [Notes -> Users \cup {Nobody}]
  /\ sentAt \subseteq stored /\ stored \subseteq Notes
  /\ nextNote \in 1..MaxNotes + 1
  /\ storing \subseteq Users
  /\ deleting \subseteq accounts
  /\ relay \in [Relays -> [claim : SUBSET Notes, left : SUBSET Notes, sent : SUBSET Notes]]
  /\ \A m \in Relays : /\ relay[m].left \cup relay[m].sent \subseteq relay[m].claim
                       /\ Cardinality(relay[m].claim) <= BatchSize
  /\ cut \subseteq {m \in Relays : relay[m].claim # {}}
  /\ mailed \in [Notes -> Nat]
  /\ faults \in 0..MaxFaults

MailInit ==
  /\ accounts = Users
  /\ recipient = [n \in Notes |-> Nobody]
  /\ stored = {}
  /\ sentAt = {}
  /\ nextNote = 1
  /\ storing = {}
  /\ deleting = {}
  /\ relay = [m \in Relays |-> Stopped]
  /\ cut = {}
  /\ mailed = [n \in Notes |-> 0]
  /\ faults = 0

Pending == stored \ sentAt

Fault ==
  /\ faults < MaxFaults
  /\ faults' = faults + 1

-----------------------------------------------------------------------------
(* The handler of the worker and the deletion of an account.               *)

\* The handler reads the members of the task's projects ...
ReadRecipient(u) ==
  /\ u \in accounts
  /\ storing' = storing \cup {u}
  /\ UNCHANGED <<accounts, noteVars, deleting, relayVars, mailed, faults>>

\* ... and inserts.  recipient_id has no foreign key.
Store(u) ==
  /\ u \in storing
  /\ nextNote <= MaxNotes
  /\ recipient' = [recipient EXCEPT ![nextNote] = u]
  /\ stored' = stored \cup {nextNote}
  /\ nextNote' = nextNote + 1
  /\ storing' = storing \ {u}
  /\ UNCHANGED <<accounts, sentAt, deleting, relayVars, mailed, faults>>

\* Notifications and recipients locked by the relays.
LockedNotes == UNION {relay[m].claim : m \in Relays \ cut}
LockedUsers == {recipient[n] : n \in LockedNotes}

\* Mutant: the deletion starts without locking the row of the user.
BeginDeletionUnlocked(u) ==
  /\ u \in accounts \ deleting
  /\ deleting' = deleting \cup {u}
  /\ UNCHANGED <<accounts, noteVars, storing, relayVars, mailed, faults>>

\* SELECT ... FOR UPDATE of the user, which waits for a relay that holds it.
BeginDeletion(u) ==
  /\ u \in accounts \ deleting
  /\ u \notin LockedUsers
  /\ deleting' = deleting \cup {u}
  /\ UNCHANGED <<accounts, noteVars, storing, relayVars, mailed, faults>>

\* The notifications and the user are deleted, COMMIT.
CommitDeletion(u) ==
  /\ u \in deleting
  /\ stored' = {n \in stored : recipient[n] # u}
  /\ sentAt' = sentAt \cap stored'
  /\ accounts' = accounts \ {u}
  /\ deleting' = deleting \ {u}
  /\ UNCHANGED <<recipient, nextNote, storing, relayVars, mailed, faults>>

AbortDeletion(u) ==
  /\ u \in deleting
  /\ Fault
  /\ deleting' = deleting \ {u}
  /\ UNCHANGED <<accounts, noteVars, storing, relayVars, mailed>>

-----------------------------------------------------------------------------
(* The relay.                                                              *)

\* Mutant: the query does not skip what another relay holds.
ClaimableUnlocked == {n \in Pending : recipient[n] \in accounts \ deleting}

\* Unsent notifications of existing users, none of the two rows locked.
Claimable ==
  {n \in Pending : /\ recipient[n] \in accounts \ (deleting \cup LockedUsers)
                   /\ n \notin LockedNotes}

\* The oldest rows, at most a batch of them.
Oldest(S) == {n \in S : Cardinality({k \in S : k < n}) < BatchSize}

\* claimPending.  An empty batch ends the run at once.
ClaimPending(m) ==
  /\ relay[m] = Stopped
  /\ Claimable # {}
  /\ relay' = [relay EXCEPT ![m] = [claim |-> Oldest(Claimable), left |-> Oldest(Claimable), sent |-> {}]]
  /\ UNCHANGED <<accounts, noteVars, storing, deleting, cut, mailed, faults>>

\* The mails go out one after the other, oldest first.
IsNext(m, n) == n \in relay[m].left /\ \A k \in relay[m].left : n <= k

\* send resolves: the SMTP server took the mail.
Send(m, n) ==
  /\ IsNext(m, n)
  /\ recipient[n] \notin Bouncing
  /\ mailed' = [mailed EXCEPT ![n] = @ + 1]
  /\ relay' = [relay EXCEPT ![m].left = @ \ {n}, ![m].sent = @ \cup {n}]
  /\ UNCHANGED <<accounts, noteVars, storing, deleting, cut, faults>>

\* Mutant: one refused mail ends the batch.
SendFailsBatch(m, n) ==
  /\ IsNext(m, n)
  /\ recipient[n] \in Bouncing
  /\ relay' = [relay EXCEPT ![m] = Stopped]
  /\ cut' = cut \ {m}
  /\ UNCHANGED <<accounts, noteVars, storing, deleting, mailed, faults>>

\* send rejects for an address that is always refused: logged, the row stays
\* unsent, the batch goes on.
SendRefused(m, n) ==
  /\ IsNext(m, n)
  /\ recipient[n] \in Bouncing
  /\ relay' = [relay EXCEPT ![m].left = @ \ {n}]
  /\ UNCHANGED <<accounts, noteVars, storing, deleting, cut, mailed, faults>>

\* send rejects for any other reason; the mail may have gone out.
SendFails(m, n) ==
  /\ IsNext(m, n)
  /\ Fault
  /\ mailed' \in {mailed, [mailed EXCEPT ![n] = @ + 1]}
  /\ relay' = [relay EXCEPT ![m].left = @ \ {n}]
  /\ UNCHANGED <<accounts, noteVars, storing, deleting, cut>>

\* Mutant: the whole batch is marked, sent or not.
MarkBatch(m) ==
  /\ m \notin cut
  /\ relay[m].claim # {} /\ relay[m].left = {}
  /\ sentAt' = sentAt \cup relay[m].claim
  /\ relay' = [relay EXCEPT ![m] = Stopped]
  /\ UNCHANGED <<accounts, recipient, stored, nextNote, storing, deleting, cut, mailed, faults>>

\* markSent and COMMIT, which releases the locks.
MarkSent(m) ==
  /\ m \notin cut
  /\ relay[m].claim # {} /\ relay[m].left = {}
  /\ sentAt' = sentAt \cup relay[m].sent
  /\ relay' = [relay EXCEPT ![m] = Stopped]
  /\ UNCHANGED <<accounts, recipient, stored, nextNote, storing, deleting, cut, mailed, faults>>

\* The process dies or its UPDATE fails: ROLLBACK, nothing is marked.
RunFails(m) ==
  /\ relay[m].claim # {}
  /\ Fault
  /\ relay' = [relay EXCEPT ![m] = Stopped]
  /\ cut' = cut \ {m}
  /\ UNCHANGED <<accounts, noteVars, storing, deleting, mailed>>

\* MySQL drops the connection between two mails: the locks are gone, and the
\* relay notices only at its next statement.
ConnectionLost(m) ==
  /\ relay[m].claim # {} /\ m \notin cut
  /\ Fault
  /\ cut' = cut \cup {m}
  /\ UNCHANGED <<accounts, noteVars, storing, deleting, relay, mailed>>

\* That statement, markSent or COMMIT, fails.
MarkFails(m) ==
  /\ m \in cut
  /\ relay[m].left = {}
  /\ relay' = [relay EXCEPT ![m] = Stopped]
  /\ cut' = cut \ {m}
  /\ UNCHANGED <<accounts, noteVars, storing, deleting, mailed, faults>>

RelayRuns(m) ==
  \/ ClaimPending(m)
  \/ \E n \in Notes : Send(m, n) \/ SendRefused(m, n)
  \/ MarkSent(m) \/ MarkFails(m)

MailNext ==
  \/ \E u \in Users : ReadRecipient(u) \/ Store(u)
  \/ \E u \in Users : BeginDeletion(u) \/ CommitDeletion(u) \/ AbortDeletion(u)
  \/ \E m \in Relays : RelayRuns(m) \/ RunFails(m) \/ ConnectionLost(m)
  \/ \E m \in Relays, n \in Notes : SendFails(m, n)

\* A run is scheduled again after every outcome; a deletion that has begun
\* ends.  Failures, events and deletions need not happen.
MailFairness ==
  /\ \A m \in Relays : WF_mailVars(RelayRuns(m))
  /\ \A u \in Users : WF_mailVars(CommitDeletion(u))

MailSpec == MailInit /\ [][MailNext]_mailVars /\ MailFairness

-----------------------------------------------------------------------------

\* A notification is marked only after its mail was accepted.
MarkedOnlyIfMailed == \A n \in sentAt : mailed[n] > 0

\* A second mail for a notification needs a failure in between: a run that was
\* rolled back after sending, or an answer of the SMTP server that was lost.
\* Two relays never send the same one ("Several relays or e-mail relays
\* running" in docs/architecture.md).
ResentOnlyAfterFailure == \A n \in Notes : mailed[n] <= 1 + faults

\* No mail goes to an account once its deletion has begun: the relay holds the
\* recipient's row from the claim to the COMMIT.  A relay that has lost its
\* connection is the one exception.
NoMailAfterDeletion ==
  [][\A n \in Notes : mailed'[n] > mailed[n] =>
       \/ recipient[n] \in accounts \ deleting
       \/ \E m \in cut : n \in relay[m].left]_mailVars

\* Refused addresses in front of the queue fill every batch.
Starved == Cardinality({n \in Pending : recipient[n] \in Bouncing}) >= BatchSize

\* Once failures stop, a notification is mailed and marked, or goes with its
\* account, unless its address refuses mail or enough refused ones fill the
\* batches ("A failed send leaves its row unsent for the next run; the others
\* are still marked as sent", relayBatch).
EveryNoteSettles ==
  \A n \in Notes :
    (n \in Pending /\ recipient[n] \in accounts \ Bouncing) ~> (n \notin Pending \/ Starved)

=============================================================================
