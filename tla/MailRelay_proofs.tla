-------------------------- MODULE MailRelay_proofs --------------------------
(***************************************************************************)
(* The e-mail relays, for any number of users, notifications, relays and   *)
(* failures and any batch size.                                            *)
(*                                                                         *)
(* What a relay has claimed is held until its transaction ends: nobody     *)
(* else claims it and no recipient in it is being deleted.  A failure pays *)
(* for one mail of each notification: for the one that was sent and will   *)
(* not be marked, or for the one that a relay without its connection is    *)
(* still going to send.                                                    *)
(***************************************************************************)
EXTENDS MailRelay, FiniteSetTheorems, WellFoundedInduction, TLAPS

\* What a relay with its connection has claimed is pending, written to an
\* account that stays, and claimed by it alone.
ClaimsHeld ==
  \A m \in Relays \ cut :
    /\ \A n \in relay[m].claim : n \in Pending /\ recipient[n] \in accounts \ deleting
    /\ \A k \in Relays \ cut : k # m => relay[k].claim \cap relay[m].claim = {}

\* Only ids that were given out are stored, claimed or mailed.
NumbersGivenOut ==
  /\ \A n \in stored : n < nextNote
  /\ \A m \in Relays : \A n \in relay[m].claim : n < nextNote
  /\ \A n \in Notes : n >= nextNote => mailed[n] = 0

\* A mail counts as sent once it was accepted.
SentWasMailed ==
  \A m \in Relays : /\ relay[m].left \cap relay[m].sent = {}
                    /\ \A n \in relay[m].sent : mailed[n] > 0

\* The relays that will send a notification although they lost its lock.
StillToSend(n) == {m \in cut : n \in relay[m].left}

\* Nobody else will send it: it is marked or about to be, or it is gone.
Done(n) == n \notin stored \/ n \in sentAt \/ \E m \in Relays \ cut : n \in relay[m].sent

\* Every mail of a notification but the one that is marked cost a failure, and
\* so did every relay that may send it without holding it.
Spent(n) == mailed[n] + Cardinality(StillToSend(n))
Budget(n) == IF Done(n) THEN faults + 1 ELSE faults
MailsCostFaults == \A n \in Notes : Spent(n) <= Budget(n)

MailInv ==
  /\ MailTypeOK
  /\ IsFiniteSet(cut)
  /\ ClaimsHeld
  /\ NumbersGivenOut
  /\ SentWasMailed
  /\ MarkedOnlyIfMailed
  /\ MailsCostFaults

USE MailAssumption DEF MailAssumption

-----------------------------------------------------------------------------
(* Batches.                                                                 *)

LEMMA SmallestNat ==
  ASSUME NEW T, T \subseteq Nat, T # {}
  PROVE  \E x \in T : \A y \in T : x <= y
<1> DEFINE Less == {ss \in Nat \X Nat : ss[1] < ss[2]}
<1>0. IsWellFoundedOn(Less, Nat)
  BY NatLessThanWellFounded DEF OpToRel
<1>1. PICK x \in T : \A y \in T : ~ (<<y, x>> \in Less)
  <2> HIDE DEF Less
  <2> QED BY <1>0, WFMin
<1>2. ASSUME NEW y \in T
      PROVE  x <= y
  <2>1. ~(y < x)
    BY <1>1
  <2> QED BY <2>1
<1> QED BY <1>2

\* A set of notifications has a youngest one.
LEMMA LargestUpTo ==
  ASSUME NEW N \in Nat, NEW S, S \subseteq 1..N, S # {}
  PROVE  \E x \in S : \A y \in S : y <= x
<1> DEFINE T == {N - n : n \in S}
<1>1. T \subseteq Nat /\ T # {}
  <2>1. ASSUME NEW n \in 1..N
        PROVE  N - n \in Nat
    OBVIOUS
  <2> QED BY <2>1
<1>2. PICK z \in T : \A y \in T : z <= y
  BY <1>1, SmallestNat
<1>3. PICK x \in S : z = N - x
  OBVIOUS
<1>4. ASSUME NEW y \in S
      PROVE  y <= x
  <2>1. N - x <= N - y
    BY <1>2, <1>3
  <2>2. x \in Int /\ y \in Int
    OBVIOUS
  <2> QED BY <2>1, <2>2
<1> QED BY <1>4

LEMMA NotesFinite ==
  ASSUME NEW S, S \subseteq Notes
  PROVE  IsFiniteSet(S) /\ Cardinality(S) \in Nat
<1>1. IsFiniteSet(Notes)
  BY FS_Interval DEF Notes
<1>2. IsFiniteSet(S)
  BY <1>1, FS_Subset
<1> QED BY <1>2, FS_CardinalityType

\* The oldest of a set are at most a batch: all but the youngest of them come
\* before the youngest, which has fewer than a batch before it.
LEMMA OldestFitBatch ==
  ASSUME NEW S, S \subseteq Notes
  PROVE  Oldest(S) \subseteq S /\ Cardinality(Oldest(S)) <= BatchSize
<1> DEFINE B == Oldest(S)
<1>1. B \subseteq S /\ B \subseteq Notes
  BY DEF Oldest
<1>2. CASE B = {}
  BY <1>1, <1>2, FS_EmptySet
<1>3. CASE B # {}
  <2>1. PICK x \in B : \A y \in B : y <= x
    BY <1>1, <1>3, LargestUpTo DEF Notes
  <2> DEFINE before == {k \in S : k < x}
  <2>2. Cardinality(before) < BatchSize /\ before \subseteq Notes
    BY <2>1 DEF Oldest
  <2>3. B \ {x} \subseteq before
    BY <1>1, <2>1 DEF Notes
  <2>4. IsFiniteSet(before) /\ Cardinality(before) \in Nat /\ IsFiniteSet(B) /\ Cardinality(B) \in Nat
    BY <1>1, <2>2, NotesFinite
  <2>5. Cardinality(B \ {x}) <= Cardinality(before) /\ Cardinality(B \ {x}) = Cardinality(B) - 1
    BY <2>1, <2>3, <2>4, FS_Subset, FS_RemoveElement
  <2>6. \A b, c \in Nat : b - 1 <= c /\ c < BatchSize => b <= BatchSize
    OBVIOUS
  <2> QED BY <1>1, <2>2, <2>4, <2>5, <2>6
<1> QED BY <1>2, <1>3

-----------------------------------------------------------------------------
(* What mails cost.                                                         *)

\* Spent and budget are numbers, before and after a step.
LEMMA Countable ==
  ASSUME MailInv, NEW n \in Notes
  PROVE  /\ mailed[n] \in Nat /\ faults \in Nat
         /\ IsFiniteSet(StillToSend(n)) /\ Cardinality(StillToSend(n)) \in Nat
         /\ Spent(n) \in Nat /\ Budget(n) \in Nat /\ Spent(n) <= Budget(n)
<1>1. mailed[n] \in Nat /\ faults \in Nat /\ IsFiniteSet(cut)
  BY DEF MailInv, MailTypeOK
<1>2. StillToSend(n) \subseteq cut
  BY DEF StillToSend
<1>3. IsFiniteSet(StillToSend(n)) /\ Cardinality(StillToSend(n)) \in Nat
  BY <1>1, <1>2, FS_Subset, FS_CardinalityType
<1> QED BY <1>1, <1>3 DEF Spent, Budget, MailInv, MailsCostFaults

\* A step that spends what it adds to the budget.
LEMMA Balance ==
  ASSUME NEW a \in Nat, NEW b \in Nat, a <= b, NEW k \in Nat, NEW c \in Nat, NEW d \in Nat,
         c <= a + k, b + k <= d
  PROVE  c <= d
  OBVIOUS

LEMMA AtMostOnTop ==
  ASSUME NEW x \in Nat, NEW y \in Nat, NEW k \in Nat, NEW c \in Nat, NEW d \in Nat,
         y <= x + k, d <= c
  PROVE  y + d <= (x + c) + k /\ y + d \in Nat /\ x + c \in Nat
  OBVIOUS

\* A notification that nothing happens to, or a failure pays for.
LEMMA CostKept ==
  ASSUME MailInv, NEW n \in Notes, StillToSend(n)' \subseteq StillToSend(n),
         \/ faults' = faults /\ mailed'[n] = mailed[n] /\ (Done(n) => Done(n)')
         \/ faults' = faults + 1 /\ mailed'[n] = mailed[n]
         \/ faults' = faults + 1 /\ mailed'[n] = mailed[n] + 1 /\ (Done(n) => Done(n)')
  PROVE  Spent(n)' <= Budget(n)'
<1>1. /\ Cardinality(StillToSend(n)') \in Nat
      /\ Cardinality(StillToSend(n)') <= Cardinality(StillToSend(n))
  BY Countable, FS_Subset, FS_CardinalityType
<1>2. Spent(n)' = mailed'[n] + Cardinality(StillToSend(n)')
  BY DEF Spent
<1>3. Spent(n) = mailed[n] + Cardinality(StillToSend(n))
  BY DEF Spent
<1>4. CASE mailed'[n] = mailed[n]
  <2>1. Spent(n)' <= Spent(n) + 0 /\ Spent(n)' \in Nat
    BY <1>1, <1>2, <1>3, <1>4, Countable, AtMostOnTop
  <2>2. Budget(n) + 0 <= Budget(n)' /\ Budget(n)' \in Nat
    BY <1>4, Countable DEF Budget
  <2> QED BY <2>1, <2>2, Countable, Balance
<1>5. CASE mailed'[n] = mailed[n] + 1 /\ faults' = faults + 1 /\ (Done(n) => Done(n)')
  <2>1. Spent(n)' <= Spent(n) + 1 /\ Spent(n)' \in Nat
    BY <1>1, <1>2, <1>3, <1>5, Countable, AtMostOnTop
  <2>2. Budget(n) + 1 <= Budget(n)' /\ Budget(n)' \in Nat
    BY <1>5, Countable DEF Budget
  <2> QED BY <2>1, <2>2, Countable, Balance
<1> QED BY <1>4, <1>5

-----------------------------------------------------------------------------
(* Notifications and accounts.                                              *)

LEMMA MailInitInv == MailInit => MailInv
<1> SUFFICES ASSUME MailInit PROVE MailInv
  OBVIOUS
<1>0. /\ cut = {} /\ stored = {} /\ sentAt = {} /\ faults = 0 /\ nextNote = 1
      /\ \A m \in Relays : relay[m] = Stopped
      /\ \A n \in Notes : mailed[n] = 0
  BY DEF MailInit
<1>1. MailTypeOK
  <2>1. Cardinality({}) = 0 /\ 0 <= BatchSize
    BY FS_EmptySet
  <2>2. \A m \in Relays : relay[m] \in [claim : SUBSET Notes, left : SUBSET Notes, sent : SUBSET Notes]
    BY <1>0 DEF Stopped
  <2>3. 1 \in 1..MaxNotes + 1 /\ 0 \in 0..MaxFaults
    OBVIOUS
  <2> QED BY <1>0, <2>1, <2>2, <2>3 DEF MailInit, MailTypeOK, Stopped
<1>2. IsFiniteSet(cut)
  BY <1>0, FS_EmptySet
<1>3. ClaimsHeld /\ NumbersGivenOut /\ SentWasMailed /\ MarkedOnlyIfMailed
  BY <1>0 DEF ClaimsHeld, NumbersGivenOut, SentWasMailed, MarkedOnlyIfMailed, Stopped
<1>4. MailsCostFaults
  <2> SUFFICES ASSUME NEW n \in Notes PROVE Spent(n) <= Budget(n)
    BY DEF MailsCostFaults
  <2>1. StillToSend(n) = {}
    BY <1>0 DEF StillToSend
  <2>2. Spent(n) = 0 /\ Budget(n) \in {0, 1}
    BY <1>0, <2>1, FS_EmptySet DEF Spent, Budget
  <2> QED BY <2>2
<1> QED BY <1>1, <1>2, <1>3, <1>4 DEF MailInv

\* Steps of handlers and deletions that leave the notifications alone.
LEMMA AccountStep ==
  ASSUME MailInv, UNCHANGED <<accounts, noteVars, relayVars, mailed>>,
         storing' \subseteq Users, deleting' \subseteq accounts,
         deleting' \cap LockedUsers \subseteq deleting,
         faults' = faults \/ Fault
  PROVE  MailInv'
<1> USE DEF noteVars, relayVars
<1>1. faults' \in 0..MaxFaults /\ faults' \in {faults, faults + 1}
  BY DEF MailInv, MailTypeOK, Fault
<1>2. MailTypeOK' /\ IsFiniteSet(cut')
  BY <1>1 DEF MailInv, MailTypeOK
<1>3. ClaimsHeld'
  <2>1. \A m \in Relays \ cut : \A n \in relay[m].claim : recipient[n] \in LockedUsers
    BY DEF LockedUsers, LockedNotes
  <2> QED BY <2>1 DEF MailInv, ClaimsHeld, Pending
<1>4. NumbersGivenOut' /\ SentWasMailed' /\ MarkedOnlyIfMailed'
  BY DEF MailInv, NumbersGivenOut, SentWasMailed, MarkedOnlyIfMailed
<1>5. MailsCostFaults'
  <2>1. ASSUME NEW n \in Notes
        PROVE  StillToSend(n)' = StillToSend(n) /\ Done(n)' = Done(n)
    BY DEF StillToSend, Done
  <2> QED BY <1>1, <2>1, CostKept DEF MailsCostFaults
<1> QED BY <1>2, <1>3, <1>4, <1>5 DEF MailInv

\* A new notification has a number that no relay and no mail knows.
LEMMA StoreStep ==
  ASSUME MailInv, NEW u \in Users, Store(u)
  PROVE  MailInv'
<1>0. MailTypeOK /\ nextNote \in Notes /\ nextNote \in Nat
  BY DEF MailInv, MailTypeOK, Store, Notes
<1>1. /\ recipient' \in [Notes -> Users \cup {Nobody}]
      /\ \A n \in Notes \ {nextNote} : recipient'[n] = recipient[n]
      /\ stored' = stored \cup {nextNote} /\ nextNote' = nextNote + 1
      /\ storing' = storing \ {u}
      /\ UNCHANGED <<accounts, sentAt, deleting, relay, cut, mailed, faults>>
  BY <1>0 DEF Store, MailTypeOK, relayVars
<1>2. \A m \in Relays : \A n \in relay[m].claim : n \in Notes /\ n < nextNote /\ n # nextNote
  BY <1>0 DEF MailInv, NumbersGivenOut, MailTypeOK, Notes
<1>3. MailTypeOK' /\ IsFiniteSet(cut')
  <2>1. nextNote' \in 1..MaxNotes + 1
    BY <1>0, <1>1 DEF Notes
  <2> QED BY <1>0, <1>1, <2>1 DEF MailInv, MailTypeOK
<1>4. ClaimsHeld'
  BY <1>1, <1>2 DEF MailInv, ClaimsHeld, Pending
<1>5. NumbersGivenOut'
  <2>1. \A n \in Notes : n < nextNote => n < nextNote'
    BY <1>0, <1>1 DEF Notes
  <2>2. nextNote < nextNote'
    BY <1>0, <1>1
  <2>3. \A n \in Notes : n >= nextNote' => n >= nextNote
    BY <1>0, <1>1 DEF Notes
  <2> QED BY <1>0, <1>1, <1>2, <2>1, <2>2, <2>3 DEF MailInv, MailTypeOK, NumbersGivenOut
<1>6. SentWasMailed' /\ MarkedOnlyIfMailed'
  BY <1>1 DEF MailInv, SentWasMailed, MarkedOnlyIfMailed
<1>7. ASSUME NEW n \in Notes
      PROVE  Spent(n)' <= Budget(n)'
  <2>1. StillToSend(n)' = StillToSend(n)
    BY <1>1 DEF StillToSend
  <2>2. CASE n # nextNote
    <3>1. Done(n)' = Done(n)
      BY <1>1, <2>2 DEF Done
    <3> QED BY <1>1, <2>1, <3>1, CostKept
  <2>3. CASE n = nextNote
    <3>1. StillToSend(n) = {} /\ mailed[n] = 0
      <4>1. \A m \in Relays : n \notin relay[m].left
        BY <1>0, <1>2, <2>3 DEF MailTypeOK
      <4> QED BY <1>0, <2>3, <4>1 DEF MailInv, NumbersGivenOut, StillToSend, MailTypeOK
    <3>2. Spent(n)' = 0
      BY <1>1, <2>1, <3>1, FS_EmptySet DEF Spent
    <3>3. Budget(n)' \in Nat
      BY <1>1, Countable DEF Budget
    <3> QED BY <3>2, <3>3
  <2> QED BY <2>2, <2>3
<1> QED BY <1>3, <1>4, <1>5, <1>6, <1>7 DEF MailInv, MailsCostFaults

\* A deletion takes no notification that a relay holds: the relay would hold
\* the recipient as well.
LEMMA CommitDeletionStep ==
  ASSUME MailInv, NEW u \in Users, CommitDeletion(u)
  PROVE  MailInv'
<1>1. /\ u \in deleting
      /\ stored' \subseteq stored /\ \A n \in stored : recipient[n] # u => n \in stored'
      /\ sentAt' = sentAt \cap stored' /\ accounts' = accounts \ {u} /\ deleting' = deleting \ {u}
      /\ UNCHANGED <<recipient, nextNote, storing, relay, cut, mailed, faults>>
  BY DEF CommitDeletion, relayVars
<1>2. MailTypeOK' /\ IsFiniteSet(cut')
  BY <1>1 DEF MailInv, MailTypeOK
<1>3. ClaimsHeld'
  BY <1>1 DEF MailInv, ClaimsHeld, Pending
<1>4. NumbersGivenOut' /\ SentWasMailed' /\ MarkedOnlyIfMailed'
  BY <1>1 DEF MailInv, NumbersGivenOut, SentWasMailed, MarkedOnlyIfMailed
<1>5. ASSUME NEW n \in Notes
      PROVE  Spent(n)' <= Budget(n)'
  <2>1. StillToSend(n)' = StillToSend(n)
    BY <1>1 DEF StillToSend
  <2>2. Done(n) => Done(n)'
    BY <1>1 DEF Done
  <2> QED BY <1>1, <2>1, <2>2, CostKept
<1> QED BY <1>2, <1>3, <1>4, <1>5 DEF MailInv, MailsCostFaults

-----------------------------------------------------------------------------
(* The relays.                                                              *)

RelayRecords == [claim : SUBSET Notes, left : SUBSET Notes, sent : SUBSET Notes]

\* The record of one relay is replaced by a well-formed one.
LEMMA OneRelay ==
  ASSUME MailInv, NEW m \in Relays, NEW x \in RelayRecords, relay' = [relay EXCEPT ![m] = x],
         x.left \cup x.sent \subseteq x.claim, Cardinality(x.claim) <= BatchSize,
         cut' \subseteq cut \cup {m}, m \in cut' => x.claim # {},
         UNCHANGED <<accounts, recipient, stored, nextNote, storing, deleting>>,
         sentAt' \subseteq stored, mailed' \in [Notes -> Nat], faults' = faults \/ Fault
  PROVE  /\ MailTypeOK' /\ IsFiniteSet(cut')
         /\ relay'[m] = x /\ \A k \in Relays \ {m} : relay'[k] = relay[k]
<1>1. /\ relay' \in [Relays -> RelayRecords]
      /\ relay'[m] = x /\ \A k \in Relays \ {m} : relay'[k] = relay[k]
  BY DEF MailInv, MailTypeOK, RelayRecords
<1>2. faults' \in 0..MaxFaults
  BY DEF MailInv, MailTypeOK, Fault
<1>3. IsFiniteSet(cut')
  <2>1. IsFiniteSet(cut \cup {m})
    BY FS_AddElement DEF MailInv
  <2> QED BY <2>1, FS_Subset
<1>4. \A k \in Relays : /\ relay'[k].left \cup relay'[k].sent \subseteq relay'[k].claim
                        /\ Cardinality(relay'[k].claim) <= BatchSize
  BY <1>1 DEF MailInv, MailTypeOK
<1>5. cut' \subseteq {k \in Relays : relay'[k].claim # {}}
  BY <1>1 DEF MailInv, MailTypeOK
<1> QED BY <1>1, <1>2, <1>3, <1>4, <1>5 DEF MailInv, MailTypeOK, RelayRecords

\* A relay that ends, however: what it held is free, and what it sent is
\* either marked, or paid for by a failure, or was not held any more.
LEMMA EndStep ==
  ASSUME MailInv, NEW m \in Relays, relay' = [relay EXCEPT ![m] = Stopped],
         cut' = cut \ {m},
         UNCHANGED <<accounts, recipient, stored, nextNote, storing, deleting, mailed>>,
         sentAt \subseteq sentAt', sentAt' \subseteq sentAt \cup relay[m].sent,
         sentAt' = sentAt \/ m \notin cut,
         \/ Fault
         \/ faults' = faults /\ (m \in cut \/ relay[m].sent \subseteq sentAt')
  PROVE  MailInv'
<1>0. /\ Stopped \in RelayRecords /\ Cardinality(Stopped.claim) <= BatchSize
      /\ Stopped.claim = {} /\ Stopped.left = {} /\ Stopped.sent = {}
  <2>1. Cardinality({}) = 0 /\ 0 <= BatchSize
    BY FS_EmptySet
  <2> QED BY <2>1 DEF Stopped, RelayRecords
<1>1. sentAt' \subseteq stored
  <2>1. m \notin cut => relay[m].sent \subseteq stored
    BY DEF MailInv, MailTypeOK, ClaimsHeld, Pending
  <2> QED BY <2>1 DEF MailInv, MailTypeOK
<1>2. /\ MailTypeOK' /\ IsFiniteSet(cut')
      /\ relay'[m] = Stopped /\ \A k \in Relays \ {m} : relay'[k] = relay[k]
  BY <1>0, <1>1, OneRelay DEF MailInv, MailTypeOK
<1>3. ClaimsHeld'
  <2> SUFFICES ASSUME NEW k \in Relays \ cut'
               PROVE  /\ \A n \in relay'[k].claim : n \in Pending' /\ recipient'[n] \in accounts' \ deleting'
                      /\ \A j \in Relays \ cut' : j # k => relay'[j].claim \cap relay'[k].claim = {}
    BY DEF ClaimsHeld
  <2>1. CASE k = m
    BY <1>0, <1>2, <2>1
  <2>2. CASE k # m
    <3>1. k \notin cut /\ relay'[k] = relay[k]
      BY <1>2, <2>2
    <3>2. \A j \in Relays \ cut' : j # k => relay'[j].claim \cap relay[k].claim = {}
      BY <1>0, <1>2, <3>1 DEF MailInv, ClaimsHeld
    <3>3. \A n \in relay[k].claim : n \notin sentAt'
      <4>1. \A n \in relay[k].claim : n \notin sentAt
        BY <3>1 DEF MailInv, ClaimsHeld, Pending
      <4>2. m \notin cut => relay[k].claim \cap relay[m].sent = {}
        BY <2>2, <3>1 DEF MailInv, MailTypeOK, ClaimsHeld
      <4> QED BY <4>1, <4>2
    <3> QED BY <3>1, <3>2, <3>3 DEF MailInv, ClaimsHeld, Pending
  <2> QED BY <2>1, <2>2
<1>4. NumbersGivenOut' /\ SentWasMailed' /\ MarkedOnlyIfMailed'
  BY <1>0, <1>2 DEF MailInv, NumbersGivenOut, SentWasMailed, MarkedOnlyIfMailed
<1>5. ASSUME NEW n \in Notes
      PROVE  Spent(n)' <= Budget(n)'
  <2>1. StillToSend(n)' \subseteq StillToSend(n)
    BY <1>2 DEF StillToSend
  <2>2. CASE Fault
    BY <2>1, <2>2, CostKept DEF Fault
  <2>3. CASE faults' = faults /\ (m \in cut \/ relay[m].sent \subseteq sentAt')
    <3>1. Done(n) => Done(n)'
      BY <1>2, <2>3 DEF Done
    <3> QED BY <2>1, <2>3, <3>1, CostKept
  <2> QED BY <2>2, <2>3
<1> QED BY <1>2, <1>3, <1>4, <1>5 DEF MailInv, MailsCostFaults

LEMMA RunEndsStep ==
  ASSUME MailInv, NEW m \in Relays, MarkSent(m) \/ MarkFails(m) \/ RunFails(m)
  PROVE  MailInv'
<1>1. CASE MarkSent(m)
  <2>1. cut' = cut \ {m}
    BY <1>1 DEF MarkSent
  <2> QED BY <1>1, <2>1, EndStep DEF MarkSent
<1>2. CASE MarkFails(m)
  BY <1>2, EndStep DEF MarkFails, noteVars
<1>3. CASE RunFails(m)
  BY <1>3, EndStep DEF RunFails, noteVars
<1> QED BY <1>1, <1>2, <1>3

\* A claim takes pending notifications of accounts that stay, which no other
\* relay holds.
LEMMA ClaimPendingStep ==
  ASSUME MailInv, NEW m \in Relays, ClaimPending(m)
  PROVE  MailInv'
<1> DEFINE B == Oldest(Claimable)
           x == [claim |-> B, left |-> B, sent |-> {}]
<1>0. Claimable \subseteq Notes /\ B \subseteq Claimable /\ Cardinality(B) <= BatchSize
  <2>1. Claimable \subseteq Notes
    BY DEF Claimable, Pending, MailInv, MailTypeOK
  <2> QED BY <2>1, OldestFitBatch
<1>1. /\ relay[m] = Stopped /\ relay' = [relay EXCEPT ![m] = x]
      /\ UNCHANGED <<accounts, recipient, stored, sentAt, nextNote, storing, deleting, cut, mailed, faults>>
  BY DEF ClaimPending, noteVars
<1>2. m \notin cut /\ relay[m].sent = {} /\ x \in RelayRecords
  BY <1>0, <1>1 DEF MailInv, MailTypeOK, Stopped, RelayRecords
<1>3. /\ MailTypeOK' /\ IsFiniteSet(cut')
      /\ relay'[m] = x /\ \A k \in Relays \ {m} : relay'[k] = relay[k]
  BY <1>0, <1>1, <1>2, OneRelay DEF MailInv, MailTypeOK
<1> HIDE DEF x, B
<1>4. x.claim = B /\ x.left = B /\ x.sent = {}
  BY DEF x
<1>5. \A n \in B : /\ n \in Pending /\ recipient[n] \in accounts \ deleting
                   /\ \A k \in Relays \ cut : n \notin relay[k].claim
  BY <1>0 DEF Claimable, LockedNotes
<1>6. ClaimsHeld'
  <2>1. ASSUME NEW k \in Relays \ cut, NEW n \in relay'[k].claim
        PROVE  n \in Pending /\ recipient[n] \in accounts \ deleting
    BY <1>3, <1>4, <1>5 DEF MailInv, ClaimsHeld
  <2>2. ASSUME NEW k \in Relays \ cut, NEW j \in Relays \ cut, j # k
        PROVE  relay'[j].claim \cap relay'[k].claim = {}
    BY <1>3, <1>4, <1>5, <2>2 DEF MailInv, ClaimsHeld
  <2> QED BY <1>1, <2>1, <2>2 DEF ClaimsHeld, Pending
<1>7. NumbersGivenOut' /\ SentWasMailed' /\ MarkedOnlyIfMailed'
  BY <1>1, <1>3, <1>4, <1>5 DEF MailInv, NumbersGivenOut, SentWasMailed, MarkedOnlyIfMailed, Pending
<1>8. ASSUME NEW n \in Notes
      PROVE  Spent(n)' <= Budget(n)'
  <2>1. StillToSend(n)' = StillToSend(n)
    BY <1>1, <1>2, <1>3 DEF StillToSend
  <2>2. Done(n) => Done(n)'
    BY <1>1, <1>2, <1>3 DEF Done
  <2> QED BY <1>1, <2>1, <2>2, CostKept
<1> QED BY <1>3, <1>6, <1>7, <1>8 DEF MailInv, MailsCostFaults

\* One notification of a batch is dealt with: everything but its cost.
LEMMA DealtWith ==
  ASSUME MailInv, NEW m \in Relays, NEW n \in Notes, n \in relay[m].left,
         NEW sent, sent \in {relay[m].sent, relay[m].sent \cup {n}},
         relay' = [relay EXCEPT ![m].left = @ \ {n}, ![m].sent = sent],
         UNCHANGED <<accounts, noteVars, storing, deleting, cut>>,
         \/ mailed' = mailed /\ sent = relay[m].sent
         \/ mailed' = [mailed EXCEPT ![n] = @ + 1],
         faults' = faults \/ Fault
  PROVE  /\ MailTypeOK' /\ IsFiniteSet(cut')
         /\ ClaimsHeld' /\ NumbersGivenOut' /\ SentWasMailed' /\ MarkedOnlyIfMailed'
         /\ relay'[m].left = relay[m].left \ {n} /\ relay'[m].sent = sent
         /\ \A k \in Relays \ {m} : relay'[k] = relay[k]
         /\ \A k \in Notes \ {n} : mailed'[k] = mailed[k]
         /\ mailed'[n] \in {mailed[n], mailed[n] + 1}
<1> DEFINE x == [relay[m] EXCEPT !.left = @ \ {n}, !.sent = sent]
<1>0. MailTypeOK /\ relay \in [Relays -> RelayRecords] /\ relay[m] \in RelayRecords
  BY DEF MailInv, MailTypeOK, RelayRecords
<1>1. /\ x \in RelayRecords /\ relay' = [relay EXCEPT ![m] = x]
      /\ x.claim = relay[m].claim /\ x.left = relay[m].left \ {n} /\ x.sent = sent
  BY <1>0 DEF RelayRecords
<1> HIDE DEF x
<1>2. /\ relay[m].left \cup relay[m].sent \subseteq relay[m].claim
      /\ x.left \cup x.sent \subseteq x.claim /\ Cardinality(x.claim) <= BatchSize
      /\ m \in cut => x.claim # {}
  BY <1>0, <1>1 DEF MailTypeOK
<1>3. /\ mailed' \in [Notes -> Nat]
      /\ \A k \in Notes \ {n} : mailed'[k] = mailed[k]
      /\ mailed'[n] \in {mailed[n], mailed[n] + 1}
      /\ sent # relay[m].sent => mailed'[n] = mailed[n] + 1
      /\ \A k \in Notes : mailed[k] > 0 => mailed'[k] > 0
  <2>1. CASE mailed' = mailed
    BY <1>0, <2>1 DEF MailTypeOK
  <2>2. CASE mailed' = [mailed EXCEPT ![n] = @ + 1]
    <3>1. mailed \in [Notes -> Nat] /\ mailed[n] \in Nat /\ mailed[n] + 1 \in Nat /\ mailed[n] + 1 > 0
      BY <1>0 DEF MailTypeOK
    <3> QED BY <2>2, <3>1
  <2> QED BY <2>1, <2>2
<1>4. /\ MailTypeOK' /\ IsFiniteSet(cut')
      /\ relay'[m] = x /\ \A k \in Relays \ {m} : relay'[k] = relay[k]
  BY <1>0, <1>1, <1>2, <1>3, OneRelay DEF MailTypeOK, noteVars
<1>5. \A k \in Relays : relay'[k].claim = relay[k].claim
  BY <1>1, <1>4
<1>6. ClaimsHeld'
  BY <1>5 DEF MailInv, ClaimsHeld, Pending, noteVars
<1>7. NumbersGivenOut'
  <2>1. n < nextNote
    BY <1>2 DEF MailInv, NumbersGivenOut
  <2>2. ~(n >= nextNote)
    BY <1>0, <2>1 DEF MailTypeOK, Notes
  <2> QED BY <1>3, <1>5, <2>2 DEF MailInv, NumbersGivenOut, noteVars
<1>8. SentWasMailed'
  <2> SUFFICES ASSUME NEW k \in Relays
               PROVE  /\ relay'[k].left \cap relay'[k].sent = {}
                      /\ \A i \in relay'[k].sent : mailed'[i] > 0
    BY DEF SentWasMailed
  <2>0. /\ relay[k].left \cap relay[k].sent = {} /\ relay[k].sent \subseteq Notes
        /\ \A i \in relay[k].sent : mailed[i] > 0
    BY <1>0 DEF MailInv, SentWasMailed, RelayRecords
  <2>1. CASE k # m
    BY <1>3, <1>4, <2>0, <2>1
  <2>2. CASE k = m
    <3>1. sent # relay[m].sent => mailed'[n] > 0
      <4>1. mailed[n] \in Nat /\ mailed[n] + 1 > 0
        BY <1>0 DEF MailTypeOK
      <4> QED BY <1>3, <4>1
    <3> QED BY <1>1, <1>3, <1>4, <2>0, <2>2, <3>1
  <2> QED BY <2>1, <2>2
<1>9. MarkedOnlyIfMailed'
  BY <1>0, <1>3 DEF MailInv, MarkedOnlyIfMailed, MailTypeOK, noteVars
<1> QED BY <1>1, <1>3, <1>4, <1>6, <1>7, <1>8, <1>9

\* A relay without its connection has one notification less to send; one with
\* its connection is the only one to have sent it.
LEMMA SendStep ==
  ASSUME MailInv, NEW m \in Relays, NEW n \in Notes, Send(m, n)
  PROVE  MailInv'
<1>1. /\ n \in relay[m].left
      /\ relay' = [relay EXCEPT ![m].left = @ \ {n}, ![m].sent = relay[m].sent \cup {n}]
      /\ mailed' = [mailed EXCEPT ![n] = @ + 1]
      /\ UNCHANGED <<accounts, noteVars, storing, deleting, cut, faults>>
  BY DEF Send, IsNext
<1>2. /\ MailTypeOK' /\ IsFiniteSet(cut')
      /\ ClaimsHeld' /\ NumbersGivenOut' /\ SentWasMailed' /\ MarkedOnlyIfMailed'
      /\ relay'[m].left = relay[m].left \ {n} /\ relay'[m].sent = relay[m].sent \cup {n}
      /\ \A k \in Relays \ {m} : relay'[k] = relay[k]
      /\ \A k \in Notes \ {n} : mailed'[k] = mailed[k]
  BY <1>1, DealtWith
<1>c. cut \subseteq Relays /\ cut' = cut
  BY <1>1 DEF MailInv, MailTypeOK
<1>3. mailed'[n] = mailed[n] + 1
  BY <1>1 DEF MailInv, MailTypeOK
<1>4. ASSUME NEW k \in Notes \ {n}
      PROVE  Spent(k)' <= Budget(k)'
  <2>1. StillToSend(k)' = StillToSend(k)
    BY <1>c, <1>2 DEF StillToSend
  <2>2. Done(k) => Done(k)'
    BY <1>1, <1>2 DEF Done, noteVars
  <2> QED BY <1>1, <1>2, <2>1, <2>2, CostKept
<1>5. Spent(n)' <= Budget(n)'
  <2>0. /\ StillToSend(n)' = StillToSend(n) \ {m}
        /\ Done(n) => Done(n)'
    BY <1>1, <1>c, <1>2 DEF StillToSend, Done, noteVars
  <2>1. CASE m \in cut
    <3>1. m \in StillToSend(n)
      BY <1>1, <2>1 DEF StillToSend
    <3>2. Cardinality(StillToSend(n)') = Cardinality(StillToSend(n)) - 1
      BY <2>0, <3>1, Countable, FS_RemoveElement
    <3>3. \A a, c \in Nat : (a + 1) + (c - 1) = a + c
      OBVIOUS
    <3>4. Spent(n)' = Spent(n)
      BY <1>3, <3>2, <3>3, Countable DEF Spent
    <3>5. Budget(n) <= Budget(n)'
      BY <1>1, <2>0, Countable DEF Budget
    <3>6. Budget(n)' \in Nat
      BY <1>1, Countable DEF Budget
    <3>7. \A a, b, c \in Nat : a <= b /\ b <= c => a <= c
      OBVIOUS
    <3> QED BY <3>4, <3>5, <3>6, <3>7, Countable
  <2>2. CASE m \notin cut
    <3>1. ~Done(n)
      <4>1. n \in relay[m].claim /\ n \notin relay[m].sent
        BY <1>1 DEF MailInv, MailTypeOK, SentWasMailed
      <4>2. n \in stored /\ n \notin sentAt
        BY <2>2, <4>1 DEF MailInv, ClaimsHeld, Pending
      <4>3. \A k \in Relays \ cut : k # m => n \notin relay[k].sent
        BY <2>2, <4>1 DEF MailInv, MailTypeOK, ClaimsHeld
      <4> QED BY <4>1, <4>2, <4>3 DEF Done
    <3>2. Done(n)'
      BY <1>1, <1>2, <2>2 DEF Done
    <3>3. StillToSend(n)' = StillToSend(n)
      BY <2>0, <2>2 DEF StillToSend
    <3>4. Spent(n)' = (mailed[n] + 1) + Cardinality(StillToSend(n))
      BY <1>3, <3>3 DEF Spent
    <3>5. Spent(n) = mailed[n] + Cardinality(StillToSend(n)) /\ Spent(n) <= faults
      BY <3>1, Countable DEF Spent, Budget
    <3>6. \A a, c, f \in Nat : a + c <= f => (a + 1) + c <= f + 1
      OBVIOUS
    <3>7. Spent(n)' <= faults + 1
      BY <3>4, <3>5, <3>6, Countable
    <3> QED BY <1>1, <3>2, <3>7 DEF Budget
  <2> QED BY <2>1, <2>2
<1> QED BY <1>2, <1>4, <1>5 DEF MailInv, MailsCostFaults

LEMMA SendRefusedStep ==
  ASSUME MailInv, NEW m \in Relays, NEW n \in Notes, SendRefused(m, n) \/ SendFails(m, n)
  PROVE  MailInv'
<1>0. relay \in [Relays -> RelayRecords]
  BY DEF MailInv, MailTypeOK, RelayRecords
<1>1. /\ n \in relay[m].left
      /\ relay' = [relay EXCEPT ![m].left = @ \ {n}, ![m].sent = relay[m].sent]
      /\ UNCHANGED <<accounts, noteVars, storing, deleting, cut>>
      /\ \/ mailed' = mailed /\ faults' = faults
         \/ mailed' = mailed /\ Fault
         \/ mailed' = [mailed EXCEPT ![n] = @ + 1] /\ Fault
  BY <1>0 DEF SendRefused, SendFails, IsNext, RelayRecords
<1>2. /\ MailTypeOK' /\ IsFiniteSet(cut')
      /\ ClaimsHeld' /\ NumbersGivenOut' /\ SentWasMailed' /\ MarkedOnlyIfMailed'
      /\ relay'[m].left = relay[m].left \ {n} /\ relay'[m].sent = relay[m].sent
      /\ \A k \in Relays \ {m} : relay'[k] = relay[k]
      /\ \A k \in Notes \ {n} : mailed'[k] = mailed[k]
      /\ mailed'[n] \in {mailed[n], mailed[n] + 1}
  BY <1>1, DealtWith
<1>c. cut \subseteq Relays /\ cut' = cut
  BY <1>1 DEF MailInv, MailTypeOK
<1>3. ASSUME NEW k \in Notes
      PROVE  Spent(k)' <= Budget(k)'
  <2>1. StillToSend(k)' \subseteq StillToSend(k)
    BY <1>c, <1>2 DEF StillToSend
  <2>2. Done(k) => Done(k)'
    BY <1>1, <1>2 DEF Done, noteVars
  <2>3. CASE faults' = faults /\ mailed' = mailed
    BY <2>1, <2>2, <2>3, CostKept
  <2>4. CASE Fault
    BY <1>2, <2>1, <2>2, <2>4, CostKept DEF Fault
  <2> QED BY <1>1, <2>3, <2>4
<1> QED BY <1>2, <1>3 DEF MailInv, MailsCostFaults

\* The failure pays for every notification the relay has sent and cannot mark,
\* and for every one it is still going to send.
LEMMA ConnectionLostStep ==
  ASSUME MailInv, NEW m \in Relays, ConnectionLost(m)
  PROVE  MailInv'
<1>1. /\ relay[m].claim # {} /\ m \notin cut /\ cut' = cut \cup {m} /\ Fault /\ faults' = faults + 1
      /\ UNCHANGED <<accounts, noteVars, storing, deleting, relay, mailed>>
  BY DEF ConnectionLost, Fault
<1>2. MailTypeOK' /\ IsFiniteSet(cut')
  <2>1. faults' \in 0..MaxFaults
    BY <1>1 DEF MailInv, MailTypeOK, Fault
  <2>2. IsFiniteSet(cut')
    BY <1>1, FS_AddElement DEF MailInv
  <2> QED BY <1>1, <2>1, <2>2 DEF MailInv, MailTypeOK, noteVars
<1>3. ClaimsHeld' /\ NumbersGivenOut' /\ SentWasMailed' /\ MarkedOnlyIfMailed'
  BY <1>1 DEF MailInv, ClaimsHeld, NumbersGivenOut, SentWasMailed, MarkedOnlyIfMailed, Pending, noteVars
<1>4. ASSUME NEW n \in Notes
      PROVE  Spent(n)' <= Budget(n)'
  <2>1. CASE n \notin relay[m].left
    <3>1. StillToSend(n)' = StillToSend(n)
      BY <1>1, <2>1 DEF StillToSend
    <3> QED BY <1>1, <3>1, CostKept
  <2>2. CASE n \in relay[m].left
    <3>1. StillToSend(n)' = StillToSend(n) \cup {m} /\ m \notin StillToSend(n)
      BY <1>1, <2>2 DEF StillToSend
    <3>2. Cardinality(StillToSend(n)') = Cardinality(StillToSend(n)) + 1
      BY <3>1, Countable, FS_AddElement
    <3>3. Done(n)' = Done(n)
      BY <1>1, <2>2 DEF Done, MailInv, SentWasMailed, noteVars
    <3>4. Spent(n)' = mailed[n] + (Cardinality(StillToSend(n)) + 1)
      BY <1>1, <3>2 DEF Spent
    <3>5. \A a, c \in Nat : a + (c + 1) <= (a + c) + 1 /\ a + (c + 1) \in Nat
      OBVIOUS
    <3>6. Spent(n)' <= Spent(n) + 1 /\ Spent(n)' \in Nat
      BY <3>4, <3>5, Countable DEF Spent
    <3>7. Budget(n) + 1 <= Budget(n)' /\ Budget(n)' \in Nat
      BY <1>1, <3>3, Countable DEF Budget
    <3> QED BY <3>6, <3>7, Countable, Balance
  <2> QED BY <2>1, <2>2
<1> QED BY <1>2, <1>3, <1>4 DEF MailInv, MailsCostFaults

-----------------------------------------------------------------------------

LEMMA MailInvStep == MailInv /\ [MailNext]_mailVars => MailInv'
<1> SUFFICES ASSUME MailInv, [MailNext]_mailVars PROVE MailInv'
  OBVIOUS
<1>0. deleting \subseteq accounts /\ storing \subseteq Users /\ accounts \subseteq Users
  BY DEF MailInv, MailTypeOK
<1>1. ASSUME NEW u \in Users, ReadRecipient(u)
      PROVE  MailInv'
  BY <1>0, <1>1, AccountStep DEF ReadRecipient
<1>2. ASSUME NEW u \in Users, BeginDeletion(u)
      PROVE  MailInv'
  BY <1>0, <1>2, AccountStep DEF BeginDeletion
<1>3. ASSUME NEW u \in Users, AbortDeletion(u)
      PROVE  MailInv'
  BY <1>0, <1>3, AccountStep DEF AbortDeletion
<1>4. ASSUME NEW m \in Relays, RelayRuns(m)
      PROVE  MailInv'
  BY <1>4, ClaimPendingStep, SendStep, SendRefusedStep, RunEndsStep DEF RelayRuns
<1>5. CASE UNCHANGED mailVars
  BY <1>0, <1>5, AccountStep DEF mailVars
<1> QED BY <1>1, <1>2, <1>3, <1>4, <1>5, StoreStep, CommitDeletionStep, RunEndsStep,
        ConnectionLostStep, SendRefusedStep DEF MailNext

LEMMA MailInvariance == MailSpec => []MailInv
  BY MailInitInv, MailInvStep, PTL DEF MailSpec

\* Every variable has its type: no batch is larger than batchSize, and a relay
\* marks only notifications that are stored.
THEOREM MailTypes == MailSpec => []MailTypeOK
<1>1. MailInv => MailTypeOK
  BY DEF MailInv
<1> QED BY <1>1, MailInvariance, PTL

\* A notification is marked as sent only after the server took its mail.
THEOREM NothingMarkedUnsent == MailSpec => []MarkedOnlyIfMailed
<1>1. MailInv => MarkedOnlyIfMailed
  BY DEF MailInv
<1> QED BY <1>1, MailInvariance, PTL

\* However many relays run, a notification is mailed once, and once more at
\* most for every failure.
THEOREM ResendsCostFailures == MailSpec => []ResentOnlyAfterFailure
<1>1. MailInv => ResentOnlyAfterFailure
  <2> SUFFICES ASSUME MailInv, NEW n \in Notes PROVE mailed[n] <= 1 + faults
    BY DEF ResentOnlyAfterFailure
  <2>1. /\ mailed[n] \in Nat /\ faults \in Nat /\ Cardinality(StillToSend(n)) \in Nat
        /\ mailed[n] + Cardinality(StillToSend(n)) <= Budget(n) /\ Budget(n) \in {faults, faults + 1}
    BY Countable DEF Spent, Budget
  <2>2. \A a, c, b, f \in Nat : a + c <= b /\ (b = f \/ b = f + 1) => a <= 1 + f
    OBVIOUS
  <2>3. Budget(n) \in Nat
    BY Countable
  <2> QED BY <2>1, <2>2, <2>3
<1> QED BY <1>1, MailInvariance, PTL

\* Once the deletion of an account has begun, only a relay that had already
\* claimed the notification and lost its connection may still write to it.
THEOREM DeletedGetNoMail == MailSpec => NoMailAfterDeletion
<1> DEFINE Spared(n) == mailed'[n] > mailed[n] => \/ recipient[n] \in accounts \ deleting
                                                  \/ \E m \in cut : n \in relay[m].left
<1>1. ASSUME MailInv, MailNext, NEW n \in Notes, mailed'[n] > mailed[n]
      PROVE  recipient[n] \in accounts \ deleting \/ \E m \in cut : n \in relay[m].left
  <2>0. mailed \in [Notes -> Nat] /\ ~(mailed[n] > mailed[n])
    <3>0. mailed \in [Notes -> Nat]
      BY ONLY <1>1 DEF MailInv, MailTypeOK
    <3>1. mailed[n] \in Nat
      BY ONLY <3>0, n \in Notes
    <3>2. \A a \in Nat : ~(a > a)
      OBVIOUS
    <3> QED BY ONLY <3>0, <3>1, <3>2
  <2>1. ASSUME NEW m \in Relays, NEW k \in Notes, Send(m, k) \/ SendFails(m, k)
        PROVE  n \in relay[m].left
    BY <1>1, <2>0, <2>1 DEF Send, SendFails, IsNext
  <2>2. ~UNCHANGED mailed
    BY <1>1, <2>0
  <2>3. \E m \in Relays : n \in relay[m].left
    BY <1>1, <2>1, <2>2 DEF MailNext, ReadRecipient, Store, BeginDeletion, CommitDeletion, AbortDeletion,
       RelayRuns, ClaimPending, SendRefused, MarkSent, MarkFails, RunFails, ConnectionLost
  <2> QED BY <1>1, <2>3 DEF MailInv, MailTypeOK, ClaimsHeld
<1>2. MailInv /\ [MailNext]_mailVars => [\A n \in Notes : Spared(n)]_mailVars
  BY <1>1
<1> QED BY <1>2, MailInvariance, PTL DEF MailSpec, NoMailAfterDeletion

=============================================================================
