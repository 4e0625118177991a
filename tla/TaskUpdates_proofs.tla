------------------------- MODULE TaskUpdates_proofs -------------------------
(***************************************************************************)
(* Proofs about the task repository, for any set of tasks, users and       *)
(* concurrent requests.  Everything rests on one inductive invariant,      *)
(* UpdInv: the row lock makes what a transaction read stay true until it   *)
(* ends, and an outbox id belongs to one transaction.                      *)
(***************************************************************************)
EXTENDS TaskUpdates, TLAPS

\* Only one transaction at a time is past its locking SELECT of a row, the row
\* is still there, and `was` still describes it.
ReadIsCurrent ==
  \A r \in Requests : req[r].pc # "idle" =>
    /\ req[r].task \in Tasks
    /\ row[req[r].task].life = "live"
    /\ row[req[r].task].completed = req[r].was
    /\ \A q \in Requests \ {r} : req[q].pc # "idle" => req[q].task # req[r].task

\* The fields about to be written keep completed equal to "in the last column".
ChangesAgree ==
  \A r \in Requests : req[r].pc # "idle" =>
    LET ch == req[r].changes
    IN  IF ch.status = "unset"
          THEN \/ ch.completed = "unset"
               \/ ch.completed = "false" /\ row[req[r].task].status # "completed"
          ELSE ch.completed = (IF ch.status = "completed" THEN "true" ELSE "false")

\* A transaction holds an id exactly while it has an event to commit.
IdOwned ==
  /\ \A r \in Requests :
       /\ req[r].event # 0 <=> (req[r].pc = "written" /\ Completes(r))
       /\ req[r].event < nextId
  /\ \A e \in Events : outbox[e] # NoTask => e < nextId

\* What AUTO_INCREMENT gives: no transaction holds the id of a committed event
\* or of another transaction.
IdsNeverShared ==
  \A r \in Requests : req[r].event # 0 =>
    /\ req[r].event \notin Recorded
    /\ \A q \in Requests \ {r} : req[q].event # req[r].event

UpdInv ==
  /\ UpdTypeOK
  /\ ReadIsCurrent
  /\ ChangesAgree
  /\ IdOwned
  /\ IdsNeverShared
  /\ CompletedFollowsStatus

-----------------------------------------------------------------------------

LEMMA SyncType ==
  ASSUME NEW i \in Input, NEW s \in Statuses
  PROVE  SyncCompletion(i, s) \in [status : Statuses \cup {"unset"},
                                   completed : {"true", "false", "unset"}]
  BY DEF SyncCompletion, Input, Statuses

\* What a valid body makes the update write agrees with the row it was read
\* against (lines 13-26 of completion.ts with the refinement of the routes).
LEMMA SyncAgrees ==
  ASSUME NEW i \in ValidInput, NEW s \in Statuses
  PROVE  LET ch == SyncCompletion(i, s)
         IN  IF ch.status = "unset"
               THEN \/ ch.completed = "unset"
                    \/ ch.completed = "false" /\ s # "completed"
               ELSE ch.completed = (IF ch.status = "completed" THEN "true" ELSE "false")
  BY DEF SyncCompletion, ValidInput, Input, Statuses

LEMMA ApplyType ==
  ASSUME NEW r \in Row,
         NEW ch \in [status : Statuses \cup {"unset"}, completed : {"true", "false", "unset"}]
  PROVE  /\ ApplyChanges(r, ch) \in Row
         /\ ApplyChanges(r, ch).life = r.life
         /\ ApplyChanges(r, ch).status = IF ch.status = "unset" THEN r.status ELSE ch.status
         /\ ApplyChanges(r, ch).completed =
              IF ch.completed = "unset" THEN r.completed ELSE ch.completed = "true"
  BY DEF ApplyChanges, Row, Statuses

LEMMA UpdInitInv == UpdInit => UpdInv
  BY TaskUpdatesAssumption
  DEF UpdInit, UpdInv, UpdTypeOK, ReadIsCurrent, ChangesAgree, IdOwned, IdsNeverShared,
      CompletedFollowsStatus, Row, Statuses, Idle, NoChange, ReqState, Events, Recorded, Completes

LEMMA UpdTypeStep == UpdTypeOK /\ [UpdNext]_updateVars => UpdTypeOK'
<1> SUFFICES ASSUME UpdTypeOK, [UpdNext]_updateVars PROVE UpdTypeOK'
  OBVIOUS
<1> USE TaskUpdatesAssumption DEF UpdTypeOK
<1>0. Idle \in ReqState
  BY DEF Idle, NoChange, ReqState, Statuses
<1>1. ASSUME NEW t \in Tasks, NEW u \in Users, NEW s \in Statuses, Create(t, u, s)
      PROVE UpdTypeOK'
  BY <1>1 DEF Create, Row
<1>2. ASSUME NEW r \in Requests, NEW t \in Tasks, NEW u \in Users, NEW i \in ValidInput,
             SelectForUpdate(r, t, u, i)
      PROVE UpdTypeOK'
  <2>1. SyncCompletion(i, row[t].status) \in [status : Statuses \cup {"unset"},
                                              completed : {"true", "false", "unset"}]
    BY SyncType DEF ValidInput, Row
  <2> QED
    BY <1>2, <2>1 DEF SelectForUpdate, ReqState, Row
<1>3. ASSUME NEW r \in Requests, WriteRow(r) PROVE UpdTypeOK'
  <2>1. CASE Completes(r)
    <3>1. nextId \in 0..MaxEvents /\ nextId' = nextId + 1 /\ nextId' \in 1..MaxEvents + 1
      BY <1>3, <2>1 DEF WriteRow, Events
    <3>2. [req[r] EXCEPT !.pc = "written", !.event = nextId] \in ReqState
      BY <3>1 DEF ReqState
    <3>3. req' = [req EXCEPT ![r] = [req[r] EXCEPT !.pc = "written", !.event = nextId]]
      BY <1>3, <2>1 DEF WriteRow, ReqState
    <3> QED BY <1>3, <3>1, <3>2, <3>3 DEF WriteRow
  <2>2. CASE ~Completes(r)
    <3>1. [req[r] EXCEPT !.pc = "written"] \in ReqState
      BY DEF ReqState
    <3> QED BY <1>3, <2>2, <3>1 DEF WriteRow
  <2> QED BY <2>1, <2>2
<1>4. ASSUME NEW r \in Requests, Commit(r) PROVE UpdTypeOK'
  <2>1. CASE req[r].task = NoTask
    BY <1>0, <1>4, <2>1 DEF Commit, ReqState
  <2>2. CASE req[r].task \in Tasks
    <3>1. ApplyChanges(row[req[r].task], req[r].changes) \in Row
      BY <2>2, ApplyType DEF ReqState
    <3>2. row' \in [Tasks -> Row]
      BY <1>4, <2>2, <3>1 DEF Commit
    <3>3. outbox' \in [Events -> Tasks \cup {NoTask}]
      BY <1>4, <2>2 DEF Commit
    <3> QED BY <1>0, <1>4, <3>2, <3>3 DEF Commit
  <2> QED BY <2>1, <2>2 DEF ReqState
<1>5. ASSUME NEW r \in Requests, Rollback(r) PROVE UpdTypeOK'
  BY <1>0, <1>5 DEF Rollback
<1>6. ASSUME NEW t \in Tasks, NEW u \in Users, Remove(t, u) PROVE UpdTypeOK'
  BY <1>6 DEF Remove, Row
<1>7. ASSUME NEW t \in Tasks, NEW us \in SUBSET Users, ChangeAudience(t, us) PROVE UpdTypeOK'
  BY <1>7 DEF ChangeAudience
<1>8. ASSUME NEW t \in Tasks, NEW u \in Users, ChangeOwner(t, u) PROVE UpdTypeOK'
  BY <1>8 DEF ChangeOwner
<1>9. CASE UNCHANGED updateVars
  BY <1>9 DEF updateVars
<1> QED
  BY <1>1, <1>2, <1>3, <1>4, <1>5, <1>6, <1>7, <1>8, <1>9 DEF UpdNext

-----------------------------------------------------------------------------

\* A step that leaves requests, outbox and ids alone, and the rows of running
\* transactions, keeps everything but the synchronisation of the other rows.
LEMMA RowsOnly ==
  ASSUME UpdInv, UNCHANGED <<outbox, nextId, req>>,
         \A r \in Requests : req[r].pc # "idle" => row'[req[r].task] = row[req[r].task]
  PROVE  ReadIsCurrent' /\ ChangesAgree' /\ IdOwned' /\ IdsNeverShared'
<1>1. ReadIsCurrent' /\ ChangesAgree'
  BY DEF UpdInv, ReadIsCurrent, ChangesAgree
<1>2. IdOwned' /\ IdsNeverShared'
  BY DEF UpdInv, IdOwned, IdsNeverShared, Completes, Recorded
<1> QED BY <1>1, <1>2

LEMMA CreateStep ==
  ASSUME UpdInv, NEW t \in Tasks, NEW u \in Users, NEW s \in Statuses, Create(t, u, s)
  PROVE  ReadIsCurrent' /\ ChangesAgree' /\ IdOwned' /\ IdsNeverShared' /\ CompletedFollowsStatus'
<1>1. \A r \in Requests : req[r].pc # "idle" => row'[req[r].task] = row[req[r].task]
  BY DEF Create, UpdInv, UpdTypeOK, ReadIsCurrent
<1>2. CompletedFollowsStatus'
  BY DEF Create, UpdInv, UpdTypeOK, CompletedFollowsStatus
<1> QED BY <1>1, <1>2, RowsOnly DEF Create

LEMMA RemoveStep ==
  ASSUME UpdInv, NEW t \in Tasks, NEW u \in Users, Remove(t, u)
  PROVE  ReadIsCurrent' /\ ChangesAgree' /\ IdOwned' /\ IdsNeverShared' /\ CompletedFollowsStatus'
<1>1. \A r \in Requests : req[r].pc # "idle" => row'[req[r].task] = row[req[r].task]
  BY DEF Remove, RowLocked, UpdInv, UpdTypeOK, ReadIsCurrent
<1>2. CompletedFollowsStatus'
  BY DEF Remove, UpdInv, UpdTypeOK, Row, CompletedFollowsStatus
<1> QED BY <1>1, <1>2, RowsOnly DEF Remove

LEMMA SelectStep ==
  ASSUME UpdInv, NEW r \in Requests, NEW t \in Tasks, NEW u \in Users, NEW i \in ValidInput,
         SelectForUpdate(r, t, u, i)
  PROVE  ReadIsCurrent' /\ ChangesAgree' /\ IdOwned' /\ IdsNeverShared' /\ CompletedFollowsStatus'
<1> DEFINE new == [pc |-> "locked", task |-> t,
                   changes |-> SyncCompletion(i, row[t].status),
                   was |-> row[t].completed, event |-> 0]
<1>0. /\ req' = [req EXCEPT ![r] = new]
      /\ UNCHANGED <<row, outbox, nextId>>
      /\ req[r].pc = "idle" /\ row[t].life = "live" /\ ~RowLocked(t)
      /\ req'[r] = new
      /\ \A q \in Requests \ {r} : req'[q] = req[q]
      /\ row[t] \in Row
  BY DEF SelectForUpdate, UpdInv, UpdTypeOK
<1>1. ReadIsCurrent'
  BY <1>0 DEF UpdInv, ReadIsCurrent, RowLocked
<1>2. ChangesAgree'
  <2>1. LET ch == new.changes
        IN  IF ch.status = "unset"
              THEN \/ ch.completed = "unset"
                   \/ ch.completed = "false" /\ row[t].status # "completed"
              ELSE ch.completed = (IF ch.status = "completed" THEN "true" ELSE "false")
    BY <1>0, SyncAgrees DEF Row
  <2> HIDE DEF new
  <2>2. new.task = t
    BY DEF new
  <2> QED BY <1>0, <2>1, <2>2 DEF UpdInv, ChangesAgree
<1>3. IdOwned'
  BY <1>0 DEF UpdInv, UpdTypeOK, IdOwned, Completes
<1>4. IdsNeverShared'
  BY <1>0 DEF UpdInv, IdsNeverShared, Recorded
<1>5. CompletedFollowsStatus'
  BY <1>0 DEF UpdInv, CompletedFollowsStatus
<1> QED BY <1>1, <1>2, <1>3, <1>4, <1>5

LEMMA WriteStep ==
  ASSUME UpdInv, NEW r \in Requests, WriteRow(r)
  PROVE  ReadIsCurrent' /\ ChangesAgree' /\ IdOwned' /\ IdsNeverShared' /\ CompletedFollowsStatus'
<1>0. /\ UNCHANGED <<row, outbox>>
      /\ req[r].pc = "locked" /\ req'[r].pc = "written"
      /\ req'[r].task = req[r].task /\ req'[r].changes = req[r].changes
      /\ req'[r].was = req[r].was
      /\ \A q \in Requests \ {r} : req'[q] = req[q]
      /\ Completes(r)' = Completes(r)
      /\ nextId \in Nat \ {0}
  <2>1. /\ req \in [Requests -> ReqState] /\ nextId \in Nat \ {0}
        /\ UNCHANGED <<row, outbox>> /\ req[r].pc = "locked"
    BY DEF WriteRow, UpdInv, UpdTypeOK, Events
  <2>2. \/ req' = [req EXCEPT ![r].pc = "written", ![r].event = nextId]
        \/ req' = [req EXCEPT ![r].pc = "written"]
    BY DEF WriteRow
  <2>3. /\ req'[r].pc = "written"
        /\ req'[r].task = req[r].task /\ req'[r].changes = req[r].changes
        /\ req'[r].was = req[r].was
        /\ \A q \in Requests \ {r} : req'[q] = req[q]
    BY <2>1, <2>2 DEF ReqState
  <2>4. Completes(r)' = Completes(r)
    BY <2>3 DEF Completes
  <2> QED BY <2>1, <2>3, <2>4
<1>1. \/ Completes(r) /\ req'[r].event = nextId /\ nextId' = nextId + 1
      \/ ~Completes(r) /\ req'[r].event = req[r].event /\ nextId' = nextId
  BY DEF WriteRow, UpdInv, UpdTypeOK, ReqState, Events
<1>2. req[r].event = 0
  BY <1>0 DEF UpdInv, IdOwned
<1>3. ReadIsCurrent' /\ ChangesAgree'
  BY <1>0 DEF UpdInv, ReadIsCurrent, ChangesAgree
<1>4. IdOwned'
  <2>1. \A q \in Requests \ {r} : Completes(q)' = Completes(q)
    BY <1>0 DEF Completes
  <2>2. \A q \in Requests : req[q].event \in Nat
    BY DEF UpdInv, UpdTypeOK, ReqState
  <2> QED BY <1>0, <1>1, <1>2, <2>1, <2>2 DEF UpdInv, IdOwned, Events
<1>5. IdsNeverShared'
  <2>1. \A q \in Requests : req[q].event \in Nat /\ req[q].event < nextId
    BY DEF UpdInv, UpdTypeOK, ReqState, IdOwned
  <2>2. nextId \notin Recorded
    BY DEF UpdInv, UpdTypeOK, IdOwned, Recorded, Events
  <2> QED BY <1>0, <1>1, <1>2, <2>1, <2>2 DEF UpdInv, IdsNeverShared, Recorded
<1>6. CompletedFollowsStatus'
  BY <1>0 DEF UpdInv, CompletedFollowsStatus
<1> QED BY <1>3, <1>4, <1>5, <1>6

LEMMA RollbackStep ==
  ASSUME UpdInv, NEW r \in Requests, Rollback(r)
  PROVE  ReadIsCurrent' /\ ChangesAgree' /\ IdOwned' /\ IdsNeverShared' /\ CompletedFollowsStatus'
<1>0. /\ UNCHANGED <<row, outbox, nextId>>
      /\ req'[r].pc = "idle" /\ req'[r].event = 0
      /\ \A q \in Requests \ {r} : req'[q] = req[q] /\ Completes(q)' = Completes(q)
      /\ nextId \in Nat \ {0}
  BY DEF Rollback, Completes, UpdInv, UpdTypeOK, Idle, Events
<1>1. ReadIsCurrent' /\ ChangesAgree'
  BY <1>0 DEF UpdInv, ReadIsCurrent, ChangesAgree
<1>2. IdOwned'
  BY <1>0 DEF UpdInv, IdOwned
<1>3. IdsNeverShared'
  BY <1>0 DEF UpdInv, IdsNeverShared, Recorded
<1>4. CompletedFollowsStatus'
  BY <1>0 DEF UpdInv, CompletedFollowsStatus
<1> QED BY <1>1, <1>2, <1>3, <1>4

LEMMA CommitStep ==
  ASSUME UpdInv, NEW r \in Requests, Commit(r)
  PROVE  ReadIsCurrent' /\ ChangesAgree' /\ IdOwned' /\ IdsNeverShared' /\ CompletedFollowsStatus'
<1> DEFINE t == req[r].task
           ch == req[r].changes
<1>0. /\ t \in Tasks /\ row[t] \in Row
      /\ ch \in [status : Statuses \cup {"unset"}, completed : {"true", "false", "unset"}]
      /\ req[r].pc = "written"
      /\ row' = [row EXCEPT ![t] = ApplyChanges(row[t], ch)]
      /\ \A e \in Events : outbox'[e] = IF e = req[r].event THEN t ELSE outbox[e]
      /\ nextId' = nextId /\ nextId \in Nat \ {0}
      /\ req'[r].pc = "idle" /\ req'[r].event = 0
      /\ \A q \in Requests \ {r} : req'[q] = req[q] /\ Completes(q)' = Completes(q)
  BY DEF Commit, UpdInv, UpdTypeOK, ReadIsCurrent, ReqState, Idle, Completes, Events
<1>1. \A q \in Requests \ {r} : req[q].pc # "idle" =>
        /\ req[q].task # t
        /\ row'[req[q].task] = row[req[q].task]
  BY <1>0 DEF UpdInv, UpdTypeOK, ReadIsCurrent
<1>2. ReadIsCurrent' /\ ChangesAgree'
  BY <1>0, <1>1 DEF UpdInv, ReadIsCurrent, ChangesAgree
<1>3. IdOwned'
  BY <1>0 DEF UpdInv, IdOwned
<1>4. IdsNeverShared'
  BY <1>0 DEF UpdInv, IdsNeverShared, Recorded
<1>5. CompletedFollowsStatus'
  <2>1. /\ ApplyChanges(row[t], ch).status = IF ch.status = "unset" THEN row[t].status ELSE ch.status
        /\ ApplyChanges(row[t], ch).completed =
             IF ch.completed = "unset" THEN row[t].completed ELSE ch.completed = "true"
    BY <1>0, ApplyType
  <2>2. IF ch.status = "unset"
          THEN \/ ch.completed = "unset"
               \/ ch.completed = "false" /\ row[t].status # "completed"
          ELSE ch.completed = (IF ch.status = "completed" THEN "true" ELSE "false")
    BY <1>0 DEF UpdInv, ChangesAgree
  <2>3. row[t].completed <=> (row[t].status = "completed")
    BY <1>0 DEF UpdInv, CompletedFollowsStatus
  <2>4. ApplyChanges(row[t], ch).completed <=> (ApplyChanges(row[t], ch).status = "completed")
    BY <1>0, <2>1, <2>2, <2>3 DEF Row
  <2>5. \A x \in Tasks : row'[x] = IF x = t THEN ApplyChanges(row[t], ch) ELSE row[x]
    BY <1>0 DEF UpdInv, UpdTypeOK
  <2> QED BY <2>4, <2>5 DEF UpdInv, CompletedFollowsStatus
<1> QED BY <1>2, <1>3, <1>4, <1>5

LEMMA UpdInvStep == UpdInv /\ [UpdNext]_updateVars => UpdInv'
<1> SUFFICES ASSUME UpdInv, [UpdNext]_updateVars
             PROVE  /\ ReadIsCurrent' /\ ChangesAgree' /\ IdOwned' /\ IdsNeverShared'
                    /\ CompletedFollowsStatus'
  BY UpdTypeStep DEF UpdInv
<1>1. ASSUME NEW t \in Tasks, NEW u \in Users, NEW s \in Statuses, Create(t, u, s)
      PROVE  /\ ReadIsCurrent' /\ ChangesAgree' /\ IdOwned' /\ IdsNeverShared'
             /\ CompletedFollowsStatus'
  BY <1>1, CreateStep
<1>2. ASSUME NEW r \in Requests, NEW t \in Tasks, NEW u \in Users, NEW i \in ValidInput,
             SelectForUpdate(r, t, u, i)
      PROVE  /\ ReadIsCurrent' /\ ChangesAgree' /\ IdOwned' /\ IdsNeverShared'
             /\ CompletedFollowsStatus'
  BY <1>2, SelectStep
<1>3. ASSUME NEW t \in Tasks, NEW u \in Users, Remove(t, u)
      PROVE  /\ ReadIsCurrent' /\ ChangesAgree' /\ IdOwned' /\ IdsNeverShared'
             /\ CompletedFollowsStatus'
  BY <1>3, RemoveStep
<1>4. CASE \/ \E t \in Tasks, us \in SUBSET Users : ChangeAudience(t, us)
           \/ \E t \in Tasks, u \in Users : ChangeOwner(t, u)
           \/ UNCHANGED updateVars
  <2>1. UNCHANGED <<row, outbox, nextId, req>>
    BY <1>4 DEF ChangeAudience, ChangeOwner, updateVars
  <2>2. CompletedFollowsStatus'
    BY <2>1 DEF UpdInv, CompletedFollowsStatus
  <2> QED BY <2>1, <2>2, RowsOnly
<1> QED
  BY <1>1, <1>2, <1>3, <1>4, WriteStep, CommitStep, RollbackStep DEF UpdNext

\* Every reachable state of the task repository satisfies the invariant.
THEOREM UpdInvariance == UpdSpec => []UpdInv
  BY UpdInitInv, UpdInvStep, PTL DEF UpdSpec

\* Type correctness of the task repository.
THEOREM UpdTypeCorrect == UpdSpec => []UpdTypeOK
<1>1. UpdInv => UpdTypeOK
  BY DEF UpdInv
<1> QED BY <1>1, UpdInvariance, PTL

\* completed follows status, for any number of concurrent requests mixing the
\* two fields (completion.ts: "always follows it").
THEOREM CompletedAlwaysFollowsStatus == UpdSpec => []CompletedFollowsStatus
<1>1. UpdInv => CompletedFollowsStatus
  BY DEF UpdInv
<1> QED BY <1>1, UpdInvariance, PTL

-----------------------------------------------------------------------------

\* One step writes an event exactly when it completes a task: the action
\* behind OneEventPerTransition.
LEMMA EventStep ==
  ASSUME UpdInv, [UpdNext]_updateVars, NEW t \in Tasks
  PROVE  LET completing == row[t].life = "live" /\ ~row[t].completed /\ row'[t].completed
         IN  IF completing
               THEN \E e \in Events : e \notin EventsOf(t) /\ EventsOf(t)' = EventsOf(t) \cup {e}
               ELSE EventsOf(t)' = EventsOf(t)
<1> DEFINE completing == row[t].life = "live" /\ ~row[t].completed /\ row'[t].completed
           Goal == IF completing
                     THEN \E e \in Events : e \notin EventsOf(t) /\ EventsOf(t)' = EventsOf(t) \cup {e}
                     ELSE EventsOf(t)' = EventsOf(t)
<1>1. CASE \E r \in Requests : Commit(r)
  <2> PICK r \in Requests : Commit(r)
    BY <1>1
  <2> DEFINE x == req[r].task
  <2>1. /\ x \in Tasks /\ row[x].life = "live" /\ row[x].completed = req[r].was
        /\ req[r].pc = "written"
        /\ row' = [row EXCEPT ![x] = ApplyChanges(row[x], req[r].changes)]
        /\ \A e \in Events : outbox'[e] = IF e = req[r].event THEN x ELSE outbox[e]
        /\ req[r].event \in 0..MaxEvents
        /\ row[x] \in Row
        /\ req[r].changes \in [status : Statuses \cup {"unset"}, completed : {"true", "false", "unset"}]
    BY DEF Commit, UpdInv, UpdTypeOK, ReadIsCurrent, ReqState
  <2>2. ApplyChanges(row[x], req[r].changes).completed =
          IF req[r].changes.completed = "unset" THEN row[x].completed
          ELSE req[r].changes.completed = "true"
    BY <2>1, ApplyType
  <2>3. Completes(r) <=> (~row[x].completed /\ row'[x].completed)
    BY <2>1, <2>2 DEF Completes, UpdInv, UpdTypeOK, Row
  <2>4. req[r].event # 0 <=> Completes(r)
    BY <2>1 DEF UpdInv, IdOwned
  <2>5. CASE t = x /\ Completes(r)
    <3>1. req[r].event \in Events /\ outbox[req[r].event] = NoTask
      BY <2>1, <2>4, <2>5 DEF UpdInv, IdsNeverShared, Recorded, Events
    <3>2. req[r].event \notin EventsOf(t)
      BY <3>1, TaskUpdatesAssumption DEF EventsOf
    <3>3. EventsOf(t)' = EventsOf(t) \cup {req[r].event}
      BY <2>1, <2>5, <3>1 DEF EventsOf
    <3>4. completing
      BY <2>1, <2>3, <2>5
    <3> QED BY <3>1, <3>2, <3>3, <3>4
  <2>6. CASE t = x /\ ~Completes(r)
    <3>1. EventsOf(t)' = EventsOf(t)
      BY <2>1, <2>4, <2>6 DEF EventsOf, Events
    <3> QED BY <2>3, <2>6, <3>1
  <2>7. CASE t # x
    <3>1. ~completing
      BY <2>1, <2>7 DEF UpdInv, UpdTypeOK
    <3>2. EventsOf(t)' = EventsOf(t)
      <4>1. req[r].event \in Events => outbox[req[r].event] = NoTask
        BY <2>1 DEF UpdInv, IdsNeverShared, Recorded, Events
      <4> QED BY <2>1, <2>7, <4>1, TaskUpdatesAssumption DEF EventsOf
    <3> QED BY <3>1, <3>2
  <2> QED BY <2>5, <2>6, <2>7
<1>2. CASE ~\E r \in Requests : Commit(r)
  <2>1. UNCHANGED outbox
    BY <1>2 DEF UpdNext, updateVars, Create, SelectForUpdate, WriteRow, Rollback, Remove,
                ChangeAudience, ChangeOwner
  <2>2. EventsOf(t)' = EventsOf(t)
    BY <2>1 DEF EventsOf
  <2>3. row[t].life = "live" => row'[t].completed = row[t].completed
    <3>1. ASSUME NEW x \in Tasks, NEW u \in Users, NEW s \in Statuses, Create(x, u, s)
          PROVE  row[t].life = "live" => row'[t] = row[t]
      BY <3>1 DEF Create, UpdInv, UpdTypeOK
    <3>2. ASSUME NEW x \in Tasks, NEW u \in Users, Remove(x, u)
          PROVE  row'[t].completed = row[t].completed
      BY <3>2 DEF Remove, UpdInv, UpdTypeOK, Row
    <3>3. CASE UNCHANGED row
      BY <3>3
    <3> QED
      BY <1>2, <3>1, <3>2, <3>3 DEF UpdNext, updateVars, SelectForUpdate, WriteRow, Rollback,
                                    ChangeAudience, ChangeOwner
  <2> QED BY <2>2, <2>3
<1> QED BY <1>1, <1>2

\* Each transition to completed writes exactly one event, whatever else runs.
THEOREM EventPerTransition == UpdSpec => OneEventPerTransition
<1> DEFINE A == \A t \in Tasks :
                  LET completing == row[t].life = "live" /\ ~row[t].completed /\ row'[t].completed
                  IN  IF completing
                        THEN \E e \in Events : e \notin EventsOf(t) /\ EventsOf(t)' = EventsOf(t) \cup {e}
                        ELSE EventsOf(t)' = EventsOf(t)
<1>1. UpdInv /\ [UpdNext]_updateVars => [A]_<<row, outbox>>
  BY EventStep
<1>2. [][A]_<<row, outbox>> => OneEventPerTransition
  BY DEF OneEventPerTransition
<1> QED BY <1>1, <1>2, UpdInvariance, PTL DEF UpdSpec

=============================================================================
