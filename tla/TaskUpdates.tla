---------------------------- MODULE TaskUpdates ----------------------------
(***************************************************************************)
(* The task repository (modules/tasks): API requests that create, change  *)
(* and delete rows of todo_items, and the outbox row that an update writes *)
(* in the same MySQL transaction when it completes a task.                 *)
(*                                                                         *)
(* A PUT or PATCH is three steps, because the transaction holds the row    *)
(* lock of SELECT ... FOR UPDATE between them and may roll back at either  *)
(* of them: SelectForUpdate, WriteRow, then Commit or Rollback.            *)
(*                                                                         *)
(* A row is reduced to the two fields the events depend on.  Who owns a    *)
(* task and who is a member of one of its projects is decided by the       *)
(* projects module; here both change freely (ChangeOwner, ChangeAudience). *)
(***************************************************************************)
EXTENDS Naturals, FiniteSets

CONSTANTS
  Tasks,      \* task keys; a key is never reused (AUTO_INCREMENT)
  Users,      \* accounts
  Requests,   \* API requests that may be in flight at once
  MaxEvents,  \* bound: ids the outbox may hand out
  NoTask,     \* marks an outbox id that holds no committed row
  Nobody      \* todo_items.user_id IS NULL

ASSUME TaskUpdatesAssumption ==
  /\ MaxEvents \in Nat
  /\ NoTask \notin Tasks
  /\ Nobody \notin Users

VARIABLES
  row,       \* todo_items: life, status and completed of every task key
  owner,     \* todo_items.user_id
  audience,  \* the distinct members of the projects a task is linked to
  outbox,    \* outbox_events: the task of every committed row, by id
  nextId,    \* AUTO_INCREMENT of outbox_events
  req        \* what each request holds between the steps of its transaction

updateVars == <<row, owner, audience, outbox, nextId, req>>

Events == 1..MaxEvents

Statuses == {"todo", "inProgress", "completed"}

Row == [life : {"unborn", "live", "deleted"},
        status : Statuses,
        completed : BOOLEAN]

\* The body of a PUT or PATCH: "unset" is an absent key, `edits` says whether
\* it carries any of name, deadline and priorisation.
Input == [status : Statuses \cup {"unset"},
          completed : {"true", "false", "unset"},
          edits : BOOLEAN]

ContradictsStatus(i) ==
  /\ i.completed # "unset"
  /\ i.status # "unset"
  /\ (i.completed = "true") # (i.status = "completed")

\* The bodies the two schemas let through.
ValidInput == {i \in Input :
                 /\ i # [status |-> "unset", completed |-> "unset", edits |-> FALSE]
                 /\ ~ContradictsStatus(i)}

\* Mutant: a bare completed = false leaves the card in the completed column.
SyncCompletionNoReopen(i, currentStatus) ==
  [status |-> IF i.status # "unset" THEN i.status
              ELSE IF i.completed = "true" THEN "completed" ELSE "unset",
   completed |-> IF i.status = "unset" THEN i.completed
                 ELSE IF i.status = "completed" THEN "true" ELSE "false"]

\* The fields an update writes: status decides completed, a bare completed
\* moves the card only when it has to.
SyncCompletion(i, currentStatus) ==
  [status |-> IF i.status # "unset" THEN i.status
              ELSE IF i.completed = "true" THEN "completed"
              ELSE IF i.completed = "false" /\ currentStatus = "completed" THEN "todo"
              ELSE "unset",
   completed |-> IF i.status = "unset" THEN i.completed
                 ELSE IF i.status = "completed" THEN "true" ELSE "false"]

\* Mutant: an absent field is written as well instead of being left alone.
ApplyAbsentFields(r, ch) ==
  [r EXCEPT !.status = ch.status,
            !.completed = IF ch.completed = "unset" THEN @ ELSE ch.completed = "true"]

\* UPDATE todo_items SET <the fields that are set>.
ApplyChanges(r, ch) ==
  [r EXCEPT !.status = IF ch.status = "unset" THEN @ ELSE ch.status,
            !.completed = IF ch.completed = "unset" THEN @ ELSE ch.completed = "true"]

NoChange == [status |-> "unset", completed |-> "unset"]

\* Between its statements a transaction knows the fields it will write and
\* whether the row it read was completed, both fixed by its locking SELECT.
Idle == [pc |-> "idle", task |-> NoTask, changes |-> NoChange, was |-> FALSE, event |-> 0]

ReqState == [pc : {"idle", "locked", "written"},
             task : Tasks \cup {NoTask},
             changes : [status : Statuses \cup {"unset"},
                        completed : {"true", "false", "unset"}],
             was : BOOLEAN,
             event : 0..MaxEvents]

Recorded == {e \in Events : outbox[e] # NoTask}

RowLocked(t) == \E r \in Requests : req[r].pc # "idle" /\ req[r].task = t

\* Mutant: an update that sends completed again emits again.
CompletesAgain(r) == req[r].changes.completed = "true"

Completes(r) == req[r].changes.completed = "true" /\ ~req[r].was

-----------------------------------------------------------------------------

UpdInit ==
  /\ row = [t \in Tasks |-> [life |-> "unborn", status |-> "todo", completed |-> FALSE]]
  /\ owner = [t \in Tasks |-> Nobody]
  /\ audience = [t \in Tasks |-> {}]
  /\ outbox = [e \in Events |-> NoTask]
  /\ nextId = 1
  /\ req = [r \in Requests |-> Idle]

\* POST /tasks: no event, whatever the status the task is born with.
Create(t, u, status) ==
  /\ row[t].life = "unborn"
  /\ row' = [row EXCEPT ![t] = [life |-> "live", status |-> status,
                                completed |-> status = "completed"]]
  /\ owner' = [owner EXCEPT ![t] = u]
  /\ UNCHANGED <<audience, outbox, nextId, req>>

\* The owner may send any field, a project member only status and completed.
MayUpdate(u, t, i) ==
  \/ owner[t] = u
  \/ ~i.edits /\ u \in audience[t]

\* Mutant: the SELECT takes no row lock.
SelectWithoutLock(r, t, u, i) ==
  /\ req[r].pc = "idle"
  /\ row[t].life = "live"
  /\ MayUpdate(u, t, i)
  /\ req' = [req EXCEPT ![r] = [pc |-> "locked", task |-> t,
                                changes |-> SyncCompletion(i, row[t].status),
                                was |-> row[t].completed, event |-> 0]]
  /\ UNCHANGED <<row, owner, audience, outbox, nextId>>

\* SELECT ... FOR UPDATE and the permission check. A request that finds no row
\* or may not change it answers 404 and leaves nothing behind.
SelectForUpdate(r, t, u, i) ==
  /\ req[r].pc = "idle"
  /\ row[t].life = "live"
  /\ ~RowLocked(t)
  /\ MayUpdate(u, t, i)
  /\ req' = [req EXCEPT ![r] = [pc |-> "locked", task |-> t,
                                changes |-> SyncCompletion(i, row[t].status),
                                was |-> row[t].completed, event |-> 0]]
  /\ UNCHANGED <<row, owner, audience, outbox, nextId>>

\* UPDATE, and on the transition to completed the INSERT that takes an id.
WriteRow(r) ==
  /\ req[r].pc = "locked"
  /\ IF Completes(r)
       THEN /\ nextId \in Events
            /\ nextId' = nextId + 1
            /\ req' = [req EXCEPT ![r].pc = "written", ![r].event = nextId]
       ELSE /\ req' = [req EXCEPT ![r].pc = "written"]
            /\ UNCHANGED nextId
  /\ UNCHANGED <<row, owner, audience, outbox>>

\* COMMIT: the row and its event become visible together.
Commit(r) ==
  /\ req[r].pc = "written"
  /\ row' = [row EXCEPT ![req[r].task] = ApplyChanges(@, req[r].changes)]
  /\ outbox' = [e \in Events |-> IF e = req[r].event THEN req[r].task ELSE outbox[e]]
  /\ req' = [req EXCEPT ![r] = Idle]
  /\ UNCHANGED <<owner, audience, nextId>>

\* A failed statement, a lost connection or a dead process; the id is spent.
Rollback(r) ==
  /\ req[r].pc # "idle"
  /\ req' = [req EXCEPT ![r] = Idle]
  /\ UNCHANGED <<row, owner, audience, outbox, nextId>>

\* DELETE by the owner or a member; the project links go with the row.
Remove(t, u) ==
  /\ row[t].life = "live"
  /\ ~RowLocked(t)
  /\ owner[t] = u \/ u \in audience[t]
  /\ row' = [row EXCEPT ![t].life = "deleted"]
  /\ audience' = [audience EXCEPT ![t] = {}]
  /\ UNCHANGED <<owner, outbox, nextId, req>>

\* Members join and leave, tasks are linked and detached (modules/projects).
ChangeAudience(t, us) ==
  /\ row[t].life = "live"
  /\ us # audience[t]
  /\ audience' = [audience EXCEPT ![t] = us]
  /\ UNCHANGED <<row, owner, outbox, nextId, req>>

\* Claiming or attaching a task writes its user_id, so it waits for the row.
ChangeOwner(t, u) ==
  /\ row[t].life = "live"
  /\ ~RowLocked(t)
  /\ owner[t] # u
  /\ owner' = [owner EXCEPT ![t] = u]
  /\ UNCHANGED <<row, audience, outbox, nextId, req>>

UpdNext ==
  \/ \E t \in Tasks, u \in Users, s \in Statuses : Create(t, u, s)
  \/ \E r \in Requests, t \in Tasks, u \in Users, i \in ValidInput : SelectForUpdate(r, t, u, i)
  \/ \E r \in Requests : WriteRow(r)
  \/ \E r \in Requests : Commit(r)
  \/ \E r \in Requests : Rollback(r)
  \/ \E t \in Tasks, u \in Users : Remove(t, u)
  \/ \E t \in Tasks, us \in SUBSET Users : ChangeAudience(t, us)
  \/ \E t \in Tasks, u \in Users : ChangeOwner(t, u)

UpdSpec == UpdInit /\ [][UpdNext]_updateVars

-----------------------------------------------------------------------------

UpdTypeOK ==
  /\ row \in [Tasks -> Row]
  /\ owner \in [Tasks -> Users \cup {Nobody}]
  /\ audience \in [Tasks -> SUBSET Users]
  /\ outbox \in [Events -> Tasks \cup {NoTask}]
  /\ nextId \in 1..MaxEvents + 1
  /\ req \in [Requests -> ReqState]

\* completed always follows status on every row, so the board, the home screen
\* and the event agree, whatever mix of the two fields concurrent clients send
\* (completion.ts: "completed ... always follows it").
CompletedFollowsStatus ==
  \A t \in Tasks : row[t].completed <=> (row[t].status = "completed")

EventsOf(t) == {e \in Events : outbox[e] = t}

\* The outbox gains exactly one row for a task in the very step that turns a
\* live task from not completed to completed, and none in any other step: two
\* concurrent completions emit once, a repeated one emits nothing, a rolled
\* back one leaves neither the change nor the event.
OneEventPerTransition ==
  [][\A t \in Tasks :
       LET completing == row[t].life = "live" /\ ~row[t].completed /\ row'[t].completed
       IN  IF completing
             THEN \E e \in Events : e \notin EventsOf(t) /\ EventsOf(t)' = EventsOf(t) \cup {e}
             ELSE EventsOf(t)' = EventsOf(t)]_<<row, outbox>>

=============================================================================
