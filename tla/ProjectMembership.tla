------------------------- MODULE ProjectMembership -------------------------
(***************************************************************************)
(* Projects, their members and their tasks (modules/projects), the claim   *)
(* of a task and its removal (modules/tasks) and the deletion of an        *)
(* account (modules/auth), on one MySQL database at REPEATABLE READ.       *)
(*                                                                         *)
(* Most operations read in one statement and write in a later one, with no *)
(* lock in between: they are Begin... and the write, and anything may      *)
(* happen between the two.  A claim and an account deletion hold row locks *)
(* from their reads to their COMMIT; only those locks are modelled, as     *)
(* guards of the steps that wait for them.  A foreign key is a guard on    *)
(* the referenced row, or an effect when it cascades.                      *)
(***************************************************************************)
EXTENDS FiniteSets

CONSTANTS
  Users,     \* account ids, never reused
  Projects,  \* project ids, never reused
  Tasks,     \* task keys, never reused
  Requests,  \* API requests that may be in flight at once
  None       \* no row, or NULL

ASSUME ProjectMembershipAssumption == None \notin Users \cup Projects \cup Tasks

VARIABLES
  accounts,  \* users: the rows that exist
  project,   \* projects: life and owner_id
  members,   \* project_members, by project
  items,     \* project_items, by project
  task,      \* todo_items: life and user_id
  req,       \* requests between two of their statements
  leaving,   \* accounts whose deletion transaction is open
  heirs      \* what that transaction read: owned projects and who is next

dataVars == <<accounts, project, members, items, task>>
leaveVars == <<leaving, heirs>>
memVars == <<accounts, project, members, items, task, req, leaving, heirs>>

Lives == {"unborn", "live", "deleted"}

Pcs == {"idle", "post", "invite", "expel", "drop",
        "attach", "owned", "assignable", "detach", "unlinked", "claim"}

Idle == [pc |-> "idle", actor |-> None, project |-> None, task |-> None,
         target |-> None, linked |-> FALSE]

Busy(pc, u, p, t, v) ==
  [pc |-> pc, actor |-> u, project |-> p, task |-> t, target |-> v, linked |-> FALSE]

Live(p) == project[p].life = "live"
TaskLive(t) == task[t].life = "live"
LinkedTo(t) == {p \in Projects : t \in items[p]}

\* Every request starts by resolving its session to an existing account; an
\* ended request answers, whatever the answer is.
Start(r, u, next) ==
  /\ req[r] = Idle
  /\ u \in accounts
  /\ req' = [req EXCEPT ![r] = next]
  /\ UNCHANGED <<dataVars, leaveVars>>

Continue(r, next) ==
  /\ req' = [req EXCEPT ![r].pc = next]
  /\ UNCHANGED <<dataVars, leaveVars>>

End(r) == req' = [req EXCEPT ![r] = Idle]

-----------------------------------------------------------------------------
(* Row locks held by open transactions.                                     *)

\* SELECT ... FOR UPDATE of a claim: the task row with the links of the task,
\* and all memberships of the projects it checks.
ClaimHolds(t) == \E r \in Requests : req[r].pc = "claim" /\ req[r].task = t

\* Mutant: a claim locks only the memberships of the project it was given.
MembersHeldOfTarget(p) == \E r \in Requests : req[r].pc = "claim" /\ req[r].project = p

MembersHeld(p) ==
  \E r \in Requests :
    /\ req[r].pc = "claim"
    /\ p \in LinkedTo(req[r].task) \cup {req[r].project}

\* The link a removal has deleted and not committed.
LinkHeld(p, t) ==
  \E r \in Requests :
    /\ req[r].pc = "unlinked" /\ req[r].project = p /\ req[r].task = t
    /\ t \in items[p]

\* DELETE FROM projects takes the memberships and the links with it.
ProjectFree(p) == ~MembersHeld(p) /\ \A t \in Tasks : ~LinkHeld(p, t)

-----------------------------------------------------------------------------

\* The database a release starts on: accounts, projects of earlier releases,
\* and tasks nobody owns, in no project or linked to several.
MemInit ==
  /\ accounts = Users
  /\ project \in [Projects -> {[life |-> "unborn", owner |-> None]}
                                \cup [life : {"live"}, owner : Users]]
  /\ members \in [Projects -> SUBSET Users]
  /\ \A p \in Projects : IF Live(p) THEN project[p].owner \in members[p] ELSE members[p] = {}
  /\ task \in [Tasks -> [life : {"unborn", "live"}, user : {None}]]
  /\ items \in [Projects -> SUBSET Tasks]
  /\ \A p \in Projects : \A t \in items[p] : Live(p) /\ TaskLive(t)
  /\ req = [r \in Requests |-> Idle]
  /\ leaving = {}
  /\ heirs = [u \in Users |-> {}]

\* POST /projects: the project and its first member in one transaction.
CreateProject(u, p) ==
  /\ project[p].life = "unborn"
  /\ u \in accounts \ leaving
  /\ project' = [project EXCEPT ![p] = [life |-> "live", owner |-> u]]
  /\ members' = [members EXCEPT ![p] = {u}]
  /\ UNCHANGED <<accounts, items, task, req, leaveVars>>

\* POST /items: todo_items.user_id has no foreign key.
BeginPost(r, u) == Start(r, u, Busy("post", u, None, None, None))

PostTask(r, t) ==
  /\ req[r].pc = "post"
  /\ task[t].life = "unborn"
  /\ task' = [task EXCEPT ![t] = [life |-> "live", user |-> req[r].actor]]
  /\ End(r)
  /\ UNCHANGED <<accounts, project, members, items, leaveVars>>

\* POST /projects/:id/members, by the owner.
BeginAddMember(r, u, p) ==
  /\ u \in members[p]
  /\ project[p].owner = u
  /\ Start(r, u, Busy("invite", u, p, None, None))

\* Mutant: project_members has no foreign key to users.
AddMemberUnchecked(r, v) ==
  /\ req[r].pc = "invite"
  /\ LET p == req[r].project
     IN  /\ Live(p)
         /\ v \notin members[p]
         /\ ~MembersHeld(p)
         /\ members' = [members EXCEPT ![p] = @ \cup {v}]
  /\ End(r)
  /\ UNCHANGED <<accounts, project, items, task, leaveVars>>

AddMember(r, v) ==
  /\ req[r].pc = "invite"
  /\ LET p == req[r].project
     IN  /\ Live(p)
         /\ v \in accounts \ leaving
         /\ v \notin members[p]
         /\ ~MembersHeld(p)
         /\ members' = [members EXCEPT ![p] = @ \cup {v}]
  /\ End(r)
  /\ UNCHANGED <<accounts, project, items, task, leaveVars>>

\* DELETE /projects/:id/members/:userId, by the owner or the member.
BeginRemoveMember(r, u, p, v) ==
  /\ u \in members[p]
  /\ v # project[p].owner
  /\ u \in {project[p].owner, v}
  /\ Start(r, u, Busy("expel", u, p, None, v))

RemoveMember(r) ==
  /\ req[r].pc = "expel"
  /\ ~MembersHeld(req[r].project)
  /\ members' = [members EXCEPT ![req[r].project] = @ \ {req[r].target}]
  /\ End(r)
  /\ UNCHANGED <<accounts, project, items, task, leaveVars>>

\* DELETE /projects/:id, by the owner; its tasks stay.
BeginDrop(r, u, p) ==
  /\ u \in members[p]
  /\ project[p].owner = u
  /\ Start(r, u, Busy("drop", u, p, None, None))

DropProject(r) ==
  /\ req[r].pc = "drop"
  /\ LET p == req[r].project
     IN  /\ Live(p)
         /\ ProjectFree(p)
         /\ project' = [project EXCEPT ![p].life = "deleted"]
         /\ members' = [members EXCEPT ![p] = {}]
         /\ items' = [items EXCEPT ![p] = {}]
  /\ End(r)
  /\ UNCHANGED <<accounts, task, leaveVars>>

\* POST /projects/:id/items: three reads, then the link and the assignee in
\* one transaction that reads nothing again.
BeginAttach(r, u, p, t, v) ==
  /\ u \in members[p]
  /\ Start(r, u, Busy("attach", u, p, t, v))

CheckOwned(r) ==
  /\ req[r].pc = "attach"
  /\ task[req[r].task] = [life |-> "live", user |-> req[r].actor]
  /\ Continue(r, "owned")

CheckAssignee(r) ==
  /\ req[r].pc = "owned"
  /\ req[r].target \in members[req[r].project]
  /\ Continue(r, "assignable")

Attach(r) ==
  /\ req[r].pc = "assignable"
  /\ LET p == req[r].project
         t == req[r].task
     IN  /\ Live(p) /\ TaskLive(t)
         /\ t \notin items[p]
         /\ ~ClaimHolds(t)
         /\ items' = [items EXCEPT ![p] = @ \cup {t}]
         /\ task' = [task EXCEPT ![t].user = req[r].target]
  /\ End(r)
  /\ UNCHANGED <<accounts, project, members, leaveVars>>

\* DELETE /projects/:id/items/:taskKey, by any member: delete the link, look
\* for another one, and with the last one delete a task nobody owns.
BeginDetach(r, u, p, t) ==
  /\ u \in members[p]
  /\ Start(r, u, Busy("detach", u, p, t, None))

Unlink(r) ==
  /\ req[r].pc = "detach"
  /\ LET p == req[r].project
         t == req[r].task
     IN  /\ t \in items[p] => ~ClaimHolds(t) /\ ~LinkHeld(p, t)
         /\ req' = [req EXCEPT ![r].pc = "unlinked", ![r].linked = (LinkedTo(t) \ {p} # {})]
  /\ UNCHANGED <<dataVars, leaveVars>>

\* Mutant: the DELETE of the task does not ask again whether somebody owns it.
DetachUnlinkedTask(r) ==
  /\ req[r].pc = "unlinked"
  /\ LET p == req[r].project
         t == req[r].task
         last == ~req[r].linked /\ TaskLive(t)
     IN  /\ last => ~ClaimHolds(t)
         /\ items' = [q \in Projects |-> IF q = p \/ last THEN items[q] \ {t} ELSE items[q]]
         /\ task' = IF last THEN [task EXCEPT ![t].life = "deleted"] ELSE task
  /\ End(r)
  /\ UNCHANGED <<accounts, project, members, leaveVars>>

Detach(r) ==
  /\ req[r].pc = "unlinked"
  /\ LET p == req[r].project
         t == req[r].task
         last == ~req[r].linked /\ TaskLive(t) /\ task[t].user = None
     IN  /\ last => ~ClaimHolds(t)
         /\ items' = [q \in Projects |-> IF q = p \/ last THEN items[q] \ {t} ELSE items[q]]
         /\ task' = IF last THEN [task EXCEPT ![t].life = "deleted"] ELSE task
  /\ End(r)
  /\ UNCHANGED <<accounts, project, members, leaveVars>>

\* POST /items/:id/claim repairs an incomplete assignment: nobody owns the
\* task, or it is the caller's and in no project.
MayClaim(u, t, p, v) ==
  /\ TaskLive(t)
  /\ IF LinkedTo(t) = {}
       THEN task[t].user \in {None, u}
       ELSE task[t].user = None /\ p \in LinkedTo(t)
  /\ \A q \in LinkedTo(t) \cup {p} : v \in members[q]
  /\ u \in members[p]

BeginClaim(r, u, t, p, v) ==
  /\ ~ClaimHolds(t)
  /\ \A q \in Projects : ~LinkHeld(q, t)
  /\ \A q \in LinkedTo(t) \cup {p} : ~MembersHeld(q)
  /\ MayClaim(u, t, p, v)
  /\ Start(r, u, Busy("claim", u, p, t, v))

Claim(r) ==
  /\ req[r].pc = "claim"
  /\ LET t == req[r].task
     IN  /\ items' = IF LinkedTo(t) = {}
                       THEN [items EXCEPT ![req[r].project] = @ \cup {t}]
                       ELSE items
         /\ task' = [task EXCEPT ![t].user = req[r].target]
  /\ End(r)
  /\ UNCHANGED <<accounts, project, members, leaveVars>>

\* DELETE /items/:id, one statement; the links cascade.
RemoveTask(u, t) ==
  /\ TaskLive(t)
  /\ u \in accounts
  /\ task[t].user = u \/ \E p \in LinkedTo(t) : u \in members[p]
  /\ ~ClaimHolds(t)
  /\ \A p \in Projects : ~LinkHeld(p, t)
  /\ task' = [task EXCEPT ![t].life = "deleted"]
  /\ items' = [p \in Projects |-> items[p] \ {t}]
  /\ UNCHANGED <<accounts, project, members, req, leaveVars>>

\* Any request may end early: a check fails, a constraint refuses the write, a
\* lock wait times out or is chosen as deadlock victim, the process dies.
Abandon(r) ==
  /\ req[r] # Idle
  /\ End(r)
  /\ UNCHANGED <<dataVars, leaveVars>>

-----------------------------------------------------------------------------
(* DELETE /auth/me.                                                         *)

\* The transaction locks the users row and reads its snapshot: the projects
\* the account owns and, for each, the member who joined first (the order of
\* joined_at is not modelled, so any other member).
BeginLeave(u) ==
  /\ u \in accounts \ leaving
  /\ leaving' = leaving \cup {u}
  /\ LET owned == {p \in Projects : Live(p) /\ project[p].owner = u}
     IN  \E next \in [owned -> Users \cup {None}] :
           /\ \A p \in owned : IF members[p] \ {u} = {}
                                 THEN next[p] = None
                                 ELSE next[p] \in members[p] \ {u}
           /\ heirs' = [heirs EXCEPT ![u] = {<<p, next[p]>> : p \in owned}]
  /\ UNCHANGED <<dataVars, req>>

\* The projects the transaction gives away, and those it deletes.
Handed(u) == {p \in Projects : Live(p) /\ \E v \in Users : <<p, v>> \in heirs[u]}
Dropped(u) == {p \in Projects : Live(p) /\ <<p, None>> \in heirs[u]}

HeirOf(u, p) == CHOOSE v \in Users : <<p, v>> \in heirs[u]

\* ON DELETE CASCADE of projects.owner_id, after the projects were given away.
Cascaded(u) == {p \in Projects \ Handed(u) : Live(p) /\ project[p].owner = u}

\* Tasks in a project stay; the rest of the account's tasks go.
Personal(u) ==
  {t \in Tasks : TaskLive(t) /\ task[t].user = u /\ LinkedTo(t) \subseteq Dropped(u)}

\* Mutant: the deletion transaction does not lock its users row.
LeaveUnlocked(u) ==
  /\ \A p \in Handed(u) : HeirOf(u, p) \in accounts
  /\ \A p \in Dropped(u) \cup Cascaded(u) : ProjectFree(p)
  /\ \A p \in Projects : u \in members[p] => ~MembersHeld(p)
  /\ \A t \in Personal(u) : ~ClaimHolds(t) /\ \A p \in Projects : ~LinkHeld(p, t)

\* UPDATE projects waits for the users row of the heir, the deletes wait for
\* the rows a claim or a removal holds.
LeaveUnblocked(u) ==
  /\ \A p \in Handed(u) : HeirOf(u, p) \in accounts \ leaving
  /\ \A p \in Dropped(u) \cup Cascaded(u) : ProjectFree(p)
  /\ \A p \in Projects : u \in members[p] => ~MembersHeld(p)
  /\ \A t \in Personal(u) : ~ClaimHolds(t) /\ \A p \in Projects : ~LinkHeld(p, t)

\* Everything it writes becomes visible at COMMIT.
Leave(u) ==
  /\ u \in leaving
  /\ LeaveUnblocked(u)
  /\ LET gone == Dropped(u) \cup Cascaded(u)
     IN  /\ project' = [p \in Projects |->
               IF p \in gone THEN [project[p] EXCEPT !.life = "deleted"]
               ELSE IF p \in Handed(u) THEN [project[p] EXCEPT !.owner = HeirOf(u, p)]
               ELSE project[p]]
         /\ members' = [p \in Projects |-> IF p \in gone THEN {} ELSE members[p] \ {u}]
         /\ items' = [p \in Projects |-> IF p \in gone THEN {} ELSE items[p] \ Personal(u)]
  /\ task' = [t \in Tasks |->
                IF t \in Personal(u) THEN [task[t] EXCEPT !.life = "deleted"] ELSE task[t]]
  /\ accounts' = accounts \ {u}
  /\ leaving' = leaving \ {u}
  /\ heirs' = [heirs EXCEPT ![u] = {}]
  /\ UNCHANGED req

\* The transaction is rolled back: an heir is gone, a deadlock, a crash.
AbortLeave(u) ==
  /\ u \in leaving
  /\ leaving' = leaving \ {u}
  /\ heirs' = [heirs EXCEPT ![u] = {}]
  /\ UNCHANGED <<dataVars, req>>

-----------------------------------------------------------------------------

\* The routes under /projects itself ...
ProjectRoutes ==
  \/ \E u \in Users, p \in Projects : CreateProject(u, p)
  \/ \E r \in Requests, u \in Users, p \in Projects : BeginDrop(r, u, p)
  \/ \E r \in Requests : DropProject(r)

\* ... /projects/:projectId/members ...
MemberRoutes ==
  \/ \E r \in Requests, u \in Users, p \in Projects : BeginAddMember(r, u, p)
  \/ \E r \in Requests, v \in Users : AddMember(r, v)
  \/ \E r \in Requests, u \in Users, p \in Projects, v \in Users : BeginRemoveMember(r, u, p, v)
  \/ \E r \in Requests : RemoveMember(r)

\* ... and /projects/:projectId/items.
ItemRoutes ==
  \/ \E r \in Requests, u \in Users, p \in Projects, t \in Tasks, v \in Users :
       BeginAttach(r, u, p, t, v)
  \/ \E r \in Requests : CheckOwned(r) \/ CheckAssignee(r) \/ Attach(r)
  \/ \E r \in Requests, u \in Users, p \in Projects, t \in Tasks : BeginDetach(r, u, p, t)
  \/ \E r \in Requests : Unlink(r) \/ Detach(r)

\* The routes under /items that concern projects.
TaskRoutes ==
  \/ \E r \in Requests, u \in Users : BeginPost(r, u)
  \/ \E r \in Requests, t \in Tasks : PostTask(r, t)
  \/ \E r \in Requests, u \in Users, t \in Tasks, p \in Projects, v \in Users :
       BeginClaim(r, u, t, p, v)
  \/ \E r \in Requests : Claim(r)
  \/ \E u \in Users, t \in Tasks : RemoveTask(u, t)

AccountDeletion == \E u \in Users : BeginLeave(u) \/ Leave(u) \/ AbortLeave(u)

MemNext ==
  \/ ProjectRoutes \/ MemberRoutes \/ ItemRoutes \/ TaskRoutes
  \/ \E r \in Requests : Abandon(r)
  \/ AccountDeletion

MemSpec == MemInit /\ [][MemNext]_memVars

-----------------------------------------------------------------------------

MemTypeOK ==
  /\ accounts \in SUBSET Users
  /\ project \in [Projects -> [life : Lives, owner : Users \cup {None}]]
  /\ members \in [Projects -> SUBSET Users]
  /\ items \in [Projects -> SUBSET Tasks]
  /\ task \in [Tasks -> [life : Lives, user : Users \cup {None}]]
  /\ req \in [Requests -> [pc : Pcs, actor : Users \cup {None},
                           project : Projects \cup {None}, task : Tasks \cup {None},
                           target : Users \cup {None}, linked : BOOLEAN]]
  /\ leaving \in SUBSET Users
  /\ heirs \in [Users -> SUBSET (Projects \X (Users \cup {None}))]

\* A project that exists is owned by an account that exists and its members
\* are accounts that exist, although owners, heirs and invited users delete
\* their accounts at any moment (the foreign keys of schema.ts).
PeopleExist ==
  \A p \in Projects :
    /\ Live(p) => project[p].owner \in accounts
    /\ members[p] \subseteq accounts
    /\ ~Live(p) => members[p] = {} /\ items[p] = {}

\* What a claim has checked is still true when it writes: the task is still
\* incomplete, caller and assignee still belong to the projects, whoever
\* removes members, projects or accounts meanwhile (repository.drizzle.ts:
\* "Lock memberships through the write so a concurrent removal cannot
\* invalidate the choice").
ClaimChecksHold ==
  \A r \in Requests : req[r].pc = "claim" =>
    /\ MayClaim(req[r].actor, req[r].task, req[r].project, req[r].target)
    /\ \A q \in Requests \ {r} : req[q].pc = "claim" => req[q].task # req[r].task

\* A project disappears with an account only when that account's deletion
\* found nobody else in it: the cascade from users never takes a project that
\* was handed over to an account that is itself being deleted.
CascadeTakesNoProject ==
  [][\A u \in Users, p \in Projects :
       u \in accounts \ accounts' /\ Live(p) /\ ~Live(p)' => <<p, None>> \in heirs[u]]_memVars

\* Taking a task out of a project never deletes a task that somebody owns or
\* that is in another project by then.
DetachSparesUsedTasks ==
  [][\A r \in Requests, t \in Tasks :
       req[r].pc = "unlinked" /\ req'[r].pc = "idle" /\ TaskLive(t) /\ ~TaskLive(t)'
         => task[t].user = None /\ LinkedTo(t) \subseteq {req[r].project}]_memVars

(* What the documentation says of projects and accounts.                    *)

\* The owner of a project is one of its members: the creator is the first
\* member, the owner cannot leave, ownership passes to a remaining member.
OwnerIsMember == \A p \in Projects : Live(p) => project[p].owner \in members[p]

\* The personal tasks of an account are deleted with it.
NoTaskOfDeletedAccount ==
  \A t \in Tasks :
    TaskLive(t) /\ LinkedTo(t) = {} => task[t].user \in accounts \cup {None}

=============================================================================
