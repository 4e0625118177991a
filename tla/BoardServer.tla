----------------------------- MODULE BoardServer ----------------------------
(***************************************************************************)
(* The API as the board of one user meets it: its tasks and projects, what *)
(* each request does to them or answers, and what other users do.  The     *)
(* interleavings inside a request are ProjectMembership's; here a request  *)
(* takes effect at once.  The user owns every project.                     *)
(***************************************************************************)
EXTENDS ClientSession, FiniteSets

CONSTANTS Tasks, Projects, Statuses, Me, You, Nobody

ASSUME BoardServerAssumption ==
  /\ Me # You /\ Nobody \notin {Me, You} \cup Projects \cup Tasks \cup Statuses
  /\ "todo" \in Statuses
  /\ Projects # {}

VARIABLES
  item,      \* todo_items and project_items
  members,   \* project_members; a project without members does not exist
  version    \* history: changes so far

serverVars == <<item, members, version>>

People == {Me, You}
Lives == {"unborn", "live", "deleted"}

ServerTypeOK ==
  /\ item \in [Tasks -> [life : Lives, owner : People \cup {Nobody},
                         project : Projects \cup {Nobody}, status : Statuses]]
  /\ members \in [Projects -> SUBSET People]
  /\ version \in Nat

Unborn == [life |-> "unborn", owner |-> Nobody, project |-> Nobody, status |-> "todo"]

Live(t) == item[t].life = "live"
Shared(t, u) == item[t].project # Nobody /\ u \in members[item[t].project]

\* GET /items/forUser and GET /items/unassigned.
listForUser == {t \in Tasks : Live(t) /\ item[t].owner # Nobody /\ Shared(t, Me)}
listUnassigned ==
  {t \in Tasks : Live(t) /\ IF item[t].project = Nobody
                            THEN item[t].owner \in {Nobody, Me}
                            ELSE item[t].owner = Nobody /\ Shared(t, Me)}

\* Who may change the status of a task, or delete it.
MayUse(t, u) == Live(t) /\ (item[t].owner = u \/ Shared(t, u))

Claimable(t, u, p, a) ==
  /\ Live(t)
  /\ IF item[t].project = Nobody THEN item[t].owner \in {Nobody, u}
     ELSE item[t].owner = Nobody /\ item[t].project = p
  /\ {u, a} \subseteq members[p]

\* addItem: by the owner of a task that is in no project.
Attachable(t, p, a) ==
  /\ Live(t) /\ item[t].owner = Me /\ item[t].project = Nobody
  /\ {Me, a} \subseteq members[p]

Changed == version' = version + 1

updateStatus(t, s) == Changed /\ item' = [item EXCEPT ![t].status = s] /\ UNCHANGED members
removeTask(t) == Changed /\ item' = [item EXCEPT ![t].life = "deleted"] /\ UNCHANGED members
assign(t, p, a) ==
  /\ Changed
  /\ item' = [item EXCEPT ![t].project = p, ![t].owner = a]
  /\ UNCHANGED members
createTask(t) ==
  /\ Changed
  /\ item' = [item EXCEPT ![t] = [Unborn EXCEPT !.life = "live", !.owner = Me]]
  /\ UNCHANGED members
setMembers(p, us) == Changed /\ members' = [members EXCEPT ![p] = us] /\ UNCHANGED item

\* The links of a project go with it.
removeProject(p) ==
  /\ Changed
  /\ members' = [members EXCEPT ![p] = {}]
  /\ item' = [t \in Tasks |-> IF item[t].project = p
                              THEN [item[t] EXCEPT !.project = Nobody] ELSE item[t]]

\* Requests of the other user: claim, delete, leave a project.
OthersChange ==
  \/ \E t \in Tasks, p \in Projects : Claimable(t, You, p, You) /\ assign(t, p, You)
  \/ \E t \in Tasks : MayUse(t, You) /\ removeTask(t)
  \/ \E p \in Projects : You \in members[p] /\ setMembers(p, {Me})

=============================================================================
