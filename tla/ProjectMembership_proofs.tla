---------------------- MODULE ProjectMembership_proofs ----------------------
(***************************************************************************)
(* Projects and claims stay consistent for any number of users, projects,  *)
(* tasks and concurrent requests.                                          *)
(*                                                                         *)
(* The two invariants hold each other up: a claim writes its link only     *)
(* into a project that still exists because its members, which a claim     *)
(* holds, still exist; and members of a project that is gone would be      *)
(* checks of a claim that no longer hold.  Beside them stand what two      *)
(* transactions remember of their reads: a deletion the heirs of every     *)
(* project it has to give away, a removal whether the task was in another  *)
(* project.                                                                *)
(***************************************************************************)
EXTENDS ProjectMembership, TLAPS

\* What a request names once it is under way.
Named(x) ==
  /\ x.pc # "idle" => x.actor \in Users
  /\ x.pc \notin {"idle", "post"} => x.project \in Projects
  /\ x.pc \in {"attach", "owned", "assignable", "detach", "unlinked", "claim"} => x.task \in Tasks
  /\ x.pc \in {"expel", "attach", "owned", "assignable", "claim"} => x.target \in Users

RequestsNamed == \A r \in Requests : Named(req[r])

\* No link of a task that is being claimed is about to go.
ClaimsExcludeRemovals ==
  \A t \in Tasks : ClaimHolds(t) => \A p \in Projects : ~LinkHeld(p, t)

\* The deletion of an account knows an heir, or that there is none, for every
\* project the account owns by now.
HeirsKnown ==
  \A u \in leaving : \A p \in Projects :
    Live(p) /\ project[p].owner = u => \E v \in Users \cup {None} : <<p, v>> \in heirs[u]

\* A task that was in no other project when its link was deleted, and that
\* nobody owns still, is in no other project.
RemovalRemembers ==
  \A r \in Requests :
    req[r].pc = "unlinked" /\ ~req[r].linked /\ task[req[r].task].user = None
      => LinkedTo(req[r].task) \subseteq {req[r].project}

MemInv ==
  /\ MemTypeOK
  /\ RequestsNamed
  /\ PeopleExist
  /\ ClaimChecksHold
  /\ ClaimsExcludeRemovals
  /\ HeirsKnown
  /\ RemovalRemembers

USE ProjectMembershipAssumption DEF ProjectMembershipAssumption

\* The parts of the type invariant: the tables, the requests, the deletions.
TablesOK ==
  /\ accounts \in SUBSET Users
  /\ project \in [Projects -> [life : Lives, owner : Users \cup {None}]]
  /\ members \in [Projects -> SUBSET Users]
  /\ items \in [Projects -> SUBSET Tasks]
  /\ task \in [Tasks -> [life : Lives, user : Users \cup {None}]]

RequestRecords == [pc : Pcs, actor : Users \cup {None}, project : Projects \cup {None},
                   task : Tasks \cup {None}, target : Users \cup {None}, linked : BOOLEAN]

RequestsOK == req \in [Requests -> RequestRecords] /\ RequestsNamed

LeavingOK ==
  /\ leaving \in SUBSET Users
  /\ heirs \in [Users -> SUBSET (Projects \X (Users \cup {None}))]

LEMMA TypeParts ==
  /\ MemTypeOK /\ RequestsNamed <=> TablesOK /\ RequestsOK /\ LeavingOK
  /\ (MemTypeOK /\ RequestsNamed)' <=> TablesOK' /\ RequestsOK' /\ LeavingOK'
  BY DEF MemTypeOK, TablesOK, RequestsOK, LeavingOK, RequestRecords

-----------------------------------------------------------------------------
(* Requests.                                                                *)

LEMMA IdleRecord == Idle \in RequestRecords /\ Named(Idle) /\ Idle.pc = "idle"
  BY DEF Idle, RequestRecords, Pcs, Named

\* A request under way is a record of its kind.
LEMMA BusyRecord ==
  ASSUME NEW pc \in Pcs, NEW u \in Users, NEW p \in Projects \cup {None}, NEW t \in Tasks \cup {None},
         NEW v \in Users \cup {None}
  PROVE  /\ Busy(pc, u, p, t, v) \in RequestRecords
         /\ Busy(pc, u, p, t, v).pc = pc /\ Busy(pc, u, p, t, v).actor = u
         /\ Busy(pc, u, p, t, v).project = p /\ Busy(pc, u, p, t, v).task = t
         /\ Busy(pc, u, p, t, v).target = v
  BY DEF Busy, RequestRecords

LEMMA OneRequest ==
  ASSUME RequestsOK, NEW r \in Requests, NEW x \in RequestRecords, req' = [req EXCEPT ![r] = x]
  PROVE  /\ req' \in [Requests -> RequestRecords]
         /\ req'[r] = x /\ \A q \in Requests \ {r} : req'[q] = req[q]
         /\ Named(x) => RequestsOK'
<1>1. /\ req' \in [Requests -> RequestRecords]
      /\ req'[r] = x /\ \A q \in Requests \ {r} : req'[q] = req[q]
  BY DEF RequestsOK
<1>2. ASSUME Named(x)
      PROVE  RequestsOK'
  <2>1. \A q \in Requests : Named(req'[q])
    BY <1>1, <1>2 DEF RequestsOK, RequestsNamed
  <2> QED BY <1>1, <2>1 DEF RequestsOK, RequestsNamed
<1> QED BY <1>1, <1>2

\* A step that begins no claim and no removal.
NoNewChecks == \A q \in Requests : req'[q].pc \in {"claim", "unlinked"} => req'[q] = req[q]

LEMMA EndOrNot ==
  ASSUME RequestsOK, UNCHANGED req \/ \E r \in Requests : End(r)
  PROVE  RequestsOK' /\ NoNewChecks
<1>1. CASE UNCHANGED req
  BY <1>1 DEF RequestsOK, RequestsNamed, NoNewChecks
<1>2. ASSUME NEW r \in Requests, End(r)
      PROVE  RequestsOK' /\ NoNewChecks
  <2>1. req' = [req EXCEPT ![r] = Idle]
    BY <1>2 DEF End
  <2> QED BY <2>1, IdleRecord, OneRequest DEF NoNewChecks
<1> QED BY <1>1, <1>2

\* What a claim of task t for project p has checked is as it was.
ClaimUntouched(t, p) ==
  /\ task'[t] = task[t]
  /\ \A q \in Projects :
       /\ t \in items'[q] <=> t \in items[q]
       /\ q = p \/ t \in items[q] => members[q] \subseteq members'[q]

\* A task without an owner had none before, and has no new link.
OwnerlessStay ==
  \A t \in Tasks : task'[t].user = None =>
    task[t].user = None /\ \A q \in Projects : t \in items'[q] => t \in items[q]

\* The steps that begin no claim and no removal keep what these have checked,
\* when they keep their hands off the tasks that are being claimed.
LEMMA ChecksKept ==
  ASSUME MemInv, NoNewChecks, OwnerlessStay,
         \A r \in Requests : req[r].pc = "claim" /\ req'[r] = req[r]
                               => ClaimUntouched(req[r].task, req[r].project)
  PROVE  ClaimChecksHold' /\ ClaimsExcludeRemovals' /\ RemovalRemembers'
<1>0. /\ \A r \in Requests : req'[r].pc \in {"claim", "unlinked"} => req'[r] = req[r]
      /\ \A r \in Requests : req[r].pc \in {"claim", "unlinked"}
           => req[r].task \in Tasks /\ req[r].project \in Projects
  BY DEF NoNewChecks, MemInv, RequestsNamed, Named
<1>1. ClaimChecksHold'
  <2> SUFFICES ASSUME NEW r \in Requests, req'[r].pc = "claim"
               PROVE  /\ MayClaim(req[r].actor, req[r].task, req[r].project, req[r].target)'
                      /\ \A q \in Requests \ {r} : req'[q].pc = "claim" => req'[q].task # req'[r].task
    BY <1>0 DEF ClaimChecksHold
  <2> DEFINE t == req[r].task
             p == req[r].project
  <2>1. req'[r] = req[r] /\ req[r].pc = "claim" /\ t \in Tasks /\ p \in Projects
    BY <1>0
  <2>2. ClaimUntouched(t, p)
    BY <2>1
  <2>3. MayClaim(req[r].actor, t, p, req[r].target)
    BY <2>1 DEF MemInv, ClaimChecksHold
  <2>4. LinkedTo(t)' = LinkedTo(t)
    BY <2>1, <2>2 DEF LinkedTo, ClaimUntouched
  <2>5. \A q \in LinkedTo(t) \cup {p} : q \in Projects /\ members[q] \subseteq members'[q]
    BY <2>1, <2>2 DEF LinkedTo, ClaimUntouched
  <2>6. MayClaim(req[r].actor, t, p, req[r].target)'
    BY <2>1, <2>2, <2>3, <2>4, <2>5 DEF MayClaim, TaskLive, ClaimUntouched
  <2>7. \A q \in Requests \ {r} : req'[q].pc = "claim" => req'[q].task # req'[r].task
    BY <1>0, <2>1 DEF MemInv, ClaimChecksHold
  <2> QED BY <2>1, <2>6, <2>7
<1>2. ClaimsExcludeRemovals'
  <2> SUFFICES ASSUME NEW t \in Tasks, ClaimHolds(t)', NEW p \in Projects, LinkHeld(p, t)'
               PROVE  FALSE
    BY DEF ClaimsExcludeRemovals
  <2>1. PICK r \in Requests : req'[r].pc = "claim" /\ req'[r].task = t
    BY DEF ClaimHolds
  <2>2. ClaimUntouched(t, req[r].project) /\ ClaimHolds(t)
    BY <1>0, <2>1 DEF ClaimHolds
  <2>3. LinkHeld(p, t)
    BY <1>0, <2>2 DEF LinkHeld, ClaimUntouched
  <2> QED BY <2>2, <2>3 DEF MemInv, ClaimsExcludeRemovals
<1>3. RemovalRemembers'
  <2> SUFFICES ASSUME NEW r \in Requests, req'[r].pc = "unlinked", ~req'[r].linked,
                      task'[req'[r].task].user = None,
                      NEW q \in Projects, req'[r].task \in items'[q]
               PROVE  q = req'[r].project
    BY DEF RemovalRemembers, LinkedTo
  <2>1. req'[r] = req[r] /\ req[r].task \in Tasks
    BY <1>0
  <2>2. req[r].task \in items[q] /\ task[req[r].task].user = None
    BY <2>1 DEF OwnerlessStay
  <2> QED BY <2>1, <2>2 DEF MemInv, RemovalRemembers, LinkedTo
<1> QED BY <1>1, <1>2, <1>3

\* A step of a request that changes no table.
LEMMA QuietTables ==
  ASSUME MemInv, UNCHANGED <<dataVars, leaveVars>>
  PROVE  /\ TablesOK' /\ LeavingOK' /\ PeopleExist' /\ HeirsKnown' /\ OwnerlessStay
         /\ \A t \in Tasks, p \in Projects : ClaimUntouched(t, p)
         /\ \A t \in Tasks : TaskLive(t)' = TaskLive(t) /\ LinkedTo(t)' = LinkedTo(t)
<1> USE DEF dataVars, leaveVars
<1>1. TablesOK' /\ LeavingOK'
  BY TypeParts DEF MemInv, TablesOK, LeavingOK
<1>2. PeopleExist' /\ HeirsKnown'
  BY DEF MemInv, PeopleExist, HeirsKnown, Live
<1> QED BY <1>1, <1>2 DEF OwnerlessStay, ClaimUntouched, TaskLive, LinkedTo

LEMMA QuietStep ==
  ASSUME MemInv, UNCHANGED <<dataVars, leaveVars>>,
         NEW r \in Requests, NEW x \in RequestRecords, Named(x),
         x.pc \notin {"claim", "unlinked"}, req' = [req EXCEPT ![r] = x]
  PROVE  MemInv'
<1>1. RequestsOK' /\ NoNewChecks
  BY OneRequest, TypeParts DEF MemInv, NoNewChecks
<1>2. ClaimChecksHold' /\ ClaimsExcludeRemovals' /\ RemovalRemembers'
  <2>1. \A q \in Requests : req[q].pc = "claim" => req[q].task \in Tasks /\ req[q].project \in Projects
    BY DEF MemInv, RequestsNamed, Named
  <2> QED BY <1>1, <2>1, QuietTables, ChecksKept
<1> QED BY <1>1, <1>2, QuietTables, TypeParts DEF MemInv

\* A request that starts, and is no claim.
LEMMA StartStep ==
  ASSUME MemInv, NEW r \in Requests, NEW u \in Users, NEW p \in Projects \cup {None},
         NEW t \in Tasks \cup {None}, NEW v \in Users \cup {None},
         NEW pc \in {"post", "invite", "expel", "drop", "attach", "detach"},
         pc # "post" => p # None, pc \in {"attach", "detach"} => t # None,
         pc \in {"expel", "attach"} => v # None,
         Start(r, u, Busy(pc, u, p, t, v))
  PROVE  MemInv'
<1> DEFINE x == Busy(pc, u, p, t, v)
<1>1. pc \in Pcs
  BY DEF Pcs
<1>2. x \in RequestRecords /\ x.pc = pc /\ Named(x)
  BY <1>1, BusyRecord DEF Named
<1> QED BY <1>2, QuietStep DEF Start

LEMMA GoOnStep ==
  ASSUME MemInv, NEW r \in Requests, CheckOwned(r) \/ CheckAssignee(r) \/ Abandon(r)
  PROVE  MemInv'
<1>0. req \in [Requests -> RequestRecords] /\ Named(req[r])
  BY TypeParts DEF MemInv, RequestsOK, RequestsNamed
<1>1. ASSUME NEW next \in {"owned", "assignable"}, req[r].pc \in {"attach", "owned"}, Continue(r, next)
      PROVE  MemInv'
  <2> DEFINE x == [req[r] EXCEPT !.pc = next]
  <2>1. x \in RequestRecords /\ x.pc = next /\ Named(x)
    BY <1>0, <1>1 DEF RequestRecords, Pcs, Named
  <2>2. req' = [req EXCEPT ![r] = x]
    BY <1>0, <1>1 DEF Continue
  <2> QED BY <1>1, <2>1, <2>2, QuietStep DEF Continue
<1>2. CASE Abandon(r)
  BY <1>2, IdleRecord, QuietStep DEF Abandon, End
<1> QED BY <1>1, <1>2 DEF CheckOwned, CheckAssignee

\* A claim begins where no other has the task and no link of it is going.
LEMMA BeginClaimStep ==
  ASSUME MemInv, NEW r \in Requests, NEW u \in Users, NEW t \in Tasks, NEW p \in Projects,
         NEW v \in Users, BeginClaim(r, u, t, p, v)
  PROVE  MemInv'
<1> DEFINE x == Busy("claim", u, p, t, v)
<1>1. /\ x \in RequestRecords /\ Named(x)
      /\ x.pc = "claim" /\ x.actor = u /\ x.project = p /\ x.task = t /\ x.target = v
  <2>1. "claim" \in Pcs
    BY DEF Pcs
  <2> QED BY <2>1, BusyRecord DEF Named
<1>2. UNCHANGED <<dataVars, leaveVars>> /\ req[r] = Idle /\ req' = [req EXCEPT ![r] = x]
  BY DEF BeginClaim, Start
<1>3. /\ RequestsOK' /\ req'[r] = x /\ \A q \in Requests \ {r} : req'[q] = req[q]
  BY <1>1, <1>2, OneRequest, TypeParts DEF MemInv
<1>4. ClaimChecksHold'
  <2>1. MayClaim(u, t, p, v) /\ \A q \in Requests : req[q].pc = "claim" => req[q].task # t
    BY DEF BeginClaim, ClaimHolds
  <2>2. ASSUME NEW q \in Requests, req'[q].pc = "claim"
        PROVE  MayClaim(req'[q].actor, req'[q].task, req'[q].project, req'[q].target)
    BY <1>1, <1>3, <2>1, <2>2 DEF MemInv, ClaimChecksHold
  <2>3. ASSUME NEW q \in Requests, NEW z \in Requests \ {q}, req'[q].pc = "claim", req'[z].pc = "claim"
        PROVE  req'[z].task # req'[q].task
    BY <1>1, <1>3, <2>1, <2>3 DEF MemInv, ClaimChecksHold
  <2> QED BY <1>2, <2>2, <2>3 DEF ClaimChecksHold, MayClaim, TaskLive, LinkedTo, dataVars
<1>5. ClaimsExcludeRemovals'
  <2> SUFFICES ASSUME NEW s \in Tasks, ClaimHolds(s)', NEW q \in Projects, LinkHeld(q, s)'
               PROVE  FALSE
    BY DEF ClaimsExcludeRemovals
  <2>1. LinkHeld(q, s)
    BY <1>1, <1>2, <1>3 DEF LinkHeld, dataVars
  <2>2. s = t \/ ClaimHolds(s)
    BY <1>1, <1>3 DEF ClaimHolds
  <2> QED BY <2>1, <2>2 DEF BeginClaim, MemInv, ClaimsExcludeRemovals
<1>6. RemovalRemembers'
  BY <1>1, <1>2, <1>3 DEF MemInv, RemovalRemembers, LinkedTo, dataVars
<1> QED BY <1>2, <1>3, <1>4, <1>5, <1>6, QuietTables, TypeParts DEF MemInv

\* A removal that deletes a link waits for the claim of the task, and remembers
\* whether there was another link.
LEMMA UnlinkStep ==
  ASSUME MemInv, NEW r \in Requests, Unlink(r)
  PROVE  MemInv'
<1> DEFINE p == req[r].project
           t == req[r].task
           x == [req[r] EXCEPT !.pc = "unlinked", !.linked = (LinkedTo(t) \ {p} # {})]
<1>0. req \in [Requests -> RequestRecords] /\ Named(req[r]) /\ req[r].pc = "detach"
  BY TypeParts DEF MemInv, RequestsOK, RequestsNamed, Unlink
<1>1. /\ x \in RequestRecords /\ Named(x) /\ x.pc = "unlinked" /\ x.task = t /\ x.project = p
      /\ ~x.linked => LinkedTo(t) \subseteq {p}
  BY <1>0 DEF RequestRecords, Pcs, Named
<1>2. UNCHANGED <<dataVars, leaveVars>> /\ req' = [req EXCEPT ![r] = x]
  BY <1>0 DEF Unlink
<1>3. /\ RequestsOK' /\ req'[r] = x /\ \A q \in Requests \ {r} : req'[q] = req[q]
  BY <1>1, <1>2, OneRequest, TypeParts DEF MemInv
<1>4. ClaimChecksHold'
  <2>1. \A q \in Requests : req'[q].pc = "claim" => req'[q] = req[q]
    BY <1>1, <1>3
  <2>2. ASSUME NEW q \in Requests, req'[q].pc = "claim"
        PROVE  MayClaim(req'[q].actor, req'[q].task, req'[q].project, req'[q].target)
    BY <2>1, <2>2 DEF MemInv, ClaimChecksHold
  <2>3. ASSUME NEW q \in Requests, NEW z \in Requests \ {q}, req'[q].pc = "claim", req'[z].pc = "claim"
        PROVE  req'[z].task # req'[q].task
    BY <2>1, <2>3 DEF MemInv, ClaimChecksHold
  <2> QED BY <1>2, <2>2, <2>3 DEF ClaimChecksHold, MayClaim, TaskLive, LinkedTo, dataVars
<1>5. ClaimsExcludeRemovals'
  <2> SUFFICES ASSUME NEW s \in Tasks, ClaimHolds(s)', NEW q \in Projects, LinkHeld(q, s)'
               PROVE  FALSE
    BY DEF ClaimsExcludeRemovals
  <2>1. ClaimHolds(s)
    BY <1>1, <1>3 DEF ClaimHolds
  <2>2. LinkHeld(q, s) \/ (q = p /\ s = t /\ t \in items[p])
    BY <1>1, <1>2, <1>3 DEF LinkHeld, dataVars
  <2> QED BY <2>1, <2>2 DEF Unlink, MemInv, ClaimsExcludeRemovals
<1>6. RemovalRemembers'
  BY <1>1, <1>2, <1>3 DEF MemInv, RemovalRemembers, LinkedTo, dataVars
<1> QED BY <1>2, <1>3, <1>4, <1>5, <1>6, QuietTables, TypeParts DEF MemInv

-----------------------------------------------------------------------------
(* Writes.                                                                  *)

LEMMA TableStep ==
  ASSUME MemInv, UNCHANGED req \/ \E r \in Requests : End(r),
         TablesOK', LeavingOK', PeopleExist', HeirsKnown', OwnerlessStay,
         \A r \in Requests : req[r].pc = "claim" /\ req'[r] = req[r]
                               => ClaimUntouched(req[r].task, req[r].project)
  PROVE  MemInv'
<1>1. RequestsOK' /\ NoNewChecks
  BY EndOrNot, TypeParts DEF MemInv
<1> QED BY <1>1, ChecksKept, TypeParts DEF MemInv

\* While a claim is under way its task is live, its rows are held, and the
\* projects it checked exist.
LEMMA ClaimFacts ==
  ASSUME MemInv, NEW r \in Requests, req[r].pc = "claim"
  PROVE  /\ req[r].task \in Tasks /\ req[r].project \in Projects /\ req[r].target \in Users
         /\ TaskLive(req[r].task) /\ ClaimHolds(req[r].task)
         /\ \A q \in Projects : ~LinkHeld(q, req[r].task)
         /\ \A q \in Projects : q = req[r].project \/ req[r].task \in items[q]
              => MembersHeld(q) /\ Live(q)
<1> DEFINE t == req[r].task
           p == req[r].project
<1>1. t \in Tasks /\ p \in Projects /\ req[r].target \in Users
  BY DEF MemInv, RequestsNamed, Named
<1>2. TaskLive(t) /\ \A q \in LinkedTo(t) \cup {p} : req[r].target \in members[q]
  BY DEF MemInv, ClaimChecksHold, MayClaim
<1>3. ClaimHolds(t) /\ \A q \in LinkedTo(t) \cup {p} : MembersHeld(q)
  BY DEF ClaimHolds, MembersHeld
<1>4. \A q \in Projects : req[r].target \in members[q] => Live(q)
  BY DEF MemInv, PeopleExist
<1>5. \A q \in Projects : ~LinkHeld(q, t)
  BY <1>1, <1>3 DEF MemInv, ClaimsExcludeRemovals
<1> QED BY <1>1, <1>2, <1>3, <1>4, <1>5 DEF LinkedTo

LEMMA CreateProjectStep ==
  ASSUME MemInv, NEW u \in Users, NEW p \in Projects, CreateProject(u, p)
  PROVE  MemInv'
<1>0. TablesOK /\ LeavingOK
  BY TypeParts DEF MemInv
<1>1. /\ project[p].life = "unborn" /\ u \in accounts /\ u \notin leaving
      /\ project' \in [Projects -> [life : Lives, owner : Users \cup {None}]]
      /\ project'[p] = [life |-> "live", owner |-> u]
      /\ \A q \in Projects \ {p} : project'[q] = project[q]
      /\ members' \in [Projects -> SUBSET Users]
      /\ members'[p] = {u} /\ \A q \in Projects \ {p} : members'[q] = members[q]
      /\ UNCHANGED <<accounts, items, task, req, leaving, heirs>>
  BY <1>0 DEF CreateProject, TablesOK, Lives, leaveVars
<1>2. TablesOK' /\ LeavingOK'
  BY <1>0, <1>1 DEF TablesOK, LeavingOK
<1>3. PeopleExist'
  BY <1>1 DEF MemInv, PeopleExist, Live
<1>4. HeirsKnown'
  BY <1>1 DEF MemInv, HeirsKnown, Live
<1>5. ASSUME NEW r \in Requests, req[r].pc = "claim"
      PROVE  ClaimUntouched(req[r].task, req[r].project)
  <2>1. \A q \in Projects : q = req[r].project \/ req[r].task \in items[q] => q # p
    BY <1>1, <1>5, ClaimFacts DEF Live
  <2> QED BY <1>1, <2>1 DEF ClaimUntouched
<1> QED BY <1>1, <1>2, <1>3, <1>4, <1>5, TableStep DEF OwnerlessStay

LEMMA PostTaskStep ==
  ASSUME MemInv, NEW r \in Requests, NEW t \in Tasks, PostTask(r, t)
  PROVE  MemInv'
<1>0. TablesOK /\ LeavingOK
  BY TypeParts DEF MemInv
<1>a. req[r].pc = "post" /\ req[r].actor \in Users
  BY DEF PostTask, MemInv, RequestsNamed, Named
<1>1. /\ task[t].life = "unborn"
      /\ task' \in [Tasks -> [life : Lives, user : Users \cup {None}]]
      /\ task'[t].user # None
      /\ \A s \in Tasks \ {t} : task'[s] = task[s]
      /\ UNCHANGED <<accounts, project, members, items, leaving, heirs>> /\ End(r)
  BY <1>0, <1>a DEF PostTask, TablesOK, Lives, leaveVars
<1>2. TablesOK' /\ LeavingOK'
  BY <1>0, <1>1 DEF TablesOK, LeavingOK
<1>3. PeopleExist' /\ HeirsKnown'
  BY <1>1 DEF MemInv, PeopleExist, HeirsKnown, Live
<1>4. OwnerlessStay
  BY <1>1 DEF OwnerlessStay
<1>5. ASSUME NEW q \in Requests, req[q].pc = "claim"
      PROVE  ClaimUntouched(req[q].task, req[q].project)
  BY <1>1, <1>5, ClaimFacts DEF ClaimUntouched, TaskLive
<1> QED BY <1>1, <1>2, <1>3, <1>4, <1>5, TableStep

LEMMA AddMemberStep ==
  ASSUME MemInv, NEW r \in Requests, NEW v \in Users, AddMember(r, v)
  PROVE  MemInv'
<1> DEFINE p == req[r].project
<1>0. TablesOK /\ LeavingOK /\ p \in Projects
  BY TypeParts DEF MemInv, AddMember, RequestsNamed, Named
<1>1. /\ Live(p) /\ v \in accounts
      /\ members' \in [Projects -> SUBSET Users]
      /\ members'[p] = members[p] \cup {v} /\ \A q \in Projects \ {p} : members'[q] = members[q]
      /\ UNCHANGED <<accounts, project, items, task, leaving, heirs>> /\ End(r)
  BY <1>0 DEF AddMember, TablesOK, leaveVars
<1>2. TablesOK' /\ LeavingOK'
  BY <1>0, <1>1 DEF TablesOK, LeavingOK
<1>3. PeopleExist' /\ HeirsKnown'
  BY <1>1 DEF MemInv, PeopleExist, HeirsKnown, Live
<1>5. ASSUME NEW q \in Requests
      PROVE  ClaimUntouched(req[q].task, req[q].project)
  BY <1>1 DEF ClaimUntouched
<1> QED BY <1>1, <1>2, <1>3, <1>5, TableStep DEF OwnerlessStay

LEMMA RemoveMemberStep ==
  ASSUME MemInv, NEW r \in Requests, RemoveMember(r)
  PROVE  MemInv'
<1> DEFINE p == req[r].project
<1>0. TablesOK /\ LeavingOK /\ p \in Projects
  BY TypeParts DEF MemInv, RemoveMember, RequestsNamed, Named
<1>1. /\ ~MembersHeld(p)
      /\ members' \in [Projects -> SUBSET Users]
      /\ members'[p] \subseteq members[p] /\ \A q \in Projects \ {p} : members'[q] = members[q]
      /\ UNCHANGED <<accounts, project, items, task, leaving, heirs>> /\ End(r)
  BY <1>0 DEF RemoveMember, TablesOK, leaveVars
<1>2. TablesOK' /\ LeavingOK'
  BY <1>0, <1>1 DEF TablesOK, LeavingOK
<1>3. PeopleExist' /\ HeirsKnown'
  BY <1>1 DEF MemInv, PeopleExist, HeirsKnown, Live
<1>5. ASSUME NEW q \in Requests, req[q].pc = "claim"
      PROVE  ClaimUntouched(req[q].task, req[q].project)
  BY <1>1, <1>5, ClaimFacts DEF ClaimUntouched
<1> QED BY <1>1, <1>2, <1>3, <1>5, TableStep DEF OwnerlessStay

LEMMA DropProjectStep ==
  ASSUME MemInv, NEW r \in Requests, DropProject(r)
  PROVE  MemInv'
<1>0. TablesOK /\ LeavingOK
  BY TypeParts DEF MemInv
<1>p. PICK p \in Projects : p = req[r].project
  BY DEF MemInv, DropProject, RequestsNamed, Named
<1>1. /\ ~MembersHeld(p)
      /\ project' \in [Projects -> [life : Lives, owner : Users \cup {None}]]
      /\ project'[p].life = "deleted" /\ \A q \in Projects \ {p} : project'[q] = project[q]
      /\ members' \in [Projects -> SUBSET Users]
      /\ members'[p] = {} /\ \A q \in Projects \ {p} : members'[q] = members[q]
      /\ items' \in [Projects -> SUBSET Tasks]
      /\ items'[p] = {} /\ \A q \in Projects \ {p} : items'[q] = items[q]
      /\ UNCHANGED <<accounts, task, leaving, heirs>> /\ End(r)
  BY <1>0, <1>p DEF DropProject, ProjectFree, TablesOK, Lives, leaveVars
<1>2. TablesOK' /\ LeavingOK'
  BY <1>0, <1>1 DEF TablesOK, LeavingOK
<1>3. PeopleExist' /\ HeirsKnown'
  <2>1. ~Live(p)' /\ \A q \in Projects \ {p} : Live(q)' = Live(q)
    BY <1>1 DEF Live
  <2>2. PeopleExist'
    BY <1>1, <2>1 DEF MemInv, PeopleExist, Live
  <2>3. HeirsKnown'
    BY <1>1, <2>1 DEF MemInv, HeirsKnown, Live
  <2> QED BY <2>2, <2>3
<1>4. OwnerlessStay
  BY <1>1 DEF OwnerlessStay
<1>5. ASSUME NEW q \in Requests, req[q].pc = "claim"
      PROVE  ClaimUntouched(req[q].task, req[q].project)
  BY <1>1, <1>5, ClaimFacts DEF ClaimUntouched
<1> QED BY <1>1, <1>2, <1>3, <1>4, <1>5, TableStep

LEMMA AttachStep ==
  ASSUME MemInv, NEW r \in Requests, Attach(r)
  PROVE  MemInv'
<1>0. TablesOK /\ LeavingOK
  BY TypeParts DEF MemInv
<1>p. PICK p \in Projects, t \in Tasks, v \in Users :
        p = req[r].project /\ t = req[r].task /\ v = req[r].target
  BY DEF MemInv, Attach, RequestsNamed, Named
<1>1. /\ Live(p) /\ ~ClaimHolds(t)
      /\ items' \in [Projects -> SUBSET Tasks]
      /\ items'[p] = items[p] \cup {t} /\ \A q \in Projects \ {p} : items'[q] = items[q]
      /\ task' \in [Tasks -> [life : Lives, user : Users \cup {None}]]
      /\ task'[t].user = v /\ \A s \in Tasks \ {t} : task'[s] = task[s]
      /\ UNCHANGED <<accounts, project, members, leaving, heirs>> /\ End(r)
  BY <1>0, <1>p DEF Attach, TablesOK, leaveVars
<1>2. TablesOK' /\ LeavingOK'
  BY <1>0, <1>1 DEF TablesOK, LeavingOK
<1>3. PeopleExist' /\ HeirsKnown'
  BY <1>1 DEF MemInv, PeopleExist, HeirsKnown, Live
<1>4. OwnerlessStay
  BY <1>1 DEF OwnerlessStay
<1>5. ASSUME NEW q \in Requests, req[q].pc = "claim"
      PROVE  ClaimUntouched(req[q].task, req[q].project)
  BY <1>1, <1>5, ClaimFacts DEF ClaimUntouched
<1> QED BY <1>1, <1>2, <1>3, <1>4, <1>5, TableStep

\* A removal deletes what it has left of the link, and the task only while no
\* claim of it is under way.
LEMMA DetachStep ==
  ASSUME MemInv, NEW r \in Requests, Detach(r)
  PROVE  MemInv'
<1>0. TablesOK /\ LeavingOK
  BY TypeParts DEF MemInv
<1>p. PICK p \in Projects, t \in Tasks : p = req[r].project /\ t = req[r].task
  BY DEF MemInv, Detach, RequestsNamed, Named
<1>1. /\ UNCHANGED <<accounts, project, members, leaving, heirs>> /\ End(r)
      /\ items' \in [Projects -> SUBSET Tasks]
      /\ \A q \in Projects : items'[q] \subseteq items[q] /\ items[q] \ {t} \subseteq items'[q]
      /\ task' \in [Tasks -> [life : Lives, user : Users \cup {None}]]
      /\ \A s \in Tasks : task'[s].user = task[s].user
      /\ \A s \in Tasks \ {t} : task'[s] = task[s]
      /\ ClaimHolds(t) => task' = task /\ \A q \in Projects \ {p} : items'[q] = items[q]
  BY <1>0, <1>p DEF Detach, TablesOK, Lives, leaveVars
<1>2. TablesOK' /\ LeavingOK'
  BY <1>0, <1>1 DEF TablesOK, LeavingOK
<1>3. PeopleExist' /\ HeirsKnown'
  BY <1>1 DEF MemInv, PeopleExist, HeirsKnown, Live
<1>4. OwnerlessStay
  BY <1>1 DEF OwnerlessStay
<1>5. ASSUME NEW q \in Requests, req[q].pc = "claim"
      PROVE  ClaimUntouched(req[q].task, req[q].project)
  <2>1. CASE req[q].task # t
    BY <1>1, <1>5, <2>1, ClaimFacts DEF ClaimUntouched
  <2>2. CASE req[q].task = t
    <3>1. ClaimHolds(t) /\ ~LinkHeld(p, t)
      BY <1>5, <2>2, ClaimFacts
    <3>2. t \notin items[p]
      BY <1>p, <3>1 DEF LinkHeld, Detach
    <3> QED BY <1>1, <2>2, <3>1, <3>2 DEF ClaimUntouched
  <2> QED BY <2>1, <2>2
<1> QED BY <1>1, <1>2, <1>3, <1>4, <1>5, TableStep

\* A claim writes into a project that still exists, and no other claim has its
\* task.
LEMMA ClaimStep ==
  ASSUME MemInv, NEW r \in Requests, Claim(r)
  PROVE  MemInv'
<1>0. TablesOK /\ LeavingOK /\ req[r].pc = "claim"
  BY TypeParts DEF MemInv, Claim
<1>p. PICK p \in Projects, t \in Tasks, v \in Users :
        p = req[r].project /\ t = req[r].task /\ v = req[r].target
  BY <1>0, ClaimFacts
<1>1. /\ Live(p)
      /\ UNCHANGED <<accounts, project, members, leaving, heirs>> /\ End(r)
      /\ items' \in [Projects -> SUBSET Tasks]
      /\ items'[p] \in {items[p], items[p] \cup {t}}
      /\ \A q \in Projects \ {p} : items'[q] = items[q]
      /\ task' \in [Tasks -> [life : Lives, user : Users \cup {None}]]
      /\ task'[t].user = v /\ \A s \in Tasks \ {t} : task'[s] = task[s]
  BY <1>0, <1>p, ClaimFacts DEF Claim, TablesOK, leaveVars
<1>2. TablesOK' /\ LeavingOK'
  BY <1>0, <1>1 DEF TablesOK, LeavingOK
<1>3. PeopleExist' /\ HeirsKnown'
  BY <1>1 DEF MemInv, PeopleExist, HeirsKnown, Live
<1>4. OwnerlessStay
  BY <1>1 DEF OwnerlessStay
<1>5. ASSUME NEW q \in Requests, req[q].pc = "claim", req'[q] = req[q]
      PROVE  ClaimUntouched(req[q].task, req[q].project)
  <2>1. req'[r] = Idle
    BY <1>1, IdleRecord, OneRequest, TypeParts DEF MemInv, End
  <2>2. q # r
    BY <1>5, <2>1, IdleRecord
  <2>3. req[q].task \in Tasks /\ req[q].task # t
    BY <1>0, <1>p, <1>5, <2>2, ClaimFacts DEF MemInv, ClaimChecksHold
  <2> QED BY <1>1, <2>3 DEF ClaimUntouched
<1> QED BY <1>1, <1>2, <1>3, <1>4, <1>5, TableStep

LEMMA RemoveTaskStep ==
  ASSUME MemInv, NEW u \in Users, NEW t \in Tasks, RemoveTask(u, t)
  PROVE  MemInv'
<1>0. TablesOK /\ LeavingOK
  BY TypeParts DEF MemInv
<1>1. /\ ~ClaimHolds(t)
      /\ UNCHANGED <<accounts, project, members, req, leaving, heirs>>
      /\ items' \in [Projects -> SUBSET Tasks] /\ \A q \in Projects : items'[q] = items[q] \ {t}
      /\ task' \in [Tasks -> [life : Lives, user : Users \cup {None}]]
      /\ \A s \in Tasks : task'[s].user = task[s].user
      /\ \A s \in Tasks \ {t} : task'[s] = task[s]
  BY <1>0 DEF RemoveTask, TablesOK, Lives, leaveVars
<1>2. TablesOK' /\ LeavingOK'
  BY <1>0, <1>1 DEF TablesOK, LeavingOK
<1>3. PeopleExist' /\ HeirsKnown'
  BY <1>1 DEF MemInv, PeopleExist, HeirsKnown, Live
<1>4. OwnerlessStay
  BY <1>1 DEF OwnerlessStay
<1>5. ASSUME NEW q \in Requests, req[q].pc = "claim"
      PROVE  ClaimUntouched(req[q].task, req[q].project)
  BY <1>1, <1>5, ClaimFacts DEF ClaimUntouched
<1> QED BY <1>1, <1>2, <1>3, <1>4, <1>5, TableStep

-----------------------------------------------------------------------------
(* The deletion of an account.                                              *)

LEMMA BeginLeaveStep ==
  ASSUME MemInv, NEW u \in Users, BeginLeave(u)
  PROVE  MemInv'
<1> DEFINE owned == {p \in Projects : Live(p) /\ project[p].owner = u}
<1>0. TablesOK /\ LeavingOK
  BY TypeParts DEF MemInv
<1>1. UNCHANGED <<dataVars, req>> /\ leaving' = leaving \cup {u}
  BY DEF BeginLeave
<1>2. PICK next \in [owned -> Users \cup {None}] :
        heirs' = [heirs EXCEPT ![u] = {<<p, next[p]>> : p \in owned}]
  BY DEF BeginLeave
<1>3. {<<p, next[p]>> : p \in owned} \subseteq Projects \X (Users \cup {None})
  BY <1>2
<1>4. /\ heirs' \in [Users -> SUBSET (Projects \X (Users \cup {None}))]
      /\ heirs'[u] = {<<p, next[p]>> : p \in owned}
      /\ \A w \in Users \ {u} : heirs'[w] = heirs[w]
  BY <1>0, <1>2, <1>3 DEF LeavingOK
<1>5. TablesOK' /\ LeavingOK' /\ PeopleExist' /\ OwnerlessStay
  <2>1. TablesOK' /\ LeavingOK'
    BY <1>0, <1>1, <1>4 DEF TablesOK, LeavingOK, dataVars
  <2> QED BY <1>1, <2>1 DEF MemInv, PeopleExist, OwnerlessStay, Live, dataVars
<1>6. HeirsKnown'
  <2> SUFFICES ASSUME NEW w \in leaving', NEW p \in Projects, Live(p)', project'[p].owner = w
               PROVE  \E v \in Users \cup {None} : <<p, v>> \in heirs'[w]
    BY DEF HeirsKnown
  <2>1. Live(p) /\ project[p].owner = w
    BY <1>1 DEF Live, dataVars
  <2>2. CASE w = u
    <3>1. p \in owned /\ next[p] \in Users \cup {None}
      BY <1>2, <2>1, <2>2
    <3> QED BY <1>4, <2>2, <3>1
  <2>3. CASE w # u
    BY <1>0, <1>1, <1>4, <2>1, <2>3 DEF MemInv, HeirsKnown, LeavingOK
  <2> QED BY <2>2, <2>3
<1>7. ASSUME NEW q \in Requests
      PROVE  ClaimUntouched(req[q].task, req[q].project)
  BY <1>1 DEF ClaimUntouched, dataVars
<1> QED BY <1>1, <1>5, <1>6, <1>7, TableStep

LEMMA AbortLeaveStep ==
  ASSUME MemInv, NEW u \in Users, AbortLeave(u)
  PROVE  MemInv'
<1>0. TablesOK /\ LeavingOK
  BY TypeParts DEF MemInv
<1>1. /\ UNCHANGED <<dataVars, req>> /\ leaving' = leaving \ {u}
      /\ heirs' \in [Users -> SUBSET (Projects \X (Users \cup {None}))]
      /\ \A w \in Users \ {u} : heirs'[w] = heirs[w]
  BY <1>0 DEF AbortLeave, LeavingOK
<1>2. TablesOK' /\ LeavingOK'
  BY <1>0, <1>1 DEF TablesOK, LeavingOK, dataVars
<1>3. PeopleExist' /\ HeirsKnown' /\ OwnerlessStay
  <2>1. \A w \in leaving' : w \in leaving /\ heirs'[w] = heirs[w]
    BY <1>0, <1>1 DEF LeavingOK
  <2> QED BY <1>1, <2>1 DEF MemInv, PeopleExist, HeirsKnown, OwnerlessStay, Live, dataVars
<1>4. ASSUME NEW q \in Requests
      PROVE  ClaimUntouched(req[q].task, req[q].project)
  BY <1>1 DEF ClaimUntouched, dataVars
<1> QED BY <1>1, <1>2, <1>3, <1>4, TableStep

\* What a deletion leaves of projects, members, links and tasks.
LEMMA LeaveEffect ==
  ASSUME MemInv, NEW u \in Users, Leave(u)
  PROVE  /\ TablesOK' /\ LeavingOK' /\ UNCHANGED req
         /\ u \in leaving /\ accounts' = accounts \ {u} /\ leaving' = leaving \ {u}
         /\ \A w \in Users \ {u} : heirs'[w] = heirs[w]
         /\ \A p \in Dropped(u) \cup Cascaded(u) :
              project'[p].life = "deleted" /\ members'[p] = {} /\ items'[p] = {}
         /\ \A p \in Projects \ (Dropped(u) \cup Cascaded(u)) :
              /\ project'[p].life = project[p].life
              /\ project'[p].owner = IF p \in Handed(u) THEN HeirOf(u, p) ELSE project[p].owner
              /\ members'[p] = members[p] \ {u} /\ items'[p] = items[p] \ Personal(u)
         /\ \A t \in Tasks : /\ task'[t].user = task[t].user
                             /\ t \notin Personal(u) => task'[t] = task[t]
<1> DEFINE gone == Dropped(u) \cup Cascaded(u)
<1>0. TablesOK /\ LeavingOK
  BY TypeParts DEF MemInv
<1>1. /\ u \in leaving /\ LeaveUnblocked(u) /\ UNCHANGED req
      /\ accounts' = accounts \ {u} /\ leaving' = leaving \ {u}
      /\ heirs' = [heirs EXCEPT ![u] = {}]
  BY DEF Leave
<1>2. \A p \in Handed(u) : HeirOf(u, p) \in Users
  BY <1>0, <1>1 DEF LeaveUnblocked, TablesOK
<1>3. gone \subseteq Projects /\ Handed(u) \subseteq Projects
  BY DEF Dropped, Cascaded, Handed
<1>4. /\ project' \in [Projects -> [life : Lives, owner : Users \cup {None}]]
      /\ \A p \in gone : project'[p].life = "deleted"
      /\ \A p \in Projects \ gone :
           /\ project'[p].life = project[p].life
           /\ project'[p].owner = IF p \in Handed(u) THEN HeirOf(u, p) ELSE project[p].owner
  <2>1. project' = [p \in Projects |->
               IF p \in gone THEN [project[p] EXCEPT !.life = "deleted"]
               ELSE IF p \in Handed(u) THEN [project[p] EXCEPT !.owner = HeirOf(u, p)]
               ELSE project[p]]
    BY DEF Leave
  <2> HIDE DEF gone
  <2>2. "deleted" \in Lives
    BY DEF Lives
  <2>3. \A p \in Projects : project[p] \in [life : Lives, owner : Users \cup {None}]
    BY <1>0 DEF TablesOK
  <2>4. ASSUME NEW p \in Projects
        PROVE  /\ project'[p] \in [life : Lives, owner : Users \cup {None}]
               /\ p \in gone => project'[p].life = "deleted"
               /\ p \notin gone =>
                    /\ project'[p].life = project[p].life
                    /\ project'[p].owner = IF p \in Handed(u) THEN HeirOf(u, p) ELSE project[p].owner
    BY <1>2, <2>1, <2>2, <2>3
  <2>5. project' \in [Projects -> [life : Lives, owner : Users \cup {None}]]
    BY <2>1, <2>4
  <2> QED BY <1>3, <2>4, <2>5 DEF gone
<1>5. /\ members' \in [Projects -> SUBSET Users] /\ items' \in [Projects -> SUBSET Tasks]
      /\ \A p \in gone : members'[p] = {} /\ items'[p] = {}
      /\ \A p \in Projects \ gone :
           members'[p] = members[p] \ {u} /\ items'[p] = items[p] \ Personal(u)
  <2>1. /\ members' = [p \in Projects |-> IF p \in gone THEN {} ELSE members[p] \ {u}]
        /\ items' = [p \in Projects |-> IF p \in gone THEN {} ELSE items[p] \ Personal(u)]
    BY DEF Leave
  <2> HIDE DEF gone
  <2> QED BY <1>0, <1>3, <2>1 DEF TablesOK
<1>6. /\ task' \in [Tasks -> [life : Lives, user : Users \cup {None}]]
      /\ \A t \in Tasks : /\ task'[t].user = task[t].user
                          /\ t \notin Personal(u) => task'[t] = task[t]
  BY <1>0 DEF Leave, TablesOK, Lives
<1>7. LeavingOK' /\ \A w \in Users \ {u} : heirs'[w] = heirs[w]
  BY <1>0, <1>1 DEF LeavingOK
<1>8. TablesOK'
  BY <1>0, <1>1, <1>4, <1>5, <1>6 DEF TablesOK
<1> QED BY <1>1, <1>4, <1>5, <1>6, <1>7, <1>8

\* A deletion hands its projects to accounts that are not being deleted, and
\* waits for the claims that hold what it deletes.
LEMMA LeaveStep ==
  ASSUME MemInv, NEW u \in Users, Leave(u)
  PROVE  MemInv'
<1> DEFINE gone == Dropped(u) \cup Cascaded(u)
<1>0. TablesOK /\ LeavingOK /\ LeaveUnblocked(u) /\ u \in leaving
  BY TypeParts DEF MemInv, Leave
<1>1. gone \subseteq Projects
  BY DEF Dropped, Cascaded
<1>2. ASSUME NEW p \in Projects, Live(p)'
      PROVE  /\ p \notin gone /\ Live(p)
             /\ \/ project'[p].owner = project[p].owner /\ project[p].owner # u
                \/ project'[p].owner \in accounts \ leaving
  <2>1. p \notin gone
    BY <1>2, LeaveEffect DEF Live
  <2>2. Live(p)
    BY <1>2, <2>1, LeaveEffect DEF Live
  <2>3. CASE p \in Handed(u)
    BY <1>0, <2>1, <2>2, <2>3, LeaveEffect DEF LeaveUnblocked
  <2>4. CASE p \notin Handed(u)
    BY <2>1, <2>2, <2>4, LeaveEffect DEF Cascaded
  <2> QED BY <2>1, <2>2, <2>3, <2>4
<1>3. PeopleExist'
  <2> SUFFICES ASSUME NEW p \in Projects
               PROVE  /\ Live(p)' => project'[p].owner \in accounts'
                      /\ members'[p] \subseteq accounts'
                      /\ ~Live(p)' => members'[p] = {} /\ items'[p] = {}
    BY DEF PeopleExist
  <2>1. Live(p)' => project'[p].owner \in accounts'
    BY <1>0, <1>2, LeaveEffect DEF MemInv, PeopleExist
  <2>2. members'[p] \subseteq accounts'
    BY <1>1, LeaveEffect DEF MemInv, PeopleExist
  <2>3. ~Live(p)' => members'[p] = {} /\ items'[p] = {}
    BY <1>1, LeaveEffect DEF MemInv, PeopleExist, Live
  <2> QED BY <2>1, <2>2, <2>3
<1>4. HeirsKnown'
  <2> SUFFICES ASSUME NEW w \in leaving', NEW p \in Projects, Live(p)', project'[p].owner = w
               PROVE  \E v \in Users \cup {None} : <<p, v>> \in heirs'[w]
    BY DEF HeirsKnown
  <2>1. w \in leaving /\ w # u /\ heirs'[w] = heirs[w]
    BY <1>0, LeaveEffect DEF LeavingOK
  <2>2. Live(p) /\ project[p].owner = w
    BY <1>2, <2>1
  <2> QED BY <2>1, <2>2 DEF MemInv, HeirsKnown
<1>5. OwnerlessStay
  BY <1>1, LeaveEffect DEF OwnerlessStay
<1>6. ASSUME NEW r \in Requests, req[r].pc = "claim"
      PROVE  ClaimUntouched(req[r].task, req[r].project)
  <2> DEFINE t == req[r].task
             p == req[r].project
  <2>1. t \in Tasks /\ t \notin Personal(u)
    BY <1>0, <1>6, ClaimFacts DEF LeaveUnblocked
  <2>2. \A q \in Projects : q = p \/ t \in items[q] => q \notin gone /\ u \notin members[q]
    BY <1>0, <1>6, ClaimFacts DEF LeaveUnblocked, ProjectFree
  <2> QED BY <1>1, <2>1, <2>2, LeaveEffect DEF ClaimUntouched
<1> QED BY <1>3, <1>4, <1>5, <1>6, LeaveEffect, TableStep

-----------------------------------------------------------------------------

LEMMA MemInitInv == MemInit => MemInv
<1> SUFFICES ASSUME MemInit PROVE MemInv
  OBVIOUS
<1>1. TablesOK
  <2>1. \A p \in Projects : project[p] \in [life : Lives, owner : Users \cup {None}]
    BY DEF MemInit, Lives
  <2>2. \A t \in Tasks : task[t] \in [life : Lives, user : Users \cup {None}]
    BY DEF MemInit, Lives
  <2> QED BY <2>1, <2>2 DEF MemInit, TablesOK
<1>2. RequestsOK /\ \A r \in Requests : req[r].pc = "idle"
  BY IdleRecord DEF MemInit, RequestsOK, RequestsNamed
<1>3. LeavingOK /\ HeirsKnown
  BY DEF MemInit, LeavingOK, HeirsKnown
<1>4. ClaimChecksHold /\ ClaimsExcludeRemovals /\ RemovalRemembers
  BY <1>2 DEF ClaimChecksHold, ClaimsExcludeRemovals, ClaimHolds, RemovalRemembers
<1>5. PeopleExist
  BY DEF MemInit, PeopleExist, Live
<1> QED BY <1>1, <1>2, <1>3, <1>4, <1>5, TypeParts DEF MemInv

LEMMA MemInvStep == MemInv /\ [MemNext]_memVars => MemInv'
<1> SUFFICES ASSUME MemInv, [MemNext]_memVars PROVE MemInv'
  OBVIOUS
<1>1. CASE ProjectRoutes
  <2>1. ASSUME NEW r \in Requests, NEW u \in Users, NEW p \in Projects, BeginDrop(r, u, p)
        PROVE  MemInv'
    BY <2>1, StartStep DEF BeginDrop
  <2> QED BY <1>1, <2>1, CreateProjectStep, DropProjectStep DEF ProjectRoutes
<1>2. CASE MemberRoutes
  <2>1. ASSUME NEW r \in Requests, NEW u \in Users, NEW p \in Projects, BeginAddMember(r, u, p)
        PROVE  MemInv'
    BY <2>1, StartStep DEF BeginAddMember
  <2>2. ASSUME NEW r \in Requests, NEW u \in Users, NEW p \in Projects, NEW v \in Users,
               BeginRemoveMember(r, u, p, v)
        PROVE  MemInv'
    BY <2>2, StartStep DEF BeginRemoveMember
  <2> QED BY <1>2, <2>1, <2>2, AddMemberStep, RemoveMemberStep DEF MemberRoutes
<1>3. CASE ItemRoutes
  <2>1. ASSUME NEW r \in Requests, NEW u \in Users, NEW p \in Projects, NEW t \in Tasks,
               NEW v \in Users, BeginAttach(r, u, p, t, v)
        PROVE  MemInv'
    BY <2>1, StartStep DEF BeginAttach
  <2>2. ASSUME NEW r \in Requests, NEW u \in Users, NEW p \in Projects, NEW t \in Tasks,
               BeginDetach(r, u, p, t)
        PROVE  MemInv'
    BY <2>2, StartStep DEF BeginDetach
  <2> QED BY <1>3, <2>1, <2>2, GoOnStep, AttachStep, UnlinkStep, DetachStep DEF ItemRoutes
<1>4. CASE TaskRoutes
  <2>1. ASSUME NEW r \in Requests, NEW u \in Users, BeginPost(r, u)
        PROVE  MemInv'
    BY <2>1, StartStep DEF BeginPost
  <2> QED BY <1>4, <2>1, PostTaskStep, BeginClaimStep, ClaimStep, RemoveTaskStep DEF TaskRoutes
<1>5. CASE \E r \in Requests : Abandon(r)
  BY <1>5, GoOnStep
<1>6. CASE AccountDeletion
  BY <1>6, BeginLeaveStep, LeaveStep, AbortLeaveStep DEF AccountDeletion
<1>7. CASE UNCHANGED memVars
  <2>1. UNCHANGED <<dataVars, leaveVars, req>>
    BY <1>7 DEF memVars, dataVars, leaveVars
  <2>2. \A r \in Requests : req[r].pc = "claim" => req[r].task \in Tasks /\ req[r].project \in Projects
    BY DEF MemInv, RequestsNamed, Named
  <2> QED BY <2>1, <2>2, QuietTables, TableStep
<1> QED BY <1>1, <1>2, <1>3, <1>4, <1>5, <1>6, <1>7 DEF MemNext

LEMMA MemInvariance == MemSpec => []MemInv
  BY MemInitInv, MemInvStep, PTL DEF MemSpec

-----------------------------------------------------------------------------

\* Every table, every request and every open deletion has its type.
THEOREM MembershipTypes == MemSpec => []MemTypeOK
<1>1. MemInv => MemTypeOK
  BY DEF MemInv
<1> QED BY <1>1, MemInvariance, PTL

\* The owner and the members of a project that exists are accounts that exist,
\* however deletions, invitations and removals overlap.
THEOREM PeopleAlwaysExist == MemSpec => []PeopleExist
<1>1. MemInv => PeopleExist
  BY DEF MemInv
<1> QED BY <1>1, MemInvariance, PTL

\* What a claim has checked under its locks still holds when it writes.
THEOREM ClaimChecksLast == MemSpec => []ClaimChecksHold
<1>1. MemInv => ClaimChecksHold
  BY DEF MemInv
<1> QED BY <1>1, MemInvariance, PTL

\* A deletion takes with it only the projects for which it had found no heir.
THEOREM CascadeSparesProjects == MemSpec => CascadeTakesNoProject
<1> DEFINE Spared(u, p) == u \in accounts \ accounts' /\ Live(p) /\ ~Live(p)' => <<p, None>> \in heirs[u]
<1>1. ASSUME MemInv, MemNext, NEW u \in Users, NEW p \in Projects,
             u \in accounts, u \notin accounts', Live(p), ~Live(p)'
      PROVE  <<p, None>> \in heirs[u]
  <2>1. Leave(u)
    BY <1>1 DEF MemNext, ProjectRoutes, MemberRoutes, ItemRoutes, TaskRoutes, AccountDeletion,
       CreateProject, BeginDrop, DropProject, BeginAddMember, AddMember, BeginRemoveMember,
       RemoveMember, BeginAttach, CheckOwned, CheckAssignee, Attach, BeginDetach, Unlink, Detach,
       BeginPost, PostTask, BeginClaim, Claim, RemoveTask, Abandon, BeginLeave, Leave, AbortLeave,
       Start, Continue, dataVars
  <2>2. p \in Dropped(u) \cup Cascaded(u) /\ u \in leaving
    BY <1>1, <2>1, LeaveEffect DEF Live
  <2>3. CASE p \in Dropped(u)
    BY <2>3 DEF Dropped
  <2>4. CASE p \in Cascaded(u)
    <3>1. p \notin Handed(u) /\ project[p].owner = u
      BY <2>4 DEF Cascaded
    <3>2. PICK v \in Users \cup {None} : <<p, v>> \in heirs[u]
      BY <1>1, <2>2, <3>1 DEF MemInv, HeirsKnown
    <3> QED BY <1>1, <3>1, <3>2 DEF Handed
  <2> QED BY <2>2, <2>3, <2>4
<1>2. MemInv /\ [MemNext]_memVars => [\A u \in Users, p \in Projects : Spared(u, p)]_memVars
  BY <1>1
<1> QED BY <1>2, MemInvariance, PTL DEF MemSpec, CascadeTakesNoProject

\* The steps that delete a task: a removal that took its last link, the
\* deletion of the task, the deletion of its owner.
LEMMA TaskEnds ==
  ASSUME MemInv, MemNext, NEW t \in Tasks, TaskLive(t), ~TaskLive(t)'
  PROVE  \/ \E q \in Requests : Detach(q) /\ req[q].task = t
         \/ UNCHANGED req
<1>0. TablesOK /\ \A q \in Requests : Named(req[q])
  BY TypeParts DEF MemInv, RequestsNamed
<1>1. ~UNCHANGED task
  BY DEF TaskLive
<1>2. ASSUME NEW q \in Requests, NEW s \in Tasks, PostTask(q, s)
      PROVE  FALSE
  BY <1>0, <1>2 DEF PostTask, TablesOK, TaskLive
<1>3. ASSUME NEW q \in Requests, Attach(q) \/ Claim(q)
      PROVE  FALSE
  <2>1. req[q].task \in Tasks
    BY <1>0, <1>3 DEF Attach, Claim, Named
  <2> QED BY <1>0, <1>3, <2>1 DEF Attach, Claim, TablesOK, TaskLive
<1>4. ASSUME NEW q \in Requests, Detach(q)
      PROVE  req[q].task = t
  BY <1>0, <1>4 DEF Detach, TablesOK, TaskLive
<1> QED BY <1>1, <1>2, <1>3, <1>4 DEF MemNext, ProjectRoutes, MemberRoutes, ItemRoutes, TaskRoutes,
        AccountDeletion, CreateProject, BeginDrop, DropProject, BeginAddMember, AddMember,
        BeginRemoveMember, RemoveMember, BeginAttach, CheckOwned, CheckAssignee, BeginDetach, Unlink,
        BeginPost, BeginClaim, RemoveTask, Abandon, BeginLeave, Leave, AbortLeave, Start, Continue,
        dataVars

\* Taking a task out of a project deletes it only if nobody owns it and no
\* other project has it, whatever was linked or claimed since the link went.
THEOREM DetachSparesTasks == MemSpec => DetachSparesUsedTasks
<1> DEFINE Spared(r, t) ==
             req[r].pc = "unlinked" /\ req'[r].pc = "idle" /\ TaskLive(t) /\ ~TaskLive(t)'
               => task[t].user = None /\ LinkedTo(t) \subseteq {req[r].project}
<1>1. ASSUME MemInv, MemNext, NEW r \in Requests, NEW t \in Tasks,
             req[r].pc = "unlinked", req'[r].pc = "idle", TaskLive(t), ~TaskLive(t)'
      PROVE  task[t].user = None /\ LinkedTo(t) \subseteq {req[r].project}
  <2>1. PICK q \in Requests : Detach(q) /\ req[q].task = t
    BY <1>1, TaskEnds
  <2>2. q = r
    BY <1>1, <2>1, IdleRecord, OneRequest, TypeParts DEF MemInv, Detach, End
  <2>3. ~req[r].linked /\ task[t].user = None
    BY <1>1, <2>1, <2>2 DEF Detach, TaskLive
  <2> QED BY <1>1, <2>1, <2>2, <2>3 DEF MemInv, RemovalRemembers
<1>2. MemInv /\ [MemNext]_memVars => [\A r \in Requests, t \in Tasks : Spared(r, t)]_memVars
  BY <1>1
<1> QED BY <1>2, MemInvariance, PTL DEF MemSpec, DetachSparesUsedTasks

=============================================================================
