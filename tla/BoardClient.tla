----------------------------- MODULE BoardClient ----------------------------
(***************************************************************************)
(* TodosPage: the task lists of useTasks, the project list, the board, the *)
(* claims, and the dialogs that add and delete.  React runs one handler at *)
(* a time; between two of them any answer may arrive and any gesture       *)
(* happen that the page offers.                                            *)
(***************************************************************************)
EXTENDS BoardServer

(***************************************************************************)
(* The page is one record, thrown away when it unmounts:                   *)
(*   loads      useTasks: the load that is not aborted, as far as answered *)
(*   shown      the two task lists, each with the version it was read at   *)
(*   error      an error is shown in place of the board                    *)
(*   override   taskStatuses                                               *)
(*   calls      requests that change something, in flight                  *)
(*   projects, lists, listing, listError   the projects and their loads    *)
(*   form       AddItem                                                    *)
(* and three histories: stale, the last load failed; own, the version of   *)
(* the last answer after which the lists are read again; crossed, cards    *)
(* whose status calls overlapped, failed or met another user's.            *)
(***************************************************************************)
VARIABLE page

Calls == 1..2                       \* bound: changes, and project lists, in flight

Waiting == [at |-> 0, of |-> {}, in |-> FALSE]
Snapshot(tasks) == [at |-> version, of |-> tasks, in |-> TRUE]
FreshLoad == [board |-> Waiting, loose |-> Waiting]
NoCall == [kind |-> "none", phase |-> "none", task |-> Nobody, project |-> Nobody,
           person |-> Nobody, status |-> "todo", at |-> 0, found |-> {}]
NoProjects == [p \in Projects |-> {}]
NoList == [state |-> "none", of |-> NoProjects]
ClosedForm == [open |-> FALSE, loaded |-> FALSE, of |-> NoProjects,
               project |-> Nobody, assignee |-> Nobody]

NoPage ==
  [loads |-> {}, shown |-> FreshLoad, error |-> FALSE,
   override |-> [t \in Tasks |-> Nobody], calls |-> [c \in Calls |-> NoCall],
   projects |-> NoProjects, lists |-> [i \in Calls |-> NoList],
   listing |-> FALSE, listError |-> FALSE, form |-> ClosedForm,
   stale |-> FALSE, own |-> 0, crossed |-> {}]

\* The effects of the first render: both loads start.
NewPage == [NoPage EXCEPT !.loads = {FreshLoad}, !.lists[1].state = "asked", !.listing = TRUE]

BoardTypeOK ==
  /\ ServerTypeOK
  /\ Cardinality(page.loads) <= 1
  /\ page.shown.board.of \cup page.shown.loose.of \subseteq Tasks
  /\ {page.shown.board.at, page.shown.loose.at, page.own} \subseteq 0..version
  /\ page.override \in [Tasks -> Statuses \cup {Nobody}]
  /\ {page.projects, page.form.of} \subseteq [Projects -> SUBSET People]
  /\ \A c \in Calls : page.calls[c].phase \in {"none", "asked", "done", "refused"}

\* One project with both users, and one task: unassigned, or on the board.
BoardInit ==
  /\ page = NoPage
  /\ version = 0
  /\ LET p == CHOOSE x \in Projects : TRUE
         t == CHOOSE x \in Tasks : TRUE
         task == [Unborn EXCEPT !.life = "live"]
     IN /\ members = [NoProjects EXCEPT ![p] = People]
        /\ item \in {[[x \in Tasks |-> Unborn] EXCEPT ![t] = task],
                     [[x \in Tasks |-> Unborn] EXCEPT ![t] =
                        [task EXCEPT !.owner = You, !.project = p]]}

Loading == page.loads # {}
Running(kind) == \E c \in Calls : page.calls[c].kind = kind

BoardWaits ==
  \/ \E l \in page.loads : ~(l.board.in /\ l.loose.in)
  \/ \E i \in Calls : page.lists[i].state = "asked" \/ page.calls[i].phase = "asked"
  \/ page.form.open /\ ~page.form.loaded

Local == UNCHANGED <<sessionVars, serverVars>>
Gesture == auth = "in" /\ route = "todos" /\ Act /\ Idle /\ UNCHANGED serverVars
Failure == Fault /\ Idle /\ UNCHANGED serverVars

-----------------------------------------------------------------------------
(* useTasks: the two lists the page shows are fetched together.            *)

\* Mutant: a load that is under way is taken for the one asked for.
RestartedIfIdle(ls) == IF ls = {} THEN {FreshLoad} ELSE ls

\* The effect on revision: the load before is aborted, another one starts.
Restarted(ls) == {FreshLoad}

Invalidated == [page EXCEPT !.loads = Restarted(@)]
Refreshed == [Invalidated EXCEPT !.error = FALSE]

getForUser(l) ==
  /\ session /\ ~l.board.in
  /\ page' = [page EXCEPT !.loads = (@ \ {l}) \cup {[l EXCEPT !.board = Snapshot(listForUser)]}]
  /\ Local

getUnassigned(l) ==
  /\ session /\ ~l.loose.in
  /\ page' = [page EXCEPT !.loads = (@ \ {l}) \cup {[l EXCEPT !.loose = Snapshot(listUnassigned)]}]
  /\ Local

Loaded(l) ==
  /\ l.board.in /\ l.loose.in
  /\ page' = [page EXCEPT !.loads = @ \ {l}, !.shown = l, !.stale = FALSE]
  /\ Local

LoadFails(l) ==
  /\ Failure
  /\ page' = [page EXCEPT !.loads = @ \ {l}, !.error = TRUE, !.stale = TRUE]

retryTasks ==
  /\ Gesture /\ page.error /\ ~Loading
  /\ page' = Refreshed

-----------------------------------------------------------------------------
(* loadProjects: nothing is aborted, lists may overtake each other.        *)

Listing(pg, i) == [pg EXCEPT !.lists[i].state = "asked", !.listing = TRUE, !.listError = FALSE]

listProjects(i) ==
  /\ session /\ page.lists[i].state = "asked"
  /\ page' = [page EXCEPT !.lists[i] = [state |-> "read", of |-> members]]
  /\ Local

setProjects(i) ==
  /\ page.lists[i].state = "read"
  /\ page' = [page EXCEPT !.projects = page.lists[i].of, !.lists[i] = NoList, !.listing = FALSE]
  /\ Local

ListFails(i) ==
  /\ Failure /\ page.lists[i].state # "none"
  /\ page' = [page EXCEPT !.lists[i] = NoList, !.listing = FALSE, !.listError = TRUE]

retryProjects(i) ==
  /\ Gesture /\ page.listError /\ ~page.listing /\ page.lists[i].state = "none"
  /\ page' = Listing(page, i)

-----------------------------------------------------------------------------
(* Gestures that send a request, with what disables them.                  *)

Sent(pg, c, call) == [pg EXCEPT !.calls[c] = call]
Free(c) == page.calls[c].kind = "none"
OnBoard(t) == ~Loading /\ ~page.error /\ t \in page.shown.board.of
InTable(p) == ~page.listing /\ ~page.listError /\ page.projects[p] # {}

\* Mutant: the card moves before the server has agreed.
moveTaskFirst(c, t, s) ==
  /\ Gesture /\ Free(c) /\ OnBoard(t)
  /\ page' = Sent([page EXCEPT
       !.override[t] = s,
       !.crossed = IF \E d \in Calls : page.calls[d].kind = "move" /\ page.calls[d].task = t
                   THEN @ \cup {t} ELSE @], c,
       [NoCall EXCEPT !.kind = "move", !.phase = "asked", !.task = t, !.status = s])

\* Dropped on a column, or chosen in the select of the card.
moveTask(c, t, s) ==
  /\ Gesture /\ Free(c) /\ OnBoard(t)
  /\ page' = Sent([page EXCEPT
       !.crossed = IF \E d \in Calls : page.calls[d].kind = "move" /\ page.calls[d].task = t
                   THEN @ \cup {t} ELSE @], c,
       [NoCall EXCEPT !.kind = "move", !.phase = "asked", !.task = t, !.status = s])

handleDeleteItem(c, t) ==
  /\ Gesture /\ Free(c) /\ OnBoard(t)
  /\ page' = Sent(page, c, [NoCall EXCEPT !.kind = "remove", !.phase = "asked", !.task = t])

onClaim(c, t, p, u) ==
  /\ Gesture /\ Free(c)
  /\ ~Loading /\ ~Running("claim") /\ ~page.listing
  /\ t \in page.shown.loose.of /\ u \in page.projects[p]
  /\ page' = Sent([page EXCEPT !.error = FALSE], c,
       [NoCall EXCEPT !.kind = "claim", !.phase = "asked", !.task = t, !.project = p, !.person = u])

addProject(c) ==
  /\ Gesture /\ Free(c) /\ ~Running("createProject")
  /\ page' = Sent(page, c, [NoCall EXCEPT !.kind = "createProject", !.phase = "asked"])

handleAddMember(c, p) ==
  /\ Gesture /\ Free(c) /\ InTable(p) /\ ~Running("addMember")
  /\ page' = Sent(page, c, [NoCall EXCEPT !.kind = "addMember", !.phase = "asked", !.project = p])

handleDeleteProject(c, p) ==
  /\ Gesture /\ Free(c) /\ InTable(p) /\ ~Running("removeProject")
  /\ page' = Sent(page, c, [NoCall EXCEPT !.kind = "removeProject", !.phase = "asked", !.project = p])

-----------------------------------------------------------------------------
(* AddItem: its own list of projects, a project and one of its members.    *)

Busy == Running("create") \/ Running("attach")

\* Members are listed in the order of their addresses.
First(us) == CHOOSE u \in us : TRUE

openForm ==
  /\ Gesture /\ ~page.form.open
  /\ page' = [page EXCEPT !.form = [ClosedForm EXCEPT !.open = TRUE]]

formLoaded ==
  /\ session /\ page.form.open /\ ~page.form.loaded
  /\ IF members = NoProjects
       THEN page' = [page EXCEPT !.form.loaded = TRUE]
       ELSE \E p \in Projects :
              /\ members[p] # {}
              /\ page' = [page EXCEPT !.form = [open |-> TRUE, loaded |-> TRUE, of |-> members,
                                                project |-> p, assignee |-> First(members[p])]]
  /\ Local

formLoadFails ==
  /\ Failure /\ page.form.open /\ ~page.form.loaded
  /\ page' = [page EXCEPT !.form.loaded = TRUE]

\* Mutant: the assignee stays when the project changes.
chooseProjectOnly(p) ==
  /\ page.form.of[p] # {} /\ ~Busy
  /\ page' = [page EXCEPT !.form.project = p]
  /\ Local

\* The effect replaces an assignee who is not a member of the project.
chooseProject(p) ==
  /\ page.form.of[p] # {} /\ ~Busy
  /\ page' = [page EXCEPT !.form.project = p, !.form.assignee =
                 IF @ \in page.form.of[p] THEN @ ELSE First(page.form.of[p])]
  /\ Local

chooseAssignee(u) ==
  /\ page.form.project # Nobody /\ ~Busy
  /\ u \in page.form.of[page.form.project]
  /\ page' = [page EXCEPT !.form.assignee = u]
  /\ Local

handleCancel ==
  /\ page.form.open /\ ~Busy
  /\ page' = [page EXCEPT !.form = ClosedForm]
  /\ Local

handleSubmit(c) ==
  /\ Gesture /\ Free(c) /\ ~Busy
  /\ page.form.project # Nobody /\ page.form.assignee # Nobody
  /\ page' = Sent(page, c, [NoCall EXCEPT !.kind = "create", !.phase = "asked",
                              !.project = page.form.project, !.person = page.form.assignee])

-----------------------------------------------------------------------------
(* The server handles a request.                                           *)

Handled(c, phase) ==
  /\ session /\ UNCHANGED sessionVars
  /\ page' = [page EXCEPT !.calls[c].phase = phase, !.calls[c].at = version']

Asked(c, kind) == page.calls[c].kind = kind /\ page.calls[c].phase = "asked"

Accept(c) ==
  LET k == page.calls[c] IN
  /\ \/ Asked(c, "move") /\ MayUse(k.task, Me) /\ updateStatus(k.task, k.status)
     \/ Asked(c, "remove") /\ MayUse(k.task, Me) /\ removeTask(k.task)
     \/ Asked(c, "claim") /\ Claimable(k.task, Me, k.project, k.person)
                          /\ assign(k.task, k.project, k.person)
     \/ Asked(c, "attach") /\ Attachable(k.task, k.project, k.person)
                           /\ assign(k.task, k.project, k.person)
     \/ Asked(c, "createProject") /\ \E p \in Projects : members[p] = {} /\ setMembers(p, {Me})
     \/ Asked(c, "removeProject") /\ members[k.project] # {} /\ removeProject(k.project)
  /\ Handled(c, "done")

\* The answer names the task, or lists the members.
AcceptTask(c) ==
  /\ Asked(c, "create") /\ session /\ UNCHANGED sessionVars
  /\ \E t \in Tasks :
       /\ item[t].life = "unborn" /\ createTask(t)
       /\ page' = [page EXCEPT !.calls[c].phase = "done", !.calls[c].task = t]

AcceptMember(c) ==
  /\ Asked(c, "addMember") /\ session /\ UNCHANGED sessionVars
  /\ members[page.calls[c].project] = {Me} /\ setMembers(page.calls[c].project, People)
  /\ page' = [page EXCEPT !.calls[c].phase = "done", !.calls[c].found = People]

Refuse(c) ==
  LET k == page.calls[c] IN
  /\ UNCHANGED serverVars
  /\ \/ (Asked(c, "move") \/ Asked(c, "remove")) /\ ~MayUse(k.task, Me)
     \/ Asked(c, "claim") /\ ~Claimable(k.task, Me, k.project, k.person)
     \/ Asked(c, "attach") /\ ~Attachable(k.task, k.project, k.person)
     \/ Asked(c, "addMember") /\ members[k.project] # {Me}
     \/ Asked(c, "removeProject") /\ members[k.project] = {}
  /\ Handled(c, "refused")

-----------------------------------------------------------------------------
(* The page goes on with the answer.                                       *)

Answered(c, kind, phase) == page.calls[c].kind = kind /\ page.calls[c].phase = phase /\ Local
Ended(pg, c) == [pg EXCEPT !.calls[c] = NoCall]

\* The lists are read again after this answer.
ReadAgain(pg, c) == [pg EXCEPT !.own = IF page.calls[c].at > @ THEN page.calls[c].at ELSE @]

moveAnswered(c) ==
  /\ Answered(c, "move", "done")
  /\ page' = Ended([page EXCEPT !.override[page.calls[c].task] = page.calls[c].status], c)

\* A task that is deleted, claimed or attached.
changeAnswered(c) ==
  /\ \/ Answered(c, "remove", "done") \/ Answered(c, "claim", "done")
  /\ page' = Ended(ReadAgain(Refreshed, c), c)

attachAnswered(c) ==
  /\ Answered(c, "attach", "done")
  /\ page' = Ended([ReadAgain(Refreshed, c) EXCEPT !.form = ClosedForm], c)

\* 409: another user may have won the claim.
claimRefused(c) ==
  /\ Answered(c, "claim", "refused")
  /\ page' = Ended([ReadAgain(Invalidated, c) EXCEPT !.error = TRUE], c)

otherRefused(c) ==
  /\ \E kind \in {"move", "remove", "attach", "addMember", "removeProject"} :
       Answered(c, kind, "refused")
  /\ page' = Ended(page, c)

createAnswered(c) ==
  /\ Answered(c, "create", "done")
  /\ page' = [page EXCEPT !.calls[c].kind = "attach", !.calls[c].phase = "asked"]

handleProjectCreated(c, i) ==
  /\ Answered(c, "createProject", "done") /\ page.lists[i].state = "none"
  /\ page' = Ended(Listing(page, i), c)

memberAdded(c) ==
  /\ Answered(c, "addMember", "done")
  /\ page' = Ended([page EXCEPT !.projects[page.calls[c].project] =
                      IF @ = {} THEN @ ELSE page.calls[c].found], c)

projectRemoved(c) ==
  /\ Answered(c, "removeProject", "done")
  /\ page' = Ended([ReadAgain(Refreshed, c) EXCEPT !.projects[page.calls[c].project] = {}], c)

\* The request or its answer is lost.
CallFails(c) ==
  /\ ~Free(c) /\ Failure
  /\ page' = Ended([page EXCEPT
       !.error = @ \/ page.calls[c].kind = "claim",
       !.crossed = IF page.calls[c].kind = "move" THEN @ \cup {page.calls[c].task} ELSE @], c)

-----------------------------------------------------------------------------

\* The other user's requests while the page is open; a move of theirs may meet one of the user's.
Others ==
  /\ auth = "in" /\ route = "todos" /\ Fault /\ Idle
  /\ \/ OthersChange /\ UNCHANGED page
     \/ \E t \in Tasks, s \in Statuses :
          /\ MayUse(t, You) /\ updateStatus(t, s)
          /\ page' = [page EXCEPT !.crossed = @ \cup {t}]

BoardStep ==
  \/ \E l \in page.loads : getForUser(l) \/ getUnassigned(l) \/ Loaded(l) \/ LoadFails(l)
  \/ \E i \in Calls : listProjects(i) \/ setProjects(i) \/ ListFails(i) \/ retryProjects(i)
  \/ retryTasks \/ openForm \/ formLoaded \/ formLoadFails \/ handleCancel
  \/ \E p \in Projects : chooseProject(p)
  \/ \E u \in People : chooseAssignee(u)
  \/ \E c \in Calls :
       \/ Accept(c) \/ AcceptTask(c) \/ AcceptMember(c) \/ Refuse(c) \/ CallFails(c)
       \/ moveAnswered(c) \/ changeAnswered(c) \/ attachAnswered(c) \/ claimRefused(c)
       \/ otherRefused(c) \/ createAnswered(c) \/ memberAdded(c) \/ projectRemoved(c)
       \/ addProject(c) \/ handleSubmit(c)
       \/ \E i \in Calls : handleProjectCreated(c, i)
       \/ \E p \in Projects : handleAddMember(c, p) \/ handleDeleteProject(c, p)
       \/ \E t \in Tasks :
            \/ handleDeleteItem(c, t) \/ \E s \in Statuses : moveTask(c, t, s)
            \/ \E p \in Projects, u \in People : onClaim(c, t, p, u)
  \/ Others

-----------------------------------------------------------------------------
(* Properties                                                              *)

\* Once the page is at rest, its lists are from after the last answer that made it
\* read them again: to an accepted change other than a status move, or to a claim
\* in any case.  No load that was under way then, or that is answered late, is
\* what stays on the screen.  A move is OverrideAgrees' matter; a change whose
\* answer is lost is owed nothing.
ReadYourWrites ==
  ~Loading /\ ~page.stale =>
    page.own <= page.shown.board.at /\ page.own <= page.shown.loose.at

\* The status a card was moved to, which no load replaces, is the one the server
\* has.  That is promised of cards with one status call at a time: once two of
\* them, a failed one or another user's change crossed, the card is excepted until
\* the page is left.
OverrideAgrees ==
  \A t \in Tasks \ page.crossed :
    page.override[t] # Nobody /\ (\A c \in Calls : page.calls[c].task # t)
      => page.override[t] = item[t].status

\* The task that is being added goes to a member of the chosen project, as the
\* form knows them, whichever was chosen first and however the list came.
AssigneeBelongs ==
  page.form.assignee # Nobody =>
    /\ page.form.project # Nobody
    /\ page.form.assignee \in page.form.of[page.form.project]

=============================================================================
