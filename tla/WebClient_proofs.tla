-------------------------- MODULE WebClient_proofs --------------------------
(***************************************************************************)
(* The page of the browser, for any tasks, projects and statuses, and any  *)
(* number of gestures and failures.                                        *)
(*                                                                         *)
(* The page is one record, and its three promises are about different      *)
(* fields of it: each part of ClientInv takes the record as a parameter,   *)
(* so that a handler which leaves those fields alone keeps that part.      *)
(***************************************************************************)
EXTENDS WebClient, FiniteSetTheorems, TLAPS

MemberLists == [Projects -> SUBSET People]
Snapshots == [at : Nat, of : SUBSET Tasks, in : BOOLEAN]
Loads == [board : Snapshots, loose : Snapshots]
Kinds == {"none", "move", "remove", "claim", "create", "attach",
          "createProject", "addMember", "removeProject"}
CallStates == [kind : Kinds, phase : {"none", "asked", "done", "refused"},
               task : Tasks \cup {Nobody}, project : Projects \cup {Nobody},
               person : People \cup {Nobody}, status : Statuses,
               at : Nat, found : SUBSET People]
ListStates == [state : {"none", "asked", "read"}, of : MemberLists]
Forms == [open : BOOLEAN, loaded : BOOLEAN, of : MemberLists,
          project : Projects \cup {Nobody}, assignee : People \cup {Nobody}]
Pages == [loads : SUBSET Loads, shown : Loads, error : BOOLEAN,
          override : [Tasks -> Statuses \cup {Nobody}], calls : [Calls -> CallStates],
          projects : MemberLists, lists : [Calls -> ListStates],
          listing : BOOLEAN, listError : BOOLEAN, form : Forms,
          stale : BOOLEAN, own : Nat, crossed : SUBSET Tasks]

\* One load at most is not aborted, and what it has read is from after the last
\* change that made the page load; so is what is shown once none is under way.
ReadAfter(own, l) ==
  /\ l.board.in => own <= l.board.at
  /\ l.loose.in => own <= l.loose.at
LoadsFresh(pg) ==
  /\ pg.loads = {} \/ \E l \in pg.loads : pg.loads = {l}
  /\ \A l \in pg.loads : ReadAfter(pg.own, l)
  /\ pg.loads = {} /\ ~pg.stale => pg.own <= pg.shown.board.at /\ pg.own <= pg.shown.loose.at

\* No list and no answer is from the future.
ReadBefore(v, l) == l.board.at <= v /\ l.loose.at <= v
AnswersPast(pg, v) ==
  /\ \A l \in pg.loads : ReadBefore(v, l)
  /\ ReadBefore(v, pg.shown)
  /\ pg.own <= v
  /\ \A c \in Calls : pg.calls[c].at <= v

Moves(pg, c, t) == pg.calls[c].kind = "move" /\ pg.calls[c].task = t
Moved(pg, c, t) == Moves(pg, c, t) /\ pg.calls[c].phase = "done"

\* A card whose calls did not cross has one status call at most; the status it
\* shows, or that an answer under way will show, is the server's.
CardsAgree(pg, it) ==
  /\ \A c \in Calls, t \in Tasks : Moved(pg, c, t) => it[t].life # "unborn"
  /\ \A t \in Tasks : pg.override[t] # Nobody => it[t].life # "unborn"
  /\ \A t \in Tasks \ pg.crossed :
       /\ \A c, d \in Calls : Moves(pg, c, t) /\ Moves(pg, d, t) => c = d
       /\ \A c \in Calls : Moved(pg, c, t) => pg.calls[c].status = it[t].status
       /\ pg.override[t] # Nobody /\ (\A c \in Calls : ~Moved(pg, c, t))
            => pg.override[t] = it[t].status

\* AssigneeBelongs, of a form.
FormOK(form) ==
  form.assignee # Nobody => form.project # Nobody /\ form.assignee \in form.of[form.project]

\* A request names what it is about.
Named(k) ==
  /\ \/ k.kind \in {"move", "remove", "claim", "attach"}
     \/ k.kind = "create" /\ k.phase = "done"
     => k.task \in Tasks
  /\ k.kind \in {"claim", "create", "attach"} => k.project \in Projects /\ k.person \in People
  /\ k.kind \in {"addMember", "removeProject"} => k.project \in Projects
CallsNamed(pg) == \A c \in Calls : Named(pg.calls[c])

BoardInv ==
  /\ ServerTypeOK
  /\ page \in Pages
  /\ LoadsFresh(page)
  /\ AnswersPast(page, version)
  /\ CallsNamed(page)
  /\ CardsAgree(page, item)
  /\ FormOK(page.form)

\* A poll saw no notification that has not arrived.
BellInv == BellTypeOK /\ \A p \in Polls : polls[p].newest <= notes

ClientInv == SessionTypeOK /\ BellInv /\ BoardInv

-----------------------------------------------------------------------------
(* What a handler leaves alone.                                             *)

SameLoads(pg, qg) == qg.loads = pg.loads /\ qg.shown = pg.shown /\ qg.stale = pg.stale /\ qg.own = pg.own
SameCards(pg, qg) == qg.override = pg.override /\ qg.crossed = pg.crossed
SameCalls(pg, qg) == qg.calls = pg.calls
SameForm(pg, qg) == qg.form = pg.form

\* No task is born again, and only the cards in "but" change their status.
ItemsKept(it, jt, but) ==
  \A t \in Tasks : it[t].life # "unborn" =>
    jt[t].life # "unborn" /\ (t \notin but => jt[t].status = it[t].status)

\* A new status call is for a card that crosses or has no other; none is done.
MovesKept(pg, qg) ==
  /\ \A c \in Calls, t \in Tasks :
       Moved(qg, c, t) => Moved(pg, c, t) /\ qg.calls[c].status = pg.calls[c].status
  /\ \A t \in Tasks \ qg.crossed :
       /\ \A c \in Calls : Moved(pg, c, t) => Moved(qg, c, t)
       /\ \A c, d \in Calls : Moves(qg, c, t) /\ Moves(qg, d, t)
                              => c = d \/ (Moves(pg, c, t) /\ Moves(pg, d, t))

LEMMA LoadsKept ==
  ASSUME NEW pg, NEW qg, SameLoads(pg, qg), LoadsFresh(pg)
  PROVE  LoadsFresh(qg)
  BY DEF SameLoads, LoadsFresh

LEMMA CardsKept ==
  ASSUME NEW pg \in Pages, NEW qg \in Pages, NEW it, NEW jt,
         CardsAgree(pg, it), qg.override = pg.override, pg.crossed \subseteq qg.crossed,
         MovesKept(pg, qg), ItemsKept(it, jt, qg.crossed)
  PROVE  CardsAgree(qg, jt)
<1>1. \A c \in Calls, t \in Tasks : Moved(qg, c, t) => jt[t].life # "unborn"
  BY DEF MovesKept, CardsAgree, ItemsKept
<1>2. \A t \in Tasks : qg.override[t] # Nobody => jt[t].life # "unborn"
  BY DEF CardsAgree, ItemsKept
<1>3. ASSUME NEW t \in Tasks \ qg.crossed
      PROVE  /\ \A c, d \in Calls : Moves(qg, c, t) /\ Moves(qg, d, t) => c = d
             /\ \A c \in Calls : Moved(qg, c, t) => qg.calls[c].status = jt[t].status
             /\ qg.override[t] # Nobody /\ (\A c \in Calls : ~Moved(qg, c, t))
                  => qg.override[t] = jt[t].status
  <2>1. t \in Tasks \ pg.crossed
    OBVIOUS
  <2>2. \A c, d \in Calls : Moves(qg, c, t) /\ Moves(qg, d, t) => c = d
    BY <2>1 DEF CardsAgree, MovesKept
  <2>3. \A c \in Calls : Moved(qg, c, t) => qg.calls[c].status = jt[t].status
    BY <2>1 DEF CardsAgree, MovesKept, ItemsKept
  <2>4. qg.override[t] # Nobody /\ (\A c \in Calls : ~Moved(qg, c, t)) => qg.override[t] = jt[t].status
    BY <2>1 DEF CardsAgree, MovesKept, ItemsKept
  <2> QED BY <2>2, <2>3, <2>4
<1> QED BY <1>1, <1>2, <1>3 DEF CardsAgree

LEMMA ItemsSame == \A it, but : ItemsKept(it, it, but)
  BY DEF ItemsKept

LEMMA CallsSame ==
  ASSUME NEW pg, NEW qg, SameCalls(pg, qg)
  PROVE  MovesKept(pg, qg) /\ (CallsNamed(pg) => CallsNamed(qg))
  BY DEF SameCalls, MovesKept, Moved, Moves, CallsNamed

\* A handler that leaves the calls, the cards and the form alone.
LEMMA LoadsMove ==
  ASSUME BoardInv, UNCHANGED serverVars, page' \in Pages,
         SameCalls(page, page'), SameCards(page, page'), SameForm(page, page'),
         LoadsFresh(page'), AnswersPast(page', version)
  PROVE  BoardInv'
<1>1. UNCHANGED <<item, members, version>>
  BY DEF serverVars
<1>2. CardsAgree(page', item') /\ CallsNamed(page')
  BY <1>1, CardsKept, ItemsSame, CallsSame DEF BoardInv, SameCards
<1>3. ServerTypeOK' /\ AnswersPast(page', version') /\ FormOK(page'.form)
  BY <1>1 DEF BoardInv, ServerTypeOK, SameForm
<1> QED BY <1>2, <1>3 DEF BoardInv

\* A handler that touches nothing but the form, the projects and their lists.
LEMMA FormMoves ==
  ASSUME BoardInv, UNCHANGED serverVars, page' \in Pages,
         SameCalls(page, page'), SameCards(page, page'), SameLoads(page, page'), FormOK(page'.form)
  PROVE  BoardInv'
<1>1. UNCHANGED <<item, members, version>>
  BY DEF serverVars
<1>2. CardsAgree(page', item') /\ CallsNamed(page')
  BY <1>1, CardsKept, ItemsSame, CallsSame DEF BoardInv, SameCards
<1>3. ServerTypeOK' /\ LoadsFresh(page') /\ AnswersPast(page', version')
  BY <1>1, LoadsKept DEF BoardInv, ServerTypeOK, SameLoads, SameCalls, AnswersPast
<1> QED BY <1>2, <1>3 DEF BoardInv

-----------------------------------------------------------------------------
(* useTasks.                                                                *)

LEMMA FreshLoadType == FreshLoad \in Loads /\ ~FreshLoad.board.in /\ ~FreshLoad.loose.in
                       /\ FreshLoad.board.at = 0 /\ FreshLoad.loose.at = 0
  BY DEF FreshLoad, Waiting, Loads, Snapshots

LEMMA SnapshotType ==
  ASSUME BoardInv, NEW tasks \in SUBSET Tasks
  PROVE  Snapshot(tasks) \in Snapshots /\ Snapshot(tasks).at = version
  BY DEF Snapshot, Snapshots, BoardInv, ServerTypeOK

\* A load whose first or second list has come.
LEMMA HalfLoaded ==
  ASSUME BoardInv, UNCHANGED serverVars, NEW l \in page.loads, NEW q \in Loads,
         page' = [page EXCEPT !.loads = (@ \ {l}) \cup {q}],
         ReadAfter(page.own, q), ReadBefore(version, q)
  PROVE  BoardInv'
<1>0. page \in Pages /\ page.loads = {l}
  BY DEF BoardInv, LoadsFresh
<1>1. /\ page' \in Pages /\ page'.loads = (page.loads \ {l}) \cup {q} /\ page'.own = page.own
      /\ page'.shown = page.shown
      /\ SameCalls(page, page') /\ SameCards(page, page') /\ SameForm(page, page')
  BY <1>0 DEF Pages, SameCalls, SameCards, SameForm
<1>2. page'.loads = {q}
  BY <1>0, <1>1
<1>3. LoadsFresh(page')
  BY <1>1, <1>2 DEF LoadsFresh
<1>4. AnswersPast(page', version)
  BY <1>1, <1>2 DEF AnswersPast, BoardInv, SameCalls
<1> QED BY <1>1, <1>3, <1>4, LoadsMove

LEMMA GetsKeep ==
  ASSUME BoardInv, NEW l \in page.loads, getForUser(l) \/ getUnassigned(l)
  PROVE  BoardInv'
<1>0. /\ page \in Pages /\ l \in Loads /\ version \in Nat /\ page.own \in Nat
      /\ page.own <= version /\ ReadAfter(page.own, l) /\ ReadBefore(version, l)
  BY DEF BoardInv, Pages, ServerTypeOK, LoadsFresh, AnswersPast
<1>1. listForUser \subseteq Tasks /\ listUnassigned \subseteq Tasks
  BY DEF listForUser, listUnassigned
<1>2. UNCHANGED serverVars
  BY DEF getForUser, getUnassigned, Local
<1>3. \A v \in Nat : v <= v
  OBVIOUS
<1>4. CASE getForUser(l)
  <2> DEFINE sn == Snapshot(listForUser)
             q == [l EXCEPT !.board = sn]
  <2>1. sn \in Snapshots /\ sn.at = version
    BY <1>1, SnapshotType
  <2>2. page' = [page EXCEPT !.loads = (@ \ {l}) \cup {q}]
    BY <1>4 DEF getForUser
  <2> HIDE DEF sn
  <2>3. q \in Loads /\ q.board = sn /\ q.loose = l.loose
    BY <1>0, <2>1 DEF Loads
  <2> HIDE DEF q
  <2>4. ReadAfter(page.own, q) /\ ReadBefore(version, q)
    BY <1>0, <1>3, <2>1, <2>3 DEF ReadAfter, ReadBefore
  <2> QED BY <1>2, <2>2, <2>3, <2>4, HalfLoaded
<1>5. CASE getUnassigned(l)
  <2> DEFINE sn == Snapshot(listUnassigned)
             q == [l EXCEPT !.loose = sn]
  <2>1. sn \in Snapshots /\ sn.at = version
    BY <1>1, SnapshotType
  <2>2. page' = [page EXCEPT !.loads = (@ \ {l}) \cup {q}]
    BY <1>5 DEF getUnassigned
  <2> HIDE DEF sn
  <2>3. q \in Loads /\ q.loose = sn /\ q.board = l.board
    BY <1>0, <2>1 DEF Loads
  <2> HIDE DEF q
  <2>4. ReadAfter(page.own, q) /\ ReadBefore(version, q)
    BY <1>0, <1>3, <2>1, <2>3 DEF ReadAfter, ReadBefore
  <2> QED BY <1>2, <2>2, <2>3, <2>4, HalfLoaded
<1> QED BY <1>4, <1>5

LEMMA LoadedKeeps ==
  ASSUME BoardInv, NEW l \in page.loads, Loaded(l)
  PROVE  BoardInv'
<1>0. page \in Pages /\ l \in Loads /\ page.loads = {l} /\ l.board.in /\ l.loose.in
  BY DEF BoardInv, LoadsFresh, Pages, Loaded
<1>1. /\ page' \in Pages /\ page'.loads = page.loads \ {l} /\ page'.own = page.own
      /\ page'.shown = l
      /\ SameCalls(page, page') /\ SameCards(page, page') /\ SameForm(page, page')
  BY <1>0 DEF Loaded, Pages, SameCalls, SameCards, SameForm
<1>2. page'.loads = {}
  BY <1>0, <1>1
<1>3. LoadsFresh(page')
  BY <1>0, <1>1, <1>2 DEF LoadsFresh, ReadAfter, BoardInv
<1>4. AnswersPast(page', version)
  BY <1>1, <1>2 DEF AnswersPast, BoardInv, SameCalls
<1>5. UNCHANGED serverVars
  BY DEF Loaded, Local
<1> QED BY <1>1, <1>3, <1>4, <1>5, LoadsMove

LEMMA LoadFailsKeeps ==
  ASSUME BoardInv, NEW l \in page.loads, LoadFails(l)
  PROVE  BoardInv'
<1>0. page \in Pages /\ page.loads = {l}
  BY DEF BoardInv, LoadsFresh
<1>1. /\ page' \in Pages /\ page'.loads = page.loads \ {l} /\ page'.own = page.own
      /\ page'.shown = page.shown /\ page'.stale
      /\ SameCalls(page, page') /\ SameCards(page, page') /\ SameForm(page, page')
  BY <1>0 DEF LoadFails, Pages, SameCalls, SameCards, SameForm
<1>2. page'.loads = {}
  BY <1>0, <1>1
<1>3. LoadsFresh(page') /\ AnswersPast(page', version)
  BY <1>1, <1>2 DEF LoadsFresh, AnswersPast, BoardInv, SameCalls
<1>5. UNCHANGED serverVars
  BY DEF LoadFails, Failure
<1> QED BY <1>1, <1>3, <1>5, LoadsMove

\* A load that has read nothing starts.
LEMMA RefreshedPage ==
  ASSUME BoardInv
  PROVE  /\ Refreshed \in Pages /\ Invalidated \in Pages
         /\ \A pg \in {Refreshed, Invalidated} :
              /\ pg.loads = {FreshLoad} /\ pg.shown = page.shown /\ pg.own = page.own
              /\ SameCalls(page, pg) /\ SameCards(page, pg) /\ SameForm(page, pg)
<1>0. page \in Pages
  BY DEF BoardInv
<1>1. /\ Invalidated \in Pages
      /\ Invalidated.loads = {FreshLoad} /\ Invalidated.shown = page.shown /\ Invalidated.own = page.own
      /\ SameCalls(page, Invalidated) /\ SameCards(page, Invalidated) /\ SameForm(page, Invalidated)
  BY <1>0, FreshLoadType DEF Pages, Invalidated, Restarted, SameCalls, SameCards, SameForm
<1>2. /\ Refreshed \in Pages
      /\ Refreshed.loads = Invalidated.loads /\ Refreshed.shown = Invalidated.shown
      /\ Refreshed.own = Invalidated.own /\ Refreshed.calls = Invalidated.calls
      /\ Refreshed.override = Invalidated.override /\ Refreshed.crossed = Invalidated.crossed
      /\ Refreshed.form = Invalidated.form
  BY <1>1 DEF Pages, Refreshed
<1> QED BY <1>1, <1>2 DEF SameCalls, SameCards, SameForm

LEMMA FreshIsFresh ==
  ASSUME NEW pg, NEW v \in Nat, pg.loads = {FreshLoad}
  PROVE  LoadsFresh(pg) /\ \A l \in pg.loads : ReadBefore(v, l)
<1>1. \A n \in Nat : 0 <= n
  OBVIOUS
<1> QED BY <1>1, FreshLoadType DEF LoadsFresh, ReadAfter, ReadBefore

LEMMA RetryTasksKeeps ==
  ASSUME BoardInv, retryTasks
  PROVE  BoardInv'
<1>1. page' = Refreshed /\ UNCHANGED serverVars
  BY DEF retryTasks, Gesture
<1>2. LoadsFresh(page') /\ \A l \in page'.loads : ReadBefore(version, l)
  BY <1>1, RefreshedPage, FreshIsFresh DEF BoardInv, ServerTypeOK
<1>3. AnswersPast(page', version)
  BY <1>1, <1>2, RefreshedPage DEF AnswersPast, BoardInv, SameCalls
<1> QED BY <1>1, <1>2, <1>3, RefreshedPage, LoadsMove

-----------------------------------------------------------------------------
(* The lists of projects and the form.                                      *)

LEMMA NoListsType == NoProjects \in MemberLists /\ NoList \in ListStates
  BY DEF NoProjects, MemberLists, NoList, ListStates

LEMMA ListingPage ==
  ASSUME NEW pg \in Pages, NEW i \in Calls
  PROVE  /\ Listing(pg, i) \in Pages
         /\ SameLoads(pg, Listing(pg, i)) /\ SameCards(pg, Listing(pg, i))
         /\ SameCalls(pg, Listing(pg, i)) /\ SameForm(pg, Listing(pg, i))
<1>1. pg.lists[i] \in ListStates
  BY DEF Pages
<1> DEFINE x == [pg.lists[i] EXCEPT !.state = "asked"]
<1>2. x \in ListStates
  BY <1>1 DEF ListStates
<1>3. Listing(pg, i) = [pg EXCEPT !.lists[i] = x, !.listing = TRUE, !.listError = FALSE]
  BY DEF Listing, Pages
<1> HIDE DEF x
<1> DEFINE y == [pg EXCEPT !.lists[i] = x]
<1>4. y \in Pages /\ SameLoads(pg, y) /\ SameCards(pg, y) /\ SameCalls(pg, y) /\ SameForm(pg, y)
  BY <1>2 DEF Pages, SameLoads, SameCards, SameCalls, SameForm
<1>5. Listing(pg, i) = [y EXCEPT !.listing = TRUE, !.listError = FALSE]
  BY <1>3
<1> HIDE DEF y
<1> QED BY <1>4, <1>5 DEF Pages, SameLoads, SameCards, SameCalls, SameForm

LEMMA ListsKeep ==
  ASSUME BoardInv, NEW i \in Calls, listProjects(i) \/ setProjects(i) \/ ListFails(i) \/ retryProjects(i)
  PROVE  BoardInv'
<1>0. page \in Pages /\ page.lists[i].of \in MemberLists /\ members \in MemberLists
  BY DEF BoardInv, Pages, ListStates, ServerTypeOK, MemberLists
<1>1. UNCHANGED serverVars
  BY DEF listProjects, setProjects, ListFails, retryProjects, Local, Failure, Gesture
<1> DEFINE Listed(pg) == /\ pg \in Pages
                         /\ SameLoads(page, pg) /\ SameCards(page, pg) /\ SameCalls(page, pg) /\ SameForm(page, pg)
<1>2. ASSUME listProjects(i)
      PROVE  Listed(page')
  <2> DEFINE x == [state |-> "read", of |-> members]
  <2>1. x \in ListStates
    BY <1>0 DEF ListStates
  <2>2. page' = [page EXCEPT !.lists[i] = x]
    BY <1>2 DEF listProjects
  <2> HIDE DEF x
  <2> QED BY <1>0, <2>1, <2>2 DEF Pages, SameLoads, SameCards, SameCalls, SameForm
<1>3. ASSUME setProjects(i)
      PROVE  Listed(page')
  BY <1>0, <1>3, NoListsType DEF setProjects, Pages, SameLoads, SameCards, SameCalls, SameForm
<1>4. ASSUME ListFails(i)
      PROVE  Listed(page')
  BY <1>0, <1>4, NoListsType DEF ListFails, Pages, SameLoads, SameCards, SameCalls, SameForm
<1>5. ASSUME retryProjects(i)
      PROVE  Listed(page')
  BY <1>0, <1>5, ListingPage DEF retryProjects
<1>6. Listed(page')
  BY <1>2, <1>3, <1>4, <1>5
<1>7. FormOK(page'.form)
  BY <1>6 DEF SameForm, BoardInv
<1> HIDE DEF Listed
<1> QED BY <1>1, <1>6, <1>7, FormMoves DEF Listed

LEMMA FirstBelongs ==
  ASSUME NEW us, us # {}
  PROVE  First(us) \in us
  BY DEF First

LEMMA FormSet ==
  ASSUME BoardInv, UNCHANGED serverVars, NEW form \in Forms, FormOK(form),
         page' = [page EXCEPT !.form = form]
  PROVE  BoardInv'
<1>1. page' \in Pages /\ page'.form = form
      /\ SameLoads(page, page') /\ SameCards(page, page') /\ SameCalls(page, page')
  BY DEF BoardInv, Pages, SameLoads, SameCards, SameCalls
<1> QED BY <1>1, FormMoves

LEMMA ClosedFormOK == ClosedForm \in Forms /\ FormOK(ClosedForm)
  BY NoListsType DEF ClosedForm, Forms, FormOK

LEMMA ServerAssumed ==
  Me # You /\ Nobody \notin People /\ Nobody \notin Projects /\ Nobody \notin Tasks
  /\ Nobody \notin Statuses /\ "todo" \in Statuses /\ Projects # {}
  BY BoardServerAssumption DEF BoardServerAssumption, People

LEMMA FormKeeps ==
  ASSUME BoardInv,
         \/ openForm \/ formLoaded \/ formLoadFails \/ handleCancel
         \/ \E p \in Projects : chooseProject(p)
         \/ \E u \in People : chooseAssignee(u)
  PROVE  BoardInv'
<1>0. page \in Pages /\ page.form \in Forms /\ FormOK(page.form) /\ members \in MemberLists
  BY DEF BoardInv, Pages, ServerTypeOK, MemberLists
<1>1. UNCHANGED serverVars
  BY DEF openForm, formLoaded, formLoadFails, handleCancel, chooseProject, chooseAssignee, Local, Failure, Gesture
<1>2. CASE openForm
  <2>1. page' = [page EXCEPT !.form = [ClosedForm EXCEPT !.open = TRUE]]
    BY <1>2 DEF openForm
  <2>2. [ClosedForm EXCEPT !.open = TRUE] \in Forms /\ FormOK([ClosedForm EXCEPT !.open = TRUE])
    BY ClosedFormOK DEF Forms, FormOK
  <2> QED BY <1>1, <2>1, <2>2, FormSet
<1>3. ASSUME page' = [page EXCEPT !.form.loaded = TRUE]
      PROVE  BoardInv'
  <2>1. page' = [page EXCEPT !.form = [page.form EXCEPT !.loaded = TRUE]]
    BY <1>0, <1>3 DEF Pages
  <2>2. [page.form EXCEPT !.loaded = TRUE] \in Forms /\ FormOK([page.form EXCEPT !.loaded = TRUE])
    BY <1>0 DEF Forms, FormOK
  <2> QED BY <1>1, <2>1, <2>2, FormSet
<1>4. CASE formLoaded
  <2>1. CASE members = NoProjects
    BY <1>3, <1>4, <2>1 DEF formLoaded
  <2>2. CASE members # NoProjects
    <3>1. PICK p \in Projects :
            /\ members[p] # {}
            /\ page' = [page EXCEPT !.form = [open |-> TRUE, loaded |-> TRUE, of |-> members,
                                              project |-> p, assignee |-> First(members[p])]]
      BY <1>4, <2>2 DEF formLoaded
    <3> DEFINE form == [open |-> TRUE, loaded |-> TRUE, of |-> members,
                        project |-> p, assignee |-> First(members[p])]
    <3>2. First(members[p]) \in members[p] /\ members[p] \subseteq People
      BY <1>0, <3>1, FirstBelongs DEF MemberLists
    <3>3. form \in Forms /\ FormOK(form)
      BY <1>0, <3>2, ServerAssumed DEF Forms, FormOK
    <3> QED BY <1>1, <3>1, <3>3, FormSet
  <2> QED BY <2>1, <2>2
<1>5. CASE formLoadFails
  BY <1>3, <1>5 DEF formLoadFails
<1>6. CASE handleCancel
  BY <1>1, <1>6, ClosedFormOK, FormSet DEF handleCancel
<1>7. ASSUME NEW p \in Projects, chooseProject(p)
      PROVE  BoardInv'
  <2> DEFINE a == IF page.form.assignee \in page.form.of[p] THEN page.form.assignee
                  ELSE First(page.form.of[p])
             form == [page.form EXCEPT !.project = p, !.assignee = a]
  <2>1. a \in page.form.of[p] /\ page.form.of[p] \subseteq People
    BY <1>0, <1>7, FirstBelongs DEF chooseProject, Forms, MemberLists
  <2>2. page' = [page EXCEPT !.form = form]
    BY <1>0, <1>7 DEF chooseProject, Pages, Forms
  <2> HIDE DEF a
  <2>3. form \in Forms /\ form.project = p /\ form.assignee = a /\ form.of = page.form.of
    BY <1>0, <2>1 DEF Forms
  <2> HIDE DEF form
  <2>4. FormOK(form)
    BY <2>1, <2>3, ServerAssumed DEF FormOK
  <2> QED BY <1>1, <2>2, <2>3, <2>4, FormSet
<1>8. ASSUME NEW u \in People, chooseAssignee(u)
      PROVE  BoardInv'
  <2> DEFINE form == [page.form EXCEPT !.assignee = u]
  <2>1. page' = [page EXCEPT !.form = form]
    BY <1>0, <1>8 DEF chooseAssignee, Pages
  <2>2. form \in Forms /\ FormOK(form)
    BY <1>0, <1>8 DEF chooseAssignee, Forms, FormOK
  <2> QED BY <1>1, <2>1, <2>2, FormSet
<1> QED BY <1>2, <1>4, <1>5, <1>6, <1>7, <1>8

-----------------------------------------------------------------------------
(* Gestures that send a request.                                            *)

\* One call of a page replaced.
LEMMA SetCall ==
  ASSUME NEW pg \in Pages, NEW c \in Calls, NEW k \in CallStates
  PROVE  LET qg == [pg EXCEPT !.calls[c] = k] IN
         /\ qg \in Pages /\ SameLoads(pg, qg) /\ SameCards(pg, qg) /\ SameForm(pg, qg)
         /\ qg.calls[c] = k /\ \A d \in Calls \ {c} : qg.calls[d] = pg.calls[d]
  BY DEF Pages, SameLoads, SameCards, SameForm

LEMMA CallNamed ==
  ASSUME NEW pg, NEW qg, NEW c \in Calls, CallsNamed(pg), Named(qg.calls[c]),
         \A d \in Calls \ {c} : qg.calls[d] = pg.calls[d]
  PROVE  CallsNamed(qg)
  BY DEF CallsNamed

LEMMA CallPast ==
  ASSUME NEW pg, NEW qg, NEW v, NEW c \in Calls, AnswersPast(pg, v), SameLoads(pg, qg),
         qg.calls[c].at <= v, \A d \in Calls \ {c} : qg.calls[d] = pg.calls[d]
  PROVE  AnswersPast(qg, v)
  BY DEF AnswersPast, SameLoads

LEMMA SendKeeps ==
  ASSUME BoardInv, UNCHANGED serverVars, NEW c \in Calls, Free(c),
         NEW k \in CallStates, k.phase = "asked", k.at = 0, Named(k),
         NEW pg \in Pages, SameLoads(page, pg), SameForm(page, pg), SameCalls(page, pg),
         pg.override = page.override, page.crossed \subseteq pg.crossed,
         k.kind = "move" /\ (\E d \in Calls : Moves(page, d, k.task)) => k.task \in pg.crossed,
         page' = Sent(pg, c, k)
  PROVE  BoardInv'
<1>1. /\ page' \in Pages /\ SameLoads(pg, page') /\ SameCards(pg, page') /\ SameForm(pg, page')
      /\ page'.calls[c] = k /\ \A d \in Calls \ {c} : page'.calls[d] = pg.calls[d]
  BY SetCall DEF Sent
<1>2. /\ SameLoads(page, page') /\ page'.override = page.override /\ page.crossed \subseteq page'.crossed
      /\ page'.crossed = pg.crossed
      /\ page'.form = page.form /\ \A d \in Calls \ {c} : page'.calls[d] = page.calls[d]
  BY <1>1 DEF SameLoads, SameCards, SameForm, SameCalls
<1>3. UNCHANGED <<item, members, version>> /\ version \in Nat /\ page \in Pages /\ page.calls[c].kind = "none"
  BY DEF serverVars, BoardInv, ServerTypeOK, Free
<1>4. MovesKept(page, page')
  <2>1. \A t \in Tasks : ~Moved(page', c, t) /\ ~Moves(page, c, t) /\ ~Moved(page, c, t)
    BY <1>1, <1>3 DEF Moved, Moves
  <2>2. \A d \in Calls \ {c}, t \in Tasks :
          /\ Moved(page', d, t) <=> Moved(page, d, t)
          /\ Moves(page', d, t) <=> Moves(page, d, t)
    BY <1>2 DEF Moved, Moves
  <2>3. \A t \in Tasks : Moves(page', c, t) => k.kind = "move" /\ t = k.task
    BY <1>1 DEF Moves
  <2>4. \A d \in Calls, t \in Tasks : Moved(page', d, t) =>
          Moved(page, d, t) /\ page'.calls[d].status = page.calls[d].status
    BY <1>2, <2>1, <2>2
  <2>5. \A d \in Calls, t \in Tasks : Moved(page, d, t) => Moved(page', d, t)
    BY <2>1, <2>2
  <2>6. ASSUME NEW t \in Tasks \ page'.crossed, NEW d \in Calls, NEW e \in Calls,
               Moves(page', d, t), Moves(page', e, t), d # e
        PROVE  Moves(page, d, t) /\ Moves(page, e, t)
    <3>1. d = c => Moves(page, e, t) /\ t = k.task /\ k.kind = "move"
      BY <2>2, <2>3, <2>6
    <3>2. e = c => Moves(page, d, t) /\ t = k.task /\ k.kind = "move"
      BY <2>2, <2>3, <2>6
    <3>3. d # c /\ e # c
      BY <1>2, <3>1, <3>2
    <3> QED BY <2>2, <2>6, <3>3
  <2> QED BY <2>4, <2>5, <2>6 DEF MovesKept
<1>5. CardsAgree(page', item')
  BY <1>1, <1>2, <1>3, <1>4, CardsKept, ItemsSame DEF BoardInv
<1>6. AnswersPast(page', version')
  <2>1. 0 <= version
    BY <1>3
  <2> QED BY <1>1, <1>2, <1>3, <2>1, CallPast DEF BoardInv
<1>7. CallsNamed(page')
  BY <1>1, <1>2, CallNamed DEF BoardInv
<1>8. LoadsFresh(page')
  BY <1>2, LoadsKept DEF BoardInv
<1> QED BY <1>1, <1>2, <1>3, <1>5, <1>6, <1>7, <1>8 DEF BoardInv, ServerTypeOK

LEMMA SamePage == \A pg : SameLoads(pg, pg) /\ SameForm(pg, pg) /\ SameCalls(pg, pg) /\ SameCards(pg, pg)
  BY DEF SameLoads, SameForm, SameCalls, SameCards

LEMMA NoCallType == NoCall \in CallStates /\ NoCall.kind = "none" /\ NoCall.phase = "none" /\ NoCall.at = 0
                    /\ Named(NoCall)
<1>1. "todo" \in Statuses
  BY ServerAssumed
<1> QED BY <1>1 DEF NoCall, CallStates, Kinds, Named

LEMMA MoveTaskKeeps ==
  ASSUME BoardInv, NEW c \in Calls, NEW t \in Tasks, NEW s \in Statuses, moveTask(c, t, s)
  PROVE  BoardInv'
<1> DEFINE X == IF \E d \in Calls : page.calls[d].kind = "move" /\ page.calls[d].task = t
                THEN page.crossed \cup {t} ELSE page.crossed
           pg == [page EXCEPT !.crossed = X]
           k == [NoCall EXCEPT !.kind = "move", !.phase = "asked", !.task = t, !.status = s]
<1>0. page \in Pages /\ X \subseteq Tasks /\ page.crossed \subseteq X
  BY DEF BoardInv, Pages
<1>1. page' = Sent(pg, c, k) /\ UNCHANGED serverVars /\ Free(c)
  BY DEF moveTask, Gesture
<1>3. k \in CallStates /\ k.kind = "move" /\ k.phase = "asked" /\ k.task = t /\ k.at = 0
  BY NoCallType DEF CallStates, Kinds
<1> HIDE DEF k
<1>4. (\E d \in Calls : Moves(page, d, k.task)) => k.task \in X
  BY <1>3 DEF Moves
<1> HIDE DEF X
<1>5. /\ pg \in Pages /\ pg.crossed = X /\ pg.override = page.override
      /\ SameLoads(page, pg) /\ SameForm(page, pg) /\ SameCalls(page, pg)
  BY <1>0 DEF Pages, SameLoads, SameForm, SameCalls
<1>6. Named(k)
  BY <1>3 DEF Named
<1> HIDE DEF pg
<1> QED BY <1>0, <1>1, <1>3, <1>4, <1>5, <1>6, SendKeeps

\* The other requests do not touch the cards.
LEMMA OtherSendKeeps ==
  ASSUME BoardInv, UNCHANGED serverVars, NEW c \in Calls, Free(c),
         NEW k \in CallStates, k.kind # "move", k.phase = "asked", k.at = 0, Named(k),
         NEW pg, pg = page \/ pg = [page EXCEPT !.error = FALSE], page' = Sent(pg, c, k)
  PROVE  BoardInv'
<1>1. /\ pg \in Pages /\ pg.crossed = page.crossed /\ pg.override = page.override
      /\ SameLoads(page, pg) /\ SameForm(page, pg) /\ SameCalls(page, pg)
  BY DEF BoardInv, Pages, SameLoads, SameForm, SameCalls
<1> QED BY <1>1, SendKeeps

LEMMA OtherGesturesKeep ==
  ASSUME BoardInv, NEW c \in Calls,
         \/ addProject(c) \/ handleSubmit(c)
         \/ \E p \in Projects : handleAddMember(c, p) \/ handleDeleteProject(c, p)
         \/ \E t \in Tasks : handleDeleteItem(c, t) \/ \E p \in Projects, u \in People : onClaim(c, t, p, u)
  PROVE  BoardInv'
<1>1. UNCHANGED serverVars /\ Free(c)
  BY DEF addProject, handleSubmit, handleAddMember, handleDeleteProject, handleDeleteItem, onClaim, Gesture
<1>2. CASE addProject(c)
  <2> DEFINE k == [NoCall EXCEPT !.kind = "createProject", !.phase = "asked"]
  <2>1. k \in CallStates /\ k.kind = "createProject" /\ k.phase = "asked" /\ k.at = 0
    BY NoCallType DEF CallStates, Kinds
  <2>2. page' = Sent(page, c, k)
    BY <1>2 DEF addProject
  <2> HIDE DEF k
  <2> QED BY <1>1, <2>1, <2>2, OtherSendKeeps DEF Named
<1>3. CASE handleSubmit(c)
  <2> DEFINE k == [NoCall EXCEPT !.kind = "create", !.phase = "asked",
                                 !.project = page.form.project, !.person = page.form.assignee]
  <2>1. page.form.project \in Projects /\ page.form.assignee \in People
    BY <1>3 DEF handleSubmit, BoardInv, Pages, Forms
  <2>2. /\ k \in CallStates /\ k.kind = "create" /\ k.phase = "asked" /\ k.at = 0
        /\ k.project = page.form.project /\ k.person = page.form.assignee
    BY <2>1, NoCallType DEF CallStates, Kinds
  <2>3. page' = Sent(page, c, k)
    BY <1>3 DEF handleSubmit
  <2> HIDE DEF k
  <2> QED BY <1>1, <2>1, <2>2, <2>3, OtherSendKeeps DEF Named
<1>4. ASSUME NEW p \in Projects, NEW kind \in {"addMember", "removeProject"},
             page' = Sent(page, c, [NoCall EXCEPT !.kind = kind, !.phase = "asked", !.project = p])
      PROVE  BoardInv'
  <2> DEFINE k == [NoCall EXCEPT !.kind = kind, !.phase = "asked", !.project = p]
  <2>1. k \in CallStates /\ k.kind = kind /\ k.phase = "asked" /\ k.at = 0 /\ k.project = p
    BY NoCallType DEF CallStates, Kinds
  <2>2. page' = Sent(page, c, k)
    BY <1>4
  <2> HIDE DEF k
  <2> QED BY <1>1, <2>1, <2>2, OtherSendKeeps DEF Named
<1>5. ASSUME NEW t \in Tasks, handleDeleteItem(c, t)
      PROVE  BoardInv'
  <2> DEFINE k == [NoCall EXCEPT !.kind = "remove", !.phase = "asked", !.task = t]
  <2>1. k \in CallStates /\ k.kind = "remove" /\ k.phase = "asked" /\ k.at = 0 /\ k.task = t
    BY NoCallType DEF CallStates, Kinds
  <2>2. page' = Sent(page, c, k)
    BY <1>5 DEF handleDeleteItem
  <2> HIDE DEF k
  <2> QED BY <1>1, <2>1, <2>2, OtherSendKeeps DEF Named
<1>6. ASSUME NEW t \in Tasks, NEW p \in Projects, NEW u \in People, onClaim(c, t, p, u)
      PROVE  BoardInv'
  <2> DEFINE k == [NoCall EXCEPT !.kind = "claim", !.phase = "asked", !.task = t, !.project = p, !.person = u]
             pg == [page EXCEPT !.error = FALSE]
  <2>1. /\ k \in CallStates /\ k.kind = "claim" /\ k.phase = "asked" /\ k.at = 0
        /\ k.task = t /\ k.project = p /\ k.person = u
    BY NoCallType DEF CallStates, Kinds
  <2>2. page' = Sent(pg, c, k)
    BY <1>6 DEF onClaim
  <2> HIDE DEF k
  <2> QED BY <1>1, <2>1, <2>2, OtherSendKeeps DEF Named
<1> QED BY <1>2, <1>3, <1>4, <1>5, <1>6 DEF handleAddMember, handleDeleteProject

-----------------------------------------------------------------------------
(* The server.                                                              *)

\* What a change leaves of the tasks, and of the types.
LEMMA ServerChanges ==
  ASSUME BoardInv, NEW but, NEW u \in People,
         \/ \E t \in Tasks : removeTask(t)
         \/ \E t \in Tasks : item[t].life = "unborn" /\ createTask(t)
         \/ \E t \in Tasks, s \in Statuses : t \in but /\ MayUse(t, u) /\ updateStatus(t, s)
         \/ \E t \in Tasks, p \in Projects, a \in People : assign(t, p, a)
         \/ \E p \in Projects, us \in SUBSET People : setMembers(p, us)
         \/ \E p \in Projects : removeProject(p)
  PROVE  ServerTypeOK' /\ version' = version + 1 /\ ItemsKept(item, item', but)
<1> DEFINE Items == [life : Lives, owner : People \cup {Nobody},
                     project : Projects \cup {Nobody}, status : Statuses]
<1>0. item \in [Tasks -> Items] /\ members \in [Projects -> SUBSET People] /\ version \in Nat
  BY DEF BoardInv, ServerTypeOK
<1>1. version' = version + 1
  BY DEF removeTask, createTask, updateStatus, assign, setMembers, removeProject, Changed
<1>2. ASSUME NEW t \in Tasks, NEW x \in Items, item' = [item EXCEPT ![t] = x], UNCHANGED members,
             item[t].life # "unborn" => x.life # "unborn" /\ (t \notin but => x.status = item[t].status)
      PROVE  ServerTypeOK' /\ ItemsKept(item, item', but)
  <2>1. item' \in [Tasks -> Items] /\ members' \in [Projects -> SUBSET People] /\ version' \in Nat
    BY <1>0, <1>1, <1>2
  <2>2. item'[t] = x /\ \A z \in Tasks \ {t} : item'[z] = item[z]
    BY <1>0, <1>2
  <2>3. ItemsKept(item, item', but)
    <3> HIDE DEF Items
    <3> QED BY <1>2, <2>2 DEF ItemsKept
  <2> QED BY <2>1, <2>3 DEF ServerTypeOK
<1>3. ASSUME NEW t \in Tasks, removeTask(t)
      PROVE  ServerTypeOK' /\ ItemsKept(item, item', but)
  <2> DEFINE x == [item[t] EXCEPT !.life = "deleted"]
  <2>1. x \in Items /\ x.life = "deleted" /\ x.status = item[t].status
    BY <1>0 DEF Lives
  <2>2. item' = [item EXCEPT ![t] = x] /\ UNCHANGED members
    BY <1>0, <1>3 DEF removeTask
  <2> HIDE DEF x, Items
  <2> QED BY <1>2, <2>1, <2>2
<1>4. ASSUME NEW t \in Tasks, item[t].life = "unborn", createTask(t)
      PROVE  ServerTypeOK' /\ ItemsKept(item, item', but)
  <2> DEFINE x == [Unborn EXCEPT !.life = "live", !.owner = Me]
  <2>1. Unborn \in Items
    BY ServerAssumed DEF Unborn, Lives, People
  <2>2. x \in Items
    BY <2>1 DEF Lives, People
  <2>3. item' = [item EXCEPT ![t] = x] /\ UNCHANGED members
    BY <1>4 DEF createTask
  <2> HIDE DEF x, Items
  <2> QED BY <1>2, <1>4, <2>2, <2>3
<1>5. ASSUME NEW t \in Tasks, NEW s \in Statuses, t \in but, MayUse(t, u), updateStatus(t, s)
      PROVE  ServerTypeOK' /\ ItemsKept(item, item', but)
  <2> DEFINE x == [item[t] EXCEPT !.status = s]
  <2>1. x \in Items /\ x.life = item[t].life
    BY <1>0
  <2>2. item' = [item EXCEPT ![t] = x] /\ UNCHANGED members
    BY <1>0, <1>5 DEF updateStatus
  <2> HIDE DEF x, Items
  <2> QED BY <1>2, <1>5, <2>1, <2>2
<1>6. ASSUME NEW t \in Tasks, NEW p \in Projects, NEW a \in People, assign(t, p, a)
      PROVE  ServerTypeOK' /\ ItemsKept(item, item', but)
  <2> DEFINE x == [item[t] EXCEPT !.project = p, !.owner = a]
  <2>1. x \in Items /\ x.life = item[t].life /\ x.status = item[t].status
    BY <1>0
  <2>2. item' = [item EXCEPT ![t] = x] /\ UNCHANGED members
    BY <1>0, <1>6 DEF assign
  <2> HIDE DEF x, Items
  <2> QED BY <1>2, <2>1, <2>2
<1>7. ASSUME NEW p \in Projects, NEW us \in SUBSET People, setMembers(p, us)
      PROVE  ServerTypeOK' /\ ItemsKept(item, item', but)
  <2>1. item' = item /\ members' \in [Projects -> SUBSET People] /\ version' \in Nat
    BY <1>0, <1>1, <1>7 DEF setMembers
  <2> QED BY <1>0, <2>1, ItemsSame DEF ServerTypeOK
<1>8. ASSUME NEW p \in Projects, removeProject(p)
      PROVE  ServerTypeOK' /\ ItemsKept(item, item', but)
  <2>1. item' = [t \in Tasks |-> IF item[t].project = p
                                 THEN [item[t] EXCEPT !.project = Nobody] ELSE item[t]]
        /\ members' \in [Projects -> SUBSET People] /\ version' \in Nat
    BY <1>0, <1>1, <1>8 DEF removeProject
  <2>2. \A t \in Tasks : item'[t] \in Items /\ item'[t].life = item[t].life /\ item'[t].status = item[t].status
    <3>1. \A z \in Items :
            /\ [z EXCEPT !.project = Nobody] \in Items
            /\ [z EXCEPT !.project = Nobody].life = z.life
            /\ [z EXCEPT !.project = Nobody].status = z.status
      OBVIOUS
    <3> HIDE DEF Items
    <3> QED BY <1>0, <2>1, <3>1
  <2>3. item' \in [Tasks -> Items]
    <3> HIDE DEF Items
    <3> QED BY <2>1, <2>2
  <2> QED BY <2>1, <2>2, <2>3 DEF ServerTypeOK, ItemsKept
<1> QED BY <1>1, <1>3, <1>4, <1>5, <1>6, <1>7, <1>8

\* A request is answered: its call changes, and perhaps the tables.
LEMMA CallKeeps ==
  ASSUME BoardInv, NEW c \in Calls, NEW k \in CallStates, page' = [page EXCEPT !.calls[c] = k],
         ServerTypeOK', version' \in {version, version + 1}, k.at <= version', Named(k),
         CardsAgree(page', item')
  PROVE  BoardInv'
<1>1. /\ page \in Pages /\ page' \in Pages /\ SameLoads(page, page') /\ SameForm(page, page')
      /\ page'.calls[c] = k /\ \A d \in Calls \ {c} : page'.calls[d] = page.calls[d]
  BY SetCall DEF BoardInv
<1>2. LoadsFresh(page') /\ FormOK(page'.form) /\ CallsNamed(page')
  <2>1. LoadsFresh(page')
    BY <1>1, LoadsKept DEF BoardInv
  <2>2. FormOK(page'.form)
    BY <1>1 DEF BoardInv, SameForm
  <2>3. CallsNamed(page) /\ Named(page'.calls[c])
    BY <1>1 DEF BoardInv
  <2>4. CallsNamed(page')
    BY <1>1, <2>3 DEF CallsNamed
  <2> QED BY <2>1, <2>2, <2>4
<1>3. AnswersPast(page, version')
  <2>1. version \in Nat /\ AnswersPast(page, version)
    BY DEF BoardInv, ServerTypeOK
  <2>2. \A n \in Nat : n <= version => n <= version'
    BY <2>1
  <2>3. /\ \A l \in page.loads : l.board.at \in Nat /\ l.loose.at \in Nat
        /\ page.shown.board.at \in Nat /\ page.shown.loose.at \in Nat /\ page.own \in Nat
        /\ \A d \in Calls : page.calls[d].at \in Nat
    BY <1>1 DEF Pages, Loads, Snapshots, CallStates
  <2> QED BY <2>1, <2>2, <2>3 DEF AnswersPast, ReadBefore
<1>4. AnswersPast(page', version')
  BY <1>1, <1>3, CallPast
<1> QED BY <1>1, <1>2, <1>4 DEF BoardInv

\* The answer leaves the cards as they are, unless a status call succeeds.
LEMMA QuietAnswer ==
  ASSUME BoardInv, NEW c \in Calls, NEW k \in CallStates, page' = [page EXCEPT !.calls[c] = k],
         \/ page.calls[c].kind # "move" /\ k.kind # "move"
         \/ /\ k.kind = page.calls[c].kind /\ k.task = page.calls[c].task
            /\ k.phase # "done" /\ page.calls[c].phase # "done",
         ServerTypeOK', version' \in {version, version + 1}, k.at <= version', Named(k),
         ItemsKept(item, item', {})
  PROVE  BoardInv'
<1>1. /\ page \in Pages /\ page' \in Pages /\ SameCards(page, page')
      /\ page'.calls[c] = k /\ \A d \in Calls \ {c} : page'.calls[d] = page.calls[d]
  BY SetCall DEF BoardInv
<1>2. \A t \in Tasks : /\ ~Moved(page, c, t) /\ ~Moved(page', c, t)
                       /\ Moves(page', c, t) => Moves(page, c, t)
  BY <1>1 DEF Moved, Moves
<1>3. \A d \in Calls \ {c}, t \in Tasks : (Moved(page', d, t) <=> Moved(page, d, t))
                                        /\ (Moves(page', d, t) <=> Moves(page, d, t))
  BY <1>1 DEF Moved, Moves
<1>4. MovesKept(page, page')
  BY <1>1, <1>2, <1>3 DEF MovesKept
<1>5. ItemsKept(item, item', page'.crossed)
  BY DEF ItemsKept
<1>6. CardsAgree(page', item')
  BY <1>1, <1>4, <1>5, CardsKept DEF BoardInv, SameCards
<1> QED BY <1>6, CallKeeps

\* The call that Handled leaves.
LEMMA HandledCall ==
  ASSUME BoardInv, NEW c \in Calls, NEW phase \in {"done", "refused"}, version' \in Nat, Handled(c, phase)
  PROVE  \E k \in CallStates :
           /\ page' = [page EXCEPT !.calls[c] = k]
           /\ k.kind = page.calls[c].kind /\ k.task = page.calls[c].task /\ k.phase = phase
           /\ k.project = page.calls[c].project /\ k.person = page.calls[c].person
           /\ k.status = page.calls[c].status /\ k.at = version'
<1> DEFINE k == [page.calls[c] EXCEPT !.phase = phase, !.at = version']
<1>1. page \in Pages /\ page.calls[c] \in CallStates
  BY DEF BoardInv, Pages
<1>2. /\ k \in CallStates /\ k.kind = page.calls[c].kind /\ k.task = page.calls[c].task /\ k.phase = phase
      /\ k.project = page.calls[c].project /\ k.person = page.calls[c].person
      /\ k.status = page.calls[c].status /\ k.at = version'
  BY <1>1 DEF CallStates
<1>3. page' = [page EXCEPT !.calls[c] = k]
  BY <1>1 DEF Handled, Pages
<1> HIDE DEF k
<1> QED BY <1>2, <1>3

LEMMA AcceptMoveKeeps ==
  ASSUME BoardInv, NEW c \in Calls, Asked(c, "move"), MayUse(page.calls[c].task, Me),
         updateStatus(page.calls[c].task, page.calls[c].status), Handled(c, "done")
  PROVE  BoardInv'
<1> DEFINE t0 == page.calls[c].task
           s0 == page.calls[c].status
<1>1. t0 \in Tasks /\ s0 \in Statuses /\ item[t0].life = "live" /\ version \in Nat
      /\ page.calls[c].kind = "move" /\ page.calls[c].phase = "asked"
  BY DEF Asked, BoardInv, CallsNamed, Named, Pages, CallStates, MayUse, Live, ServerTypeOK
<1>2. ServerTypeOK' /\ version' = version + 1 /\ ItemsKept(item, item', {t0})
  BY <1>1, ServerChanges DEF People
<1>3. item'[t0].status = s0
  BY <1>1 DEF updateStatus, BoardInv, ServerTypeOK
<1> HIDE DEF t0, s0
<1>4. version' \in Nat /\ version' <= version'
  BY <1>1, <1>2
<1>5. PICK k \in CallStates :
        /\ page' = [page EXCEPT !.calls[c] = k]
        /\ k.kind = "move" /\ k.task = t0 /\ k.phase = "done" /\ k.status = s0 /\ k.at = version'
  BY <1>1, <1>4, HandledCall DEF t0, s0
<1>6. /\ page \in Pages /\ page' \in Pages /\ SameCards(page, page')
      /\ page'.calls[c] = k /\ \A d \in Calls \ {c} : page'.calls[d] = page.calls[d]
  BY <1>5, SetCall DEF BoardInv
<1>7. \A d \in Calls \ {c}, t \in Tasks : (Moved(page', d, t) <=> Moved(page, d, t))
                                        /\ (Moves(page', d, t) <=> Moves(page, d, t))
  BY <1>6 DEF Moved, Moves
<1>8. /\ Moves(page, c, t0) /\ ~Moved(page, c, t0) /\ Moved(page', c, t0) /\ Moves(page', c, t0)
      /\ \A t \in Tasks \ {t0} : ~Moves(page', c, t) /\ ~Moves(page, c, t) /\ ~Moved(page', c, t) /\ ~Moved(page, c, t)
  BY <1>1, <1>5, <1>6 DEF Moved, Moves, t0
<1>9. CardsAgree(page', item')
  <2>1. \A d \in Calls, t \in Tasks : Moved(page', d, t) => item'[t].life # "unborn"
    BY <1>1, <1>2, <1>7, <1>8 DEF BoardInv, CardsAgree, ItemsKept
  <2>2. \A t \in Tasks : page'.override[t] # Nobody => item'[t].life # "unborn"
    BY <1>2, <1>6 DEF BoardInv, CardsAgree, ItemsKept, SameCards
  <2>3. ASSUME NEW t \in Tasks \ page'.crossed
        PROVE  /\ \A d, e \in Calls : Moves(page', d, t) /\ Moves(page', e, t) => d = e
               /\ \A d \in Calls : Moved(page', d, t) => page'.calls[d].status = item'[t].status
               /\ page'.override[t] # Nobody /\ (\A d \in Calls : ~Moved(page', d, t))
                    => page'.override[t] = item'[t].status
    <3>0. t \in Tasks \ page.crossed
      BY <1>6 DEF SameCards
    <3>1. \A d, e \in Calls : Moves(page, d, t) /\ Moves(page, e, t) => d = e
      BY <3>0 DEF BoardInv, CardsAgree
    <3>2. \A d, e \in Calls : Moves(page', d, t) /\ Moves(page', e, t) => d = e
      <4>1. \A d \in Calls : Moves(page', d, t) => Moves(page, d, t)
        BY <1>7, <1>8
      <4> QED BY <3>1, <4>1
    <3>3. CASE t = t0
      <4>1. \A d \in Calls : Moved(page', d, t) => d = c
        BY <1>8, <3>2, <3>3 DEF Moved
      <4> QED BY <1>3, <1>5, <1>6, <1>8, <3>2, <3>3, <4>1
    <3>4. CASE t # t0
      <4>1. \A d \in Calls : Moved(page', d, t) <=> Moved(page, d, t) /\ d # c
        BY <1>7, <1>8, <3>4
      <4>2. \A d \in Calls : Moved(page, d, t) => d # c /\ page.calls[d].status = item[t].status
        BY <1>8, <3>0, <3>4 DEF BoardInv, CardsAgree
      <4>3. item[t].life # "unborn" => item'[t].status = item[t].status
        BY <1>2, <3>4 DEF ItemsKept
      <4>4. \A d \in Calls : Moved(page, d, t) => item[t].life # "unborn"
        BY DEF BoardInv, CardsAgree
      <4>5. page.override[t] # Nobody => item[t].life # "unborn"
        BY DEF BoardInv, CardsAgree
      <4>6. page.override[t] # Nobody /\ (\A d \in Calls : ~Moved(page, d, t)) => page.override[t] = item[t].status
        BY <3>0 DEF BoardInv, CardsAgree
      <4> QED BY <1>6, <3>2, <4>1, <4>2, <4>3, <4>4, <4>5, <4>6 DEF SameCards
    <3> QED BY <3>3, <3>4
  <2> QED BY <2>1, <2>2, <2>3 DEF CardsAgree
<1>10. Named(k)
  BY <1>1, <1>5 DEF Named
<1> QED BY <1>2, <1>4, <1>5, <1>9, <1>10, CallKeeps

LEMMA AskedFields ==
  ASSUME BoardInv, NEW c \in Calls, NEW kind, Asked(c, kind)
  PROVE  /\ page.calls[c] \in CallStates /\ page.calls[c].kind = kind /\ page.calls[c].phase = "asked"
         /\ Named(page.calls[c])
  BY DEF Asked, BoardInv, Pages, CallsNamed

LEMMA AcceptKeeps ==
  ASSUME BoardInv, NEW c \in Calls, Accept(c)
  PROVE  BoardInv'
<1> DEFINE k0 == page.calls[c]
<1>1. CASE Asked(c, "move") /\ MayUse(k0.task, Me) /\ updateStatus(k0.task, k0.status)
  BY <1>1, AcceptMoveKeeps DEF Accept
<1>2. ASSUME NEW kind \in {"remove", "claim", "attach", "createProject", "removeProject"}, Asked(c, kind),
             ServerTypeOK', version' = version + 1, ItemsKept(item, item', {})
      PROVE  BoardInv'
  <2>1. Handled(c, "done") /\ version' \in Nat /\ version' <= version'
    <3>1. version \in Nat
      BY DEF BoardInv, ServerTypeOK
    <3> QED BY <1>2, <3>1 DEF Accept
  <2>2. k0.kind = kind /\ Named(k0)
    BY <1>2, AskedFields
  <2>3. PICK k \in CallStates :
          /\ page' = [page EXCEPT !.calls[c] = k]
          /\ k.kind = kind /\ k.task = k0.task /\ k.project = k0.project /\ k.person = k0.person
          /\ k.at = version'
    BY <2>1, <2>2, HandledCall
  <2>4. Named(k)
    BY <2>2, <2>3 DEF Named
  <2> HIDE DEF k0
  <2>5. page.calls[c].kind # "move" /\ k.kind # "move"
    BY <2>2, <2>3 DEF k0
  <2> QED BY <1>2, <2>1, <2>3, <2>4, <2>5, QuietAnswer
<1>3. CASE Asked(c, "remove") /\ removeTask(k0.task)
  <2>1. k0.task \in Tasks /\ Me \in People
    BY <1>3, AskedFields DEF Named, People
  <2> QED BY <1>2, <1>3, <2>1, ServerChanges
<1>4. ASSUME NEW kind \in {"claim", "attach"}, Asked(c, kind), assign(k0.task, k0.project, k0.person)
      PROVE  BoardInv'
  <2>1. k0.task \in Tasks /\ k0.project \in Projects /\ k0.person \in People
    BY <1>4, AskedFields DEF Named
  <2>2. ServerTypeOK' /\ version' = version + 1 /\ ItemsKept(item, item', {})
    BY <1>4, <2>1, ServerChanges
  <2> QED BY <1>2, <1>4, <2>2
<1>5. ASSUME NEW p \in Projects, Asked(c, "createProject"), setMembers(p, {Me})
      PROVE  BoardInv'
  <2>1. {Me} \in SUBSET People /\ Me \in People
    BY DEF People
  <2> QED BY <1>2, <1>5, <2>1, ServerChanges
<1>6. CASE Asked(c, "removeProject") /\ removeProject(k0.project)
  <2>1. k0.project \in Projects /\ Me \in People
    BY <1>6, AskedFields DEF Named, People
  <2> QED BY <1>2, <1>6, <2>1, ServerChanges
<1> QED BY <1>1, <1>3, <1>4, <1>5, <1>6 DEF Accept

LEMMA AcceptTaskKeeps ==
  ASSUME BoardInv, NEW c \in Calls, AcceptTask(c)
  PROVE  BoardInv'
<1>1. PICK t \in Tasks :
        /\ item[t].life = "unborn" /\ createTask(t)
        /\ page' = [page EXCEPT !.calls[c].phase = "done", !.calls[c].task = t]
  BY DEF AcceptTask
<1> DEFINE k == [page.calls[c] EXCEPT !.phase = "done", !.task = t]
<1>2. /\ page.calls[c] \in CallStates /\ page.calls[c].kind = "create" /\ Named(page.calls[c])
      /\ page \in Pages /\ version \in Nat /\ page.calls[c].at <= version
  BY AskedFields DEF AcceptTask, BoardInv, ServerTypeOK, AnswersPast
<1>3. /\ k \in CallStates /\ k.kind = "create" /\ k.task = t /\ k.at = page.calls[c].at
      /\ k.project = page.calls[c].project /\ k.person = page.calls[c].person
  BY <1>2 DEF CallStates
<1>4. page' = [page EXCEPT !.calls[c] = k]
  BY <1>1, <1>2 DEF Pages
<1> HIDE DEF k
<1>5. ServerTypeOK' /\ version' = version + 1 /\ ItemsKept(item, item', {})
  BY <1>1, ServerChanges DEF People
<1>6. k.at <= version'
  <2>1. k.at \in Nat
    BY <1>3 DEF CallStates
  <2> QED BY <1>2, <1>3, <1>5, <2>1
<1>7. Named(k)
  BY <1>2, <1>3 DEF Named
<1>8. page.calls[c].kind # "move" /\ k.kind # "move"
  BY <1>2, <1>3
<1> QED BY <1>3, <1>4, <1>5, <1>6, <1>7, <1>8, QuietAnswer

LEMMA AcceptMemberKeeps ==
  ASSUME BoardInv, NEW c \in Calls, AcceptMember(c)
  PROVE  BoardInv'
<1> DEFINE k == [page.calls[c] EXCEPT !.phase = "done", !.found = People]
<1>2. /\ page.calls[c] \in CallStates /\ page.calls[c].kind = "addMember" /\ Named(page.calls[c])
      /\ page \in Pages /\ version \in Nat /\ page.calls[c].at <= version
  BY AskedFields DEF AcceptMember, BoardInv, ServerTypeOK, AnswersPast
<1>3. /\ k \in CallStates /\ k.kind = "addMember" /\ k.at = page.calls[c].at
      /\ k.project = page.calls[c].project
  BY <1>2 DEF CallStates
<1>4. page' = [page EXCEPT !.calls[c] = k]
  BY <1>2 DEF Pages, AcceptMember
<1> HIDE DEF k
<1>5. ServerTypeOK' /\ version' = version + 1 /\ ItemsKept(item, item', {})
  <2>1. page.calls[c].project \in Projects /\ People \in SUBSET People /\ Me \in People
    BY <1>2 DEF Named, People
  <2> QED BY <2>1, ServerChanges DEF AcceptMember
<1>6. k.at <= version'
  <2>1. k.at \in Nat
    BY <1>3 DEF CallStates
  <2> QED BY <1>2, <1>3, <1>5, <2>1
<1>7. Named(k)
  BY <1>2, <1>3 DEF Named
<1>8. page.calls[c].kind # "move" /\ k.kind # "move"
  BY <1>2, <1>3
<1> QED BY <1>3, <1>4, <1>5, <1>6, <1>7, <1>8, QuietAnswer

LEMMA RefuseKeeps ==
  ASSUME BoardInv, NEW c \in Calls, Refuse(c)
  PROVE  BoardInv'
<1> DEFINE k0 == page.calls[c]
<1>1. UNCHANGED <<item, members, version>> /\ Handled(c, "refused")
  BY DEF Refuse, serverVars
<1>2. k0.phase = "asked" /\ Named(k0) /\ k0.kind # "create"
  BY DEF Refuse, Asked, BoardInv, CallsNamed
<1>3. version' \in Nat /\ version' = version /\ version' <= version'
  <2>1. version \in Nat
    BY DEF BoardInv, ServerTypeOK
  <2> QED BY <1>1, <2>1
<1>4. PICK k \in CallStates :
        /\ page' = [page EXCEPT !.calls[c] = k]
        /\ k.kind = k0.kind /\ k.task = k0.task /\ k.project = k0.project /\ k.person = k0.person
        /\ k.phase = "refused" /\ k.at = version'
  BY <1>1, <1>3, HandledCall
<1>5. Named(k)
  BY <1>2, <1>4 DEF Named
<1>6. ServerTypeOK' /\ ItemsKept(item, item', {})
  BY <1>1, ItemsSame DEF BoardInv, ServerTypeOK
<1>7. k.kind = page.calls[c].kind /\ k.task = page.calls[c].task /\ k.phase # "done" /\ page.calls[c].phase # "done"
  BY <1>2, <1>4
<1> HIDE DEF k0
<1> QED BY <1>3, <1>4, <1>5, <1>6, <1>7, QuietAnswer

-----------------------------------------------------------------------------
(* The page goes on.                                                        *)

\* A call is over, and what it was for is done, or the card has crossed.
LEMMA EndKeeps ==
  ASSUME BoardInv, UNCHANGED serverVars, NEW c \in Calls, NEW pg \in Pages,
         SameCalls(page, pg), pg.override = page.override, page.crossed \subseteq pg.crossed,
         FormOK(pg.form), LoadsFresh(pg), AnswersPast(pg, version),
         \A t \in Tasks : Moved(page, c, t) => t \in pg.crossed,
         page' = Ended(pg, c)
  PROVE  BoardInv'
<1>1. /\ page' \in Pages /\ SameLoads(pg, page') /\ SameCards(pg, page') /\ SameForm(pg, page')
      /\ page'.calls[c] = NoCall /\ \A d \in Calls \ {c} : page'.calls[d] = pg.calls[d]
  BY SetCall, NoCallType DEF Ended
<1>2. /\ page'.override = page.override /\ page.crossed \subseteq page'.crossed
      /\ page'.crossed = pg.crossed /\ \A d \in Calls \ {c} : page'.calls[d] = page.calls[d]
  BY <1>1 DEF SameCards, SameCalls
<1>3. UNCHANGED <<item, members, version>> /\ version \in Nat /\ page \in Pages
  BY DEF serverVars, BoardInv, ServerTypeOK
<1>4. MovesKept(page, page')
  <2>1. \A t \in Tasks : ~Moved(page', c, t) /\ ~Moves(page', c, t)
    BY <1>1, NoCallType DEF Moved, Moves
  <2>2. \A d \in Calls \ {c}, t \in Tasks :
          /\ Moved(page', d, t) <=> Moved(page, d, t)
          /\ Moves(page', d, t) <=> Moves(page, d, t)
    BY <1>2 DEF Moved, Moves
  <2>3. \A d \in Calls, t \in Tasks : Moved(page', d, t) =>
          Moved(page, d, t) /\ page'.calls[d].status = page.calls[d].status
    BY <1>2, <2>1, <2>2
  <2>4. \A d \in Calls, t \in Tasks : Moves(page', d, t) => Moves(page, d, t)
    BY <2>1, <2>2
  <2>5. \A t \in Tasks \ page'.crossed, d \in Calls : Moved(page, d, t) => Moved(page', d, t)
    BY <1>2, <2>2
  <2> QED BY <2>3, <2>4, <2>5 DEF MovesKept
<1>5. CardsAgree(page', item')
  BY <1>1, <1>2, <1>3, <1>4, CardsKept, ItemsSame DEF BoardInv
<1>6. AnswersPast(page', version')
  <2>1. NoCall.at <= version
    BY <1>3, NoCallType
  <2>2. page'.calls[c].at <= version
    BY <1>1, <2>1
  <2> QED BY <1>1, <1>3, <2>2, CallPast
<1>7. CallsNamed(page')
  BY <1>1, <1>2, NoCallType DEF BoardInv, CallsNamed
<1>8. LoadsFresh(page')
  BY <1>1, LoadsKept
<1>9. ServerTypeOK' /\ FormOK(page'.form)
  BY <1>1, <1>3 DEF BoardInv, ServerTypeOK, SameForm
<1> QED BY <1>1, <1>5, <1>6, <1>7, <1>8, <1>9 DEF BoardInv

\* The lists are to be read again: the load that starts has read nothing yet.
LEMMA ReadAgainPage ==
  ASSUME BoardInv, NEW c \in Calls, NEW pg \in {Refreshed, Invalidated}
  PROVE  /\ ReadAgain(pg, c) \in Pages
         /\ SameCalls(page, ReadAgain(pg, c)) /\ SameCards(page, ReadAgain(pg, c))
         /\ SameForm(page, ReadAgain(pg, c))
         /\ LoadsFresh(ReadAgain(pg, c)) /\ AnswersPast(ReadAgain(pg, c), version)
<1> DEFINE own == IF page.calls[c].at > page.own THEN page.calls[c].at ELSE page.own
           qg == [pg EXCEPT !.own = own]
<1>1. /\ pg \in Pages /\ pg.loads = {FreshLoad} /\ pg.shown = page.shown /\ pg.own = page.own
      /\ SameCalls(page, pg) /\ SameCards(page, pg) /\ SameForm(page, pg)
  BY RefreshedPage
<1>2. version \in Nat /\ AnswersPast(page, version)
      /\ page.calls[c] \in CallStates /\ page.own \in Nat
  BY DEF BoardInv, ServerTypeOK, Pages
<1>3. page.calls[c].at \in Nat
  BY <1>2 DEF CallStates
<1>4. own \in Nat /\ own <= version
  BY <1>2, <1>3 DEF AnswersPast
<1>5. ReadAgain(pg, c) = qg
  BY <1>1 DEF ReadAgain
<1> HIDE DEF own
<1>6. /\ qg \in Pages /\ qg.own = own /\ qg.loads = pg.loads /\ qg.shown = pg.shown
      /\ SameCalls(pg, qg) /\ SameCards(pg, qg) /\ SameForm(pg, qg)
  BY <1>1, <1>4 DEF Pages, SameCalls, SameCards, SameForm
<1> HIDE DEF qg
<1>7. LoadsFresh(qg) /\ \A l \in qg.loads : ReadBefore(version, l)
  BY <1>1, <1>2, <1>6, FreshIsFresh
<1>8. AnswersPast(qg, version)
  BY <1>1, <1>2, <1>4, <1>6, <1>7 DEF AnswersPast, SameCalls
<1> QED BY <1>1, <1>5, <1>6, <1>7, <1>8 DEF SameCalls, SameCards, SameForm

LEMMA ChangeAnsweredKeeps ==
  ASSUME BoardInv, NEW c \in Calls,
         changeAnswered(c) \/ attachAnswered(c) \/ claimRefused(c) \/ projectRemoved(c)
  PROVE  BoardInv'
<1> DEFINE rg == ReadAgain(Refreshed, c)
           ig == ReadAgain(Invalidated, c)
<1>1. UNCHANGED serverVars
  BY DEF changeAnswered, attachAnswered, claimRefused, projectRemoved, Answered, Local
<1>2. \A t \in Tasks : ~Moved(page, c, t)
  BY DEF changeAnswered, attachAnswered, claimRefused, projectRemoved, Answered, Moved, Moves
<1>3. \A qg \in {rg, ig} :
        /\ qg \in Pages /\ SameCalls(page, qg) /\ SameCards(page, qg) /\ SameForm(page, qg)
        /\ LoadsFresh(qg) /\ AnswersPast(qg, version)
  BY ReadAgainPage
<1>4. ASSUME NEW qg \in {rg, ig}, NEW pg \in Pages, page' = Ended(pg, c),
             SameCalls(qg, pg), SameCards(qg, pg), SameLoads(qg, pg), FormOK(pg.form)
      PROVE  BoardInv'
  <2>0. /\ SameCalls(page, qg) /\ SameCards(page, qg) /\ LoadsFresh(qg) /\ AnswersPast(qg, version)
    BY <1>3
  <2> HIDE DEF rg, ig
  <2>1. SameCalls(page, pg) /\ pg.override = page.override /\ page.crossed \subseteq pg.crossed
    BY <1>4, <2>0 DEF SameCalls, SameCards
  <2>2. LoadsFresh(pg)
    BY <1>4, <2>0, LoadsKept
  <2>3. AnswersPast(pg, version)
    BY <1>4, <2>0 DEF AnswersPast, SameLoads, SameCalls
  <2> QED BY <1>1, <1>2, <1>4, <2>1, <2>2, <2>3, EndKeeps
<1>5. FormOK(page.form)
  BY DEF BoardInv
<1> HIDE DEF rg, ig
<1>6. CASE changeAnswered(c)
  <2>1. page' = Ended(rg, c)
    BY <1>6 DEF changeAnswered, rg
  <2>2. rg \in Pages /\ FormOK(rg.form)
    BY <1>3, <1>5 DEF SameForm
  <2> QED BY <1>4, <2>1, <2>2, SamePage
<1>7. CASE attachAnswered(c)
  <2> DEFINE pg == [rg EXCEPT !.form = ClosedForm]
  <2>1. page' = Ended(pg, c)
    BY <1>7 DEF attachAnswered, rg
  <2>2. pg \in Pages /\ SameCalls(rg, pg) /\ SameCards(rg, pg) /\ SameLoads(rg, pg) /\ pg.form = ClosedForm
    BY <1>3, ClosedFormOK DEF Pages, SameCalls, SameCards, SameLoads
  <2> HIDE DEF pg
  <2> QED BY <1>4, <2>1, <2>2, ClosedFormOK
<1>8. CASE claimRefused(c)
  <2> DEFINE pg == [ig EXCEPT !.error = TRUE]
  <2>1. page' = Ended(pg, c)
    BY <1>8 DEF claimRefused, ig
  <2>2. pg \in Pages /\ SameCalls(ig, pg) /\ SameCards(ig, pg) /\ SameLoads(ig, pg) /\ pg.form = ig.form
    BY <1>3 DEF Pages, SameCalls, SameCards, SameLoads
  <2> HIDE DEF pg
  <2>3. FormOK(pg.form)
    BY <1>3, <1>5, <2>2 DEF SameForm
  <2> QED BY <1>4, <2>1, <2>2, <2>3
<1>9. CASE projectRemoved(c)
  <2> DEFINE pg == [rg EXCEPT !.projects[page.calls[c].project] = {}]
  <2>1. page' = Ended(pg, c)
    BY <1>9 DEF projectRemoved, rg
  <2>2. pg \in Pages /\ SameCalls(rg, pg) /\ SameCards(rg, pg) /\ SameLoads(rg, pg) /\ pg.form = rg.form
    <3>1. rg \in Pages
      BY <1>3
    <3>2. [rg.projects EXCEPT ![page.calls[c].project] = {}] \in MemberLists
      BY <3>1 DEF Pages, MemberLists
    <3> QED BY <3>1, <3>2 DEF Pages, SameCalls, SameCards, SameLoads
  <2> HIDE DEF pg
  <2>3. FormOK(pg.form)
    BY <1>3, <1>5, <2>2 DEF SameForm
  <2> QED BY <1>4, <2>1, <2>2, <2>3
<1> QED BY <1>6, <1>7, <1>8, <1>9

\* An answer after which no list is read again.
LEMMA PlainAnswerKeeps ==
  ASSUME BoardInv, NEW c \in Calls,
         otherRefused(c) \/ memberAdded(c) \/ \E i \in Calls : handleProjectCreated(c, i)
  PROVE  BoardInv'
<1>1. UNCHANGED serverVars
  BY DEF otherRefused, memberAdded, handleProjectCreated, Answered, Local
<1>2. \A t \in Tasks : ~Moved(page, c, t)
  BY DEF otherRefused, memberAdded, handleProjectCreated, Answered, Moved, Moves
<1>3. ASSUME NEW pg \in Pages, page' = Ended(pg, c),
             SameCalls(page, pg), SameCards(page, pg), SameLoads(page, pg), SameForm(page, pg)
      PROVE  BoardInv'
  <2>1. pg.override = page.override /\ page.crossed \subseteq pg.crossed /\ FormOK(pg.form)
    BY <1>3 DEF SameCards, SameForm, BoardInv
  <2>2. LoadsFresh(pg)
    BY <1>3, LoadsKept DEF BoardInv
  <2>3. AnswersPast(pg, version)
    BY <1>3 DEF BoardInv, AnswersPast, SameLoads, SameCalls
  <2> QED BY <1>1, <1>2, <1>3, <2>1, <2>2, <2>3, EndKeeps
<1>4. page \in Pages
  BY DEF BoardInv
<1>5. CASE otherRefused(c)
  BY <1>3, <1>4, <1>5, SamePage DEF otherRefused
<1>6. CASE memberAdded(c)
  <2> DEFINE m == [page.projects EXCEPT ![page.calls[c].project] =
                     IF @ = {} THEN @ ELSE page.calls[c].found]
             pg == [page EXCEPT !.projects = m]
  <2>1. page.projects \in MemberLists /\ page.calls[c].found \in SUBSET People
    BY <1>4 DEF Pages, CallStates
  <2>2. m \in MemberLists
    BY <2>1 DEF MemberLists
  <2>3. page' = Ended(pg, c)
    BY <1>4, <1>6 DEF memberAdded, Pages
  <2> HIDE DEF m
  <2>4. pg \in Pages /\ SameCalls(page, pg) /\ SameCards(page, pg) /\ SameLoads(page, pg) /\ SameForm(page, pg)
    BY <1>4, <2>2 DEF Pages, SameCalls, SameCards, SameLoads, SameForm
  <2> HIDE DEF pg
  <2> QED BY <1>3, <2>3, <2>4
<1>7. CASE \E i \in Calls : handleProjectCreated(c, i)
  BY <1>3, <1>4, <1>7, ListingPage DEF handleProjectCreated
<1> QED BY <1>5, <1>6, <1>7

LEMMA CallFailsKeeps ==
  ASSUME BoardInv, NEW c \in Calls, CallFails(c)
  PROVE  BoardInv'
<1> DEFINE k0 == page.calls[c]
           e == page.error \/ k0.kind = "claim"
           X == IF k0.kind = "move" THEN page.crossed \cup {k0.task} ELSE page.crossed
           pg == [page EXCEPT !.error = e, !.crossed = X]
<1>1. UNCHANGED serverVars /\ page \in Pages /\ (k0.kind = "move" => k0.task \in Tasks)
  BY DEF CallFails, Failure, BoardInv, CallsNamed, Named
<1>2. e \in BOOLEAN
  OBVIOUS
<1>3. X \subseteq Tasks /\ page.crossed \subseteq X
  BY <1>1 DEF Pages
<1>4. page' = Ended(pg, c)
  BY <1>1 DEF CallFails, Pages
<1>5. \A t \in Tasks : Moved(page, c, t) => t \in X
  BY DEF Moved, Moves
<1> HIDE DEF e, X, k0
<1>6. /\ pg \in Pages /\ pg.crossed = X /\ pg.override = page.override
      /\ SameCalls(page, pg) /\ SameLoads(page, pg) /\ SameForm(page, pg)
  BY <1>1, <1>2, <1>3 DEF Pages, SameCalls, SameLoads, SameForm
<1> HIDE DEF pg
<1>7. FormOK(pg.form)
  BY <1>6 DEF SameForm, BoardInv
<1>8. LoadsFresh(pg)
  BY <1>6, LoadsKept DEF BoardInv
<1>9. AnswersPast(pg, version)
  BY <1>6 DEF BoardInv, AnswersPast, SameLoads, SameCalls
<1> QED BY <1>1, <1>3, <1>4, <1>5, <1>6, <1>7, <1>8, <1>9, EndKeeps

\* The task exists; it is now to be attached.
LEMMA CreateAnsweredKeeps ==
  ASSUME BoardInv, NEW c \in Calls, createAnswered(c)
  PROVE  BoardInv'
<1> DEFINE k == [page.calls[c] EXCEPT !.kind = "attach", !.phase = "asked"]
<1>1. /\ page \in Pages /\ page.calls[c] \in CallStates /\ page.calls[c].kind = "create"
      /\ page.calls[c].phase = "done" /\ Named(page.calls[c]) /\ page.calls[c].at <= version
  BY DEF createAnswered, Answered, BoardInv, Pages, CallsNamed, AnswersPast
<1>2. /\ k \in CallStates /\ k.kind = "attach" /\ k.task = page.calls[c].task /\ k.at = page.calls[c].at
      /\ k.project = page.calls[c].project /\ k.person = page.calls[c].person
  BY <1>1 DEF CallStates, Kinds
<1>3. page' = [page EXCEPT !.calls[c] = k]
  BY <1>1 DEF createAnswered, Pages
<1> HIDE DEF k
<1>4. Named(k)
  BY <1>1, <1>2 DEF Named
<1>5. UNCHANGED <<item, members, version>>
  BY DEF createAnswered, Answered, Local, serverVars
<1>6. ServerTypeOK' /\ ItemsKept(item, item', {}) /\ version' = version
  BY <1>5, ItemsSame DEF BoardInv, ServerTypeOK
<1>7. page.calls[c].kind # "move" /\ k.kind # "move"
  BY <1>1, <1>2
<1>8. k.at <= version'
  BY <1>1, <1>2, <1>6
<1> QED BY <1>2, <1>3, <1>4, <1>6, <1>7, <1>8, QuietAnswer

\* The card takes the status that the server has given it.
LEMMA MoveAnsweredKeeps ==
  ASSUME BoardInv, NEW c \in Calls, moveAnswered(c)
  PROVE  BoardInv'
<1> DEFINE t0 == page.calls[c].task
           s0 == page.calls[c].status
           V == [page.override EXCEPT ![t0] = s0]
           pg == [page EXCEPT !.override = V]
<1>1. /\ page \in Pages /\ page.calls[c].kind = "move" /\ page.calls[c].phase = "done"
      /\ t0 \in Tasks /\ s0 \in Statuses
  BY DEF moveAnswered, Answered, BoardInv, Pages, CallsNamed, Named, CallStates
<1>2. UNCHANGED <<item, members, version>>
  BY DEF moveAnswered, Answered, Local, serverVars
<1>3. page' = Ended(pg, c)
  BY <1>1 DEF moveAnswered, Pages
<1>4. /\ V \in [Tasks -> Statuses \cup {Nobody}] /\ V[t0] = s0
      /\ \A t \in Tasks \ {t0} : V[t] = page.override[t]
  BY <1>1 DEF Pages
<1>5. Moved(page, c, t0) /\ \A t \in Tasks \ {t0} : ~Moved(page, c, t) /\ ~Moves(page, c, t)
  BY <1>1 DEF Moved, Moves
<1>6. \A t \in Tasks : t \notin page.crossed /\ t = t0 => s0 = item[t].status
  BY <1>5 DEF BoardInv, CardsAgree
<1> HIDE DEF t0, s0, V
<1>7. /\ pg \in Pages /\ pg.override = V /\ pg.crossed = page.crossed
      /\ SameCalls(page, pg) /\ SameLoads(page, pg) /\ SameForm(page, pg)
  BY <1>1, <1>4 DEF Pages, SameCalls, SameLoads, SameForm
<1> HIDE DEF pg
<1>8. /\ page' \in Pages /\ SameLoads(pg, page') /\ SameCards(pg, page') /\ SameForm(pg, page')
      /\ page'.calls[c] = NoCall /\ \A d \in Calls \ {c} : page'.calls[d] = pg.calls[d]
  BY <1>3, <1>7, SetCall, NoCallType DEF Ended
<1>9. /\ page'.override = V /\ page'.crossed = page.crossed
      /\ \A d \in Calls \ {c} : page'.calls[d] = page.calls[d]
  BY <1>7, <1>8 DEF SameCards, SameCalls
<1>10. \A t \in Tasks : ~Moved(page', c, t) /\ ~Moves(page', c, t)
  BY <1>8, NoCallType DEF Moved, Moves
<1>11. \A d \in Calls \ {c}, t \in Tasks :
         /\ Moved(page', d, t) <=> Moved(page, d, t)
         /\ Moves(page', d, t) <=> Moves(page, d, t)
  BY <1>9 DEF Moved, Moves
<1>12. CardsAgree(page', item)
  <2>1. \A d \in Calls, t \in Tasks : Moved(page', d, t) => item[t].life # "unborn"
    BY <1>10, <1>11 DEF BoardInv, CardsAgree
  <2>2. \A t \in Tasks : page'.override[t] # Nobody => item[t].life # "unborn"
    BY <1>4, <1>5, <1>9 DEF BoardInv, CardsAgree
  <2>3. ASSUME NEW t \in Tasks \ page'.crossed
        PROVE  /\ \A d, e \in Calls : Moves(page', d, t) /\ Moves(page', e, t) => d = e
               /\ \A d \in Calls : Moved(page', d, t) => page'.calls[d].status = item[t].status
               /\ page'.override[t] # Nobody /\ (\A d \in Calls : ~Moved(page', d, t))
                    => page'.override[t] = item[t].status
    <3>0. t \in Tasks \ page.crossed
      BY <1>9
    <3>1. \A d, e \in Calls : Moves(page', d, t) /\ Moves(page', e, t) => d = e
      BY <1>10, <1>11, <3>0 DEF BoardInv, CardsAgree
    <3>2. \A d \in Calls : Moved(page', d, t) => page'.calls[d].status = item[t].status
      BY <1>9, <1>10, <1>11, <3>0 DEF BoardInv, CardsAgree
    <3>3. CASE t = t0
      BY <1>4, <1>6, <1>9, <3>0, <3>1, <3>2, <3>3
    <3>4. CASE t # t0
      <4>1. page.override[t] # Nobody /\ (\A d \in Calls : ~Moved(page, d, t)) => page.override[t] = item[t].status
        BY <3>0 DEF BoardInv, CardsAgree
      <4>2. (\A d \in Calls : ~Moved(page', d, t)) => \A d \in Calls : ~Moved(page, d, t)
        BY <1>5, <1>11, <3>4
      <4> QED BY <1>4, <1>9, <3>1, <3>2, <3>4, <4>1, <4>2
    <3> QED BY <3>3, <3>4
  <2> QED BY <2>1, <2>2, <2>3 DEF CardsAgree
<1>13. AnswersPast(page', version')
  <2>1. version \in Nat /\ AnswersPast(pg, version)
    BY <1>7 DEF BoardInv, ServerTypeOK, AnswersPast, SameLoads, SameCalls
  <2>2. page'.calls[c].at <= version
    BY <1>8, <2>1, NoCallType
  <2> QED BY <1>2, <1>8, <2>1, <2>2, CallPast
<1>14. CallsNamed(page')
  BY <1>8, <1>9, NoCallType DEF BoardInv, CallsNamed
<1>15. LoadsFresh(page')
  BY <1>7, <1>8, LoadsKept DEF BoardInv
<1>16. ServerTypeOK' /\ FormOK(page'.form)
  BY <1>2, <1>7, <1>8 DEF BoardInv, ServerTypeOK, SameForm
<1> QED BY <1>2, <1>8, <1>12, <1>13, <1>14, <1>15, <1>16 DEF BoardInv

-----------------------------------------------------------------------------
(* The other user, and the page coming and going.                           *)

LEMMA OthersKeep ==
  ASSUME BoardInv, Others
  PROVE  BoardInv'
<1>0. page \in Pages /\ version \in Nat
  BY DEF BoardInv, ServerTypeOK
<1>1. PICK X \in SUBSET Tasks :
        /\ page.crossed \subseteq X /\ page' = [page EXCEPT !.crossed = X]
        /\ ServerTypeOK' /\ version' = version + 1 /\ ItemsKept(item, item', X)
  <2>1. CASE OthersChange /\ UNCHANGED page
    <3>1. ServerTypeOK' /\ version' = version + 1 /\ ItemsKept(item, item', page.crossed)
      <4>1. You \in People /\ {Me} \in SUBSET People
        BY DEF People
      <4> QED BY <2>1, <4>1, ServerChanges DEF OthersChange
    <3>2. page = [page EXCEPT !.crossed = page.crossed] /\ page.crossed \in SUBSET Tasks
      BY <1>0 DEF Pages
    <3> QED BY <2>1, <3>1, <3>2
  <2>2. ASSUME NEW t \in Tasks, NEW s \in Statuses, MayUse(t, You), updateStatus(t, s),
               page' = [page EXCEPT !.crossed = @ \cup {t}]
        PROVE  /\ page.crossed \cup {t} \in SUBSET Tasks
               /\ page' = [page EXCEPT !.crossed = page.crossed \cup {t}]
               /\ ServerTypeOK' /\ version' = version + 1 /\ ItemsKept(item, item', page.crossed \cup {t})
    <3>1. t \in page.crossed \cup {t} /\ You \in People
      BY DEF People
    <3>2. page.crossed \cup {t} \in SUBSET Tasks
      BY <1>0 DEF Pages
    <3> QED BY <2>2, <3>1, <3>2, ServerChanges
  <2> QED BY <2>1, <2>2 DEF Others
<1>2. /\ page' \in Pages /\ page'.crossed = X /\ page'.override = page.override
      /\ SameCalls(page, page') /\ SameLoads(page, page') /\ SameForm(page, page')
  BY <1>0, <1>1 DEF Pages, SameCalls, SameLoads, SameForm
<1>3. CardsAgree(page', item') /\ CallsNamed(page')
  <2>1. MovesKept(page, page') /\ CallsNamed(page')
    BY <1>2, CallsSame DEF BoardInv
  <2> QED BY <1>0, <1>1, <1>2, <2>1, CardsKept DEF BoardInv
<1>4. LoadsFresh(page') /\ FormOK(page'.form)
  <2>1. LoadsFresh(page')
    BY <1>2, LoadsKept DEF BoardInv
  <2> QED BY <1>2, <2>1 DEF BoardInv, SameForm
<1>5. AnswersPast(page', version')
  <2>1. \A n \in Nat : n <= version => n <= version'
    BY <1>0, <1>1
  <2>2. /\ \A l \in page.loads : l.board.at \in Nat /\ l.loose.at \in Nat
        /\ page.shown.board.at \in Nat /\ page.shown.loose.at \in Nat /\ page.own \in Nat
        /\ \A d \in Calls : page.calls[d].at \in Nat
    BY <1>0 DEF Pages, Loads, Snapshots, CallStates
  <2> QED BY <1>2, <2>1, <2>2 DEF BoardInv, AnswersPast, ReadBefore, SameLoads, SameCalls
<1> QED BY <1>1, <1>2, <1>3, <1>4, <1>5 DEF BoardInv

LEMMA NoPageType ==
  /\ NoPage \in Pages /\ NoPage.loads = {} /\ NoPage.shown = FreshLoad /\ NoPage.own = 0
  /\ NoPage.form = ClosedForm /\ NoPage.crossed = {}
  /\ \A c \in Calls : NoPage.calls[c] = NoCall
  /\ \A t \in Tasks : NoPage.override[t] = Nobody
<1>1. /\ [t \in Tasks |-> Nobody] \in [Tasks -> Statuses \cup {Nobody}]
      /\ [c \in Calls |-> NoCall] \in [Calls -> CallStates]
      /\ [i \in Calls |-> NoList] \in [Calls -> ListStates]
  BY NoCallType, NoListsType
<1>2. NoPage \in Pages
  BY <1>1, FreshLoadType, ClosedFormOK, NoListsType DEF NoPage, Pages
<1> QED BY <1>2 DEF NoPage

LEMMA NewPageType ==
  /\ NewPage \in Pages /\ NewPage.loads = {FreshLoad} /\ NewPage.shown = FreshLoad /\ NewPage.own = 0
  /\ NewPage.form = ClosedForm
  /\ NewPage.calls = NoPage.calls /\ NewPage.override = NoPage.override
<1> DEFINE x == [NoPage.lists[1] EXCEPT !.state = "asked"]
           pg == [NoPage EXCEPT !.lists[1] = x]
<1>1. NoPage.lists[1] \in ListStates /\ 1 \in Calls
  BY NoPageType DEF Pages, Calls
<1>2. x \in ListStates
  BY <1>1 DEF ListStates
<1> HIDE DEF x
<1>3. /\ pg \in Pages /\ pg.shown = NoPage.shown /\ pg.own = NoPage.own /\ pg.form = NoPage.form
      /\ pg.calls = NoPage.calls /\ pg.override = NoPage.override
  BY <1>1, <1>2, NoPageType DEF Pages
<1>4. NewPage = [pg EXCEPT !.loads = {FreshLoad}, !.listing = TRUE]
  BY <1>1, NoPageType DEF NewPage, Pages, x
<1> HIDE DEF pg
<1> QED BY <1>3, <1>4, NoPageType, FreshLoadType DEF Pages

\* A page that has just been opened, and no page.
LEMMA PageTurns ==
  ASSUME ServerTypeOK, NEW pg \in {NoPage, NewPage}
  PROVE  /\ pg \in Pages /\ LoadsFresh(pg) /\ AnswersPast(pg, version) /\ CallsNamed(pg)
         /\ CardsAgree(pg, item) /\ FormOK(pg.form)
<1>1. /\ pg \in Pages /\ pg.loads \subseteq {FreshLoad} /\ pg.shown = FreshLoad /\ pg.own = 0
      /\ pg.form = ClosedForm /\ \A c \in Calls : pg.calls[c] = NoCall
      /\ \A t \in Tasks : pg.override[t] = Nobody
  BY NoPageType, NewPageType
<1>2. version \in Nat /\ \A n \in Nat : 0 <= n
  BY DEF ServerTypeOK
<1>3. LoadsFresh(pg)
  BY <1>1, <1>2, FreshLoadType DEF LoadsFresh, ReadAfter
<1>4. AnswersPast(pg, version)
  BY <1>1, <1>2, FreshLoadType, NoCallType DEF AnswersPast, ReadBefore
<1>5. CardsAgree(pg, item) /\ CallsNamed(pg)
  BY <1>1, NoCallType DEF CardsAgree, Moved, Moves, CallsNamed
<1> QED BY <1>1, <1>3, <1>4, <1>5, ClosedFormOK

LEMMA PageTurnsKeep ==
  ASSUME BoardInv, UNCHANGED serverVars, page' \in {page, NoPage, NewPage}
  PROVE  BoardInv'
<1>1. UNCHANGED <<item, members, version>> /\ ServerTypeOK
  BY DEF serverVars, BoardInv
<1>2. /\ page' \in Pages /\ LoadsFresh(page') /\ AnswersPast(page', version) /\ CallsNamed(page')
      /\ CardsAgree(page', item) /\ FormOK(page'.form)
  BY <1>1, PageTurns DEF BoardInv
<1> QED BY <1>1, <1>2 DEF BoardInv, ServerTypeOK

LEMMA BoardInvInit == BoardInit => BoardInv
<1> SUFFICES ASSUME BoardInit PROVE BoardInv
  OBVIOUS
<1> DEFINE p == CHOOSE x \in Projects : TRUE
           t == CHOOSE x \in Tasks : TRUE
           task == [Unborn EXCEPT !.life = "live"]
           shared == [task EXCEPT !.owner = You, !.project = p]
           Items == [life : Lives, owner : People \cup {Nobody},
                     project : Projects \cup {Nobody}, status : Statuses]
<1>1. p \in Projects
  BY ServerAssumed
<1>2. Unborn \in Items
  BY ServerAssumed DEF Unborn, Lives
<1>3. task \in Items
  BY <1>2 DEF Lives
<1>4. shared \in Items
  <2> HIDE DEF task
  <2> QED BY <1>1, <1>3 DEF People
<1>5. item \in {[[x \in Tasks |-> Unborn] EXCEPT ![t] = task], [[x \in Tasks |-> Unborn] EXCEPT ![t] = shared]}
      /\ members = [NoProjects EXCEPT ![p] = People] /\ page = NoPage /\ version = 0
  BY DEF BoardInit
<1> HIDE DEF p, t, task, shared, Items
<1>6. item \in [Tasks -> Items]
  <2>1. [x \in Tasks |-> Unborn] \in [Tasks -> Items]
    BY <1>2
  <2> QED BY <1>3, <1>4, <1>5, <2>1
<1>7. members \in [Projects -> SUBSET People]
  BY <1>5, NoListsType DEF MemberLists
<1>8. ServerTypeOK
  BY <1>5, <1>6, <1>7 DEF ServerTypeOK, Items
<1> QED BY <1>5, <1>8, PageTurns DEF BoardInv

LEMMA BoardStepKeeps == BoardInv /\ BoardStep => BoardInv'
<1> SUFFICES ASSUME BoardInv, BoardStep PROVE BoardInv'
  OBVIOUS
<1>1. ASSUME NEW l \in page.loads, getForUser(l) \/ getUnassigned(l) \/ Loaded(l) \/ LoadFails(l)
      PROVE  BoardInv'
  BY <1>1, GetsKeep, LoadedKeeps, LoadFailsKeeps
<1>2. ASSUME NEW c \in Calls, Accept(c) \/ AcceptTask(c) \/ AcceptMember(c) \/ Refuse(c) \/ CallFails(c)
      PROVE  BoardInv'
  BY <1>2, AcceptKeeps, AcceptTaskKeeps, AcceptMemberKeeps, RefuseKeeps, CallFailsKeeps
<1>3. ASSUME NEW c \in Calls,
             \/ moveAnswered(c) \/ changeAnswered(c) \/ attachAnswered(c) \/ claimRefused(c)
             \/ otherRefused(c) \/ createAnswered(c) \/ memberAdded(c) \/ projectRemoved(c)
             \/ \E i \in Calls : handleProjectCreated(c, i)
      PROVE  BoardInv'
  BY <1>3, MoveAnsweredKeeps, ChangeAnsweredKeeps, PlainAnswerKeeps, CreateAnsweredKeeps
<1>4. ASSUME NEW c \in Calls,
             \/ addProject(c) \/ handleSubmit(c)
             \/ \E p \in Projects : handleAddMember(c, p) \/ handleDeleteProject(c, p)
             \/ \E t \in Tasks :
                  \/ handleDeleteItem(c, t) \/ \E s \in Statuses : moveTask(c, t, s)
                  \/ \E p \in Projects, u \in People : onClaim(c, t, p, u)
      PROVE  BoardInv'
  <2>1. CASE \E t \in Tasks, s \in Statuses : moveTask(c, t, s)
    BY <2>1, MoveTaskKeeps
  <2> QED BY <1>4, <2>1, OtherGesturesKeep
<1>5. CASE \E i \in Calls : listProjects(i) \/ setProjects(i) \/ ListFails(i) \/ retryProjects(i)
  BY <1>5, ListsKeep
<1>6. CASE \/ openForm \/ formLoaded \/ formLoadFails \/ handleCancel
           \/ \E p \in Projects : chooseProject(p)
           \/ \E u \in People : chooseAssignee(u)
  BY <1>6, FormKeeps
<1>7. CASE retryTasks \/ Others
  BY <1>7, RetryTasksKeeps, OthersKeep
<1> QED BY <1>1, <1>2, <1>3, <1>4, <1>5, <1>6, <1>7 DEF BoardStep

-----------------------------------------------------------------------------
(* The session and the bell.                                                *)

LEMMA ActsAndFaults ==
  ASSUME SessionTypeOK, Act \/ Fault
  PROVE  spent' \in [gestures : 0..MaxGestures, faults : 0..MaxFaults]
<1>1. MaxGestures \in Nat /\ MaxFaults \in Nat
  BY ClientAssumption DEF ClientAssumption
<1>2. spent \in [gestures : 0..MaxGestures, faults : 0..MaxFaults]
  BY DEF SessionTypeOK
<1>3. CASE Act
  <2>1. spent.gestures + 1 \in 0..MaxGestures
    BY <1>1, <1>2, <1>3 DEF Act
  <2> QED BY <1>2, <1>3, <2>1 DEF Act
<1>4. CASE Fault
  <2>1. spent.faults + 1 \in 0..MaxFaults
    BY <1>1, <1>2, <1>4 DEF Fault
  <2> QED BY <1>2, <1>4, <2>1 DEF Fault
<1> QED BY <1>3, <1>4

LEMMA SessionKept ==
  ASSUME SessionTypeOK, UNCHANGED sessionVars \/ (Idle /\ (Act \/ Fault \/ UNCHANGED spent))
  PROVE  SessionTypeOK'
  BY ActsAndFaults DEF SessionTypeOK, sessionVars, Idle

LEMMA SessionStepKeeps ==
  ASSUME SessionTypeOK, SessionStep
  PROVE  SessionTypeOK'
<1>1. CASE meFails \/ retry \/ signInFails \/ logout \/ logoutFails \/ SessionEnds
  BY <1>1, ActsAndFaults
     DEF SessionTypeOK, meFails, retry, signInFails, logout, logoutFails, SessionEnds, Auths, Strays
<1>2. CASE Enter
  BY <1>2, ActsAndFaults DEF SessionTypeOK, Enter, meAnswered, signIn, Auths, Strays
<1>3. CASE Unauthenticated \/ logoutAnswered
  BY <1>3 DEF SessionTypeOK, Unauthenticated, logoutAnswered, Leave, SignedOut, Auths, Strays
<1>4. CASE StrayAnswer
  BY <1>4 DEF SessionTypeOK, StrayAnswer, Leave, SignedOut, Auths, Strays
<1> QED BY <1>1, <1>2, <1>3, <1>4 DEF SessionStep

PollStates == [state : {"none", "asked", "listed", "counted", "answered"},
               newest : 0..MaxNotes, read : BOOLEAN, unread : 0..MaxNotes]

\* The part of BellInv that is about the database and the announcements.
NotesOK ==
  /\ notes \in 0..MaxNotes /\ readUpTo \in 0..notes
  /\ newestSeen \in 0..MaxNotes \cup {None}
  /\ announced \subseteq 1..notes

LEMMA BellParts ==
  BellInv <=> /\ NotesOK /\ feed \in Feeds /\ polls \in [Polls -> PollStates] /\ marking \in BOOLEAN
              /\ \A p \in Polls : polls[p].newest <= notes
  BY DEF BellInv, BellTypeOK, NotesOK, PollStates

LEMMA BellPartsPrime ==
  BellInv' <=> /\ NotesOK' /\ feed' \in Feeds /\ polls' \in [Polls -> PollStates] /\ marking' \in BOOLEAN
               /\ \A p \in Polls : polls'[p].newest <= notes'
  BY DEF BellInv, BellTypeOK, NotesOK, PollStates

LEMMA NotesAssumed == MaxNotes \in Nat /\ 0 \in 0..MaxNotes
  BY BellAssumption DEF BellAssumption

LEMMA NothingPolled ==
  /\ EmptyFeed \in Feeds /\ NoPoll \in PollStates /\ NoPoll.newest = 0
  /\ [p \in Polls |-> NoPoll] \in [Polls -> PollStates]
  BY NotesAssumed DEF EmptyFeed, Feed, Feeds, NoPoll, PollStates

\* A step of the polls that leaves the notifications alone.
LEMMA PollSet ==
  ASSUME BellInv, NEW p \in Polls, NEW x \in PollStates, polls' = [polls EXCEPT ![p] = x],
         x.newest <= notes, UNCHANGED noteVars,
         newestSeen' \in 0..MaxNotes \cup {None}, announced' \subseteq 1..notes,
         feed' \in Feeds, marking' \in BOOLEAN
  PROVE  BellInv'
<1>1. /\ polls' \in [Polls -> PollStates] /\ polls'[p] = x
      /\ \A q \in Polls \ {p} : polls'[q] = polls[q]
  BY BellParts
<1>2. UNCHANGED <<notes, readUpTo>>
  BY DEF noteVars
<1>3. NotesOK'
  BY <1>2, BellParts DEF NotesOK
<1>4. \A q \in Polls : polls'[q].newest <= notes'
  BY <1>1, <1>2, BellParts
<1> QED BY <1>1, <1>3, <1>4, BellPartsPrime

LEMMA BellStepKeeps ==
  ASSUME BellInv, BellStep
  PROVE  BellInv'
<1>0. /\ NotesOK /\ feed \in Feeds /\ polls \in [Polls -> PollStates] /\ marking \in BOOLEAN
      /\ \A p \in Polls : polls[p].newest <= notes
  BY BellParts
<1>1. ASSUME NEW p \in Polls, Poll(p)
      PROVE  BellInv'
  <2> DEFINE x == [polls[p] EXCEPT !.state = "asked"]
  <2>1. x \in PollStates /\ x.newest = polls[p].newest
    BY <1>0 DEF PollStates
  <2>2. polls' = [polls EXCEPT ![p] = x]
    BY <1>0, <1>1 DEF Poll
  <2> HIDE DEF x
  <2>3. UNCHANGED <<noteVars, feed, newestSeen, announced, marking>>
    BY <1>1 DEF Poll
  <2> QED BY <1>0, <2>1, <2>2, <2>3, PollSet DEF NotesOK
<1>2. ASSUME NEW p \in Polls, NEW result \in PollStates, NEW mine \in {"listed", "counted"}, NEW other,
             Queried(p, mine, other, result), result.newest <= notes
      PROVE  BellInv'
  <2> DEFINE to == IF polls[p].state = "asked" THEN mine ELSE "answered"
             x == [result EXCEPT !.state = to]
  <2>1. to \in {"listed", "counted", "answered"}
    OBVIOUS
  <2>2. polls' = [polls EXCEPT ![p] = x] /\ UNCHANGED <<noteVars, feed, newestSeen, announced, marking>>
    BY <1>2 DEF Queried
  <2> HIDE DEF to
  <2>3. x \in PollStates /\ x.newest = result.newest
    BY <2>1 DEF PollStates
  <2> HIDE DEF x
  <2> QED BY <1>0, <1>2, <2>2, <2>3, PollSet DEF NotesOK
<1>3. ASSUME NEW p \in Polls, listRecent(p) \/ countUnread(p)
      PROVE  BellInv'
  <2> DEFINE n == notes - readUpTo
             r == notes <= readUpTo
             list == [polls[p] EXCEPT !.newest = notes, !.read = r]
             count == [polls[p] EXCEPT !.unread = n]
  <2>1. n \in 0..MaxNotes /\ r \in BOOLEAN /\ notes \in 0..MaxNotes /\ notes <= notes
    BY <1>0, NotesAssumed DEF NotesOK
  <2>2. \/ Queried(p, "listed", "counted", list)
        \/ Queried(p, "counted", "listed", count)
    BY <1>3 DEF listRecent, countUnread
  <2> HIDE DEF n, r
  <2>3. list \in PollStates /\ list.newest = notes
    BY <1>0, <2>1 DEF PollStates
  <2>4. count \in PollStates /\ count.newest = polls[p].newest
    BY <1>0, <2>1 DEF PollStates
  <2> HIDE DEF list, count
  <2> QED BY <1>0, <1>2, <2>1, <2>2, <2>3, <2>4
<1>4. ASSUME NEW p \in Polls, load(p)
      PROVE  BellInv'
  <2> DEFINE next == Feed(polls[p].newest, polls[p].read, polls[p].unread)
  <2>1. next \in Feeds /\ next.newest = polls[p].newest
    BY <1>0 DEF Feed, Feeds, PollStates
  <2>2. /\ announced' = IF newArrival(newestSeen, next) THEN announced \cup {next.newest} ELSE announced
        /\ newestSeen' = next.newest /\ feed' = next /\ polls' = [polls EXCEPT ![p] = NoPoll]
        /\ UNCHANGED <<noteVars, marking>>
    BY <1>4 DEF load
  <2> HIDE DEF next
  <2>3. next.newest \in 0..MaxNotes /\ next.newest <= notes /\ notes \in Nat
    BY <1>0, <2>1, NotesAssumed DEF Feeds, NotesOK
  <2>4. newArrival(newestSeen, next) => next.newest \in 1..notes
    <3>1. newArrival(newestSeen, next) => next.newest # 0
      BY DEF newArrival
    <3> QED BY <2>3, <3>1
  <2>5. announced' \subseteq 1..notes
    BY <1>0, <2>2, <2>4 DEF NotesOK
  <2>6. NoPoll.newest <= notes
    BY <2>3, NothingPolled
  <2> QED BY <1>0, <2>1, <2>2, <2>3, <2>5, <2>6, NothingPolled, PollSet
<1>5. ASSUME NEW p \in Polls, PollFails(p)
      PROVE  BellInv'
  <2>1. NoPoll.newest <= notes
    BY <1>0, NotesAssumed, NothingPolled DEF NotesOK
  <2> QED BY <1>0, <1>5, <2>1, NothingPolled, PollSet DEF PollFails, NotesOK
<1>6. CASE Arrive
  <2>1. notes' = notes + 1 /\ notes < MaxNotes
        /\ UNCHANGED <<readUpTo, feed, newestSeen, announced, polls, marking>>
    BY <1>6 DEF Arrive
  <2>2. notes \in Nat /\ MaxNotes \in Nat /\ \A p \in Polls : polls[p].newest \in Nat
    BY <1>0, NotesAssumed DEF NotesOK, PollStates
  <2>3. notes' \in 0..MaxNotes /\ 0..notes \subseteq 0..notes' /\ 1..notes \subseteq 1..notes'
    BY <2>1, <2>2
  <2>4. \A p \in Polls : polls'[p].newest <= notes'
    <3>1. \A a \in Nat : a <= notes => a <= notes + 1
      BY <2>2
    <3> QED BY <1>0, <2>1, <2>2, <3>1
  <2> QED BY <1>0, <2>1, <2>3, <2>4, BellPartsPrime DEF NotesOK
<1>7. CASE open
  <2>1. UNCHANGED <<notes, readUpTo, newestSeen, announced, polls>> /\ feed' = [feed EXCEPT !.unread = 0]
        /\ marking' = TRUE
    BY <1>7 DEF open, noteVars
  <2>2. feed' \in Feeds
    BY <1>0, <2>1, NotesAssumed DEF Feeds
  <2> QED BY <1>0, <2>1, <2>2, BellPartsPrime DEF NotesOK
<1>8. CASE markAllRead
  <2>1. UNCHANGED <<notes, feed, newestSeen, announced, polls>> /\ readUpTo' = notes /\ marking' = FALSE
    BY <1>8 DEF markAllRead
  <2>2. notes \in 0..notes
    BY <1>0 DEF NotesOK
  <2> QED BY <1>0, <2>1, <2>2, BellPartsPrime DEF NotesOK
<1>9. CASE MarkFails
  <2>1. UNCHANGED <<notes, readUpTo, feed, newestSeen, announced, polls>> /\ marking' = FALSE
    BY <1>9 DEF MarkFails, noteVars
  <2> QED BY <1>0, <2>1, BellPartsPrime DEF NotesOK
<1> QED BY <1>1, <1>2, <1>3, <1>4, <1>5, <1>6, <1>7, <1>8, <1>9 DEF BellStep, BellWorks

LEMMA BellUnmountedKeeps == BellInv /\ BellUnmounted => BellInv'
<1> SUFFICES ASSUME BellInv, BellUnmounted PROVE BellInv'
  OBVIOUS
<1>1. /\ feed' = EmptyFeed /\ newestSeen' = None /\ announced' = {} /\ polls' = [p \in Polls |-> NoPoll]
      /\ marking' = FALSE /\ UNCHANGED <<notes, readUpTo>>
  BY DEF BellUnmounted, noteVars
<1>2. NotesOK /\ notes \in Nat /\ 0 <= notes
  BY BellParts, NotesAssumed DEF NotesOK
<1>3. NotesOK'
  BY <1>1, <1>2 DEF NotesOK
<1>4. \A p \in Polls : polls'[p].newest <= notes'
  BY <1>1, <1>2, NothingPolled
<1> QED BY <1>1, <1>3, <1>4, NothingPolled, BellPartsPrime

LEMMA BellInvInit == BellInit => BellInv
<1> SUFFICES ASSUME BellInit PROVE BellInv
  OBVIOUS
<1>1. NotesOK
  BY NotesAssumed DEF BellInit, NotesOK
<1>2. \A p \in Polls : polls[p].newest <= notes
  <2>1. 0 <= 0
    OBVIOUS
  <2> QED BY <2>1, NothingPolled DEF BellInit
<1> QED BY <1>1, <1>2, NothingPolled, BellParts DEF BellInit

-----------------------------------------------------------------------------
(* The client.                                                              *)

LEMMA ClientInvInit == ClientInit => ClientInv
<1> SUFFICES ASSUME ClientInit PROVE ClientInv
  OBVIOUS
<1>1. SessionTypeOK
  <2>1. 0 \in 0..MaxGestures /\ 0 \in 0..MaxFaults
    BY ClientAssumption DEF ClientAssumption
  <2> QED BY <2>1 DEF ClientInit, SessionInit, SessionTypeOK, Auths, Strays
<1> QED BY <1>1, BellInvInit, BoardInvInit DEF ClientInit, ClientInv

LEMMA ClientInvNext == ClientInv /\ [ClientNext]_clientVars => ClientInv'
<1> SUFFICES ASSUME ClientInv, [ClientNext]_clientVars PROVE ClientInv'
  OBVIOUS
<1>0. SessionTypeOK /\ BellInv /\ BoardInv
  BY DEF ClientInv
<1>1. ASSUME UNCHANGED bellVars PROVE BellInv'
  BY <1>0, <1>1, BellParts, BellPartsPrime DEF bellVars, NotesOK
<1>2. ASSUME UNCHANGED <<serverVars, page>> PROVE BoardInv'
  BY <1>0, <1>2, PageTurnsKeep
<1>3. CASE SessionStep
  <2>1. BellInv'
    <3>1. UNCHANGED bellVars \/ BellUnmounted
      BY <1>3 DEF SessionStep, Elsewhere, Enter, Unauthenticated, logoutAnswered, StrayAnswer, Leave
    <3> QED BY <1>0, <1>1, <3>1, BellUnmountedKeeps
  <2>2. UNCHANGED serverVars /\ page' \in {page, NoPage, NewPage}
    BY <1>3 DEF SessionStep, Elsewhere, Enter, Unauthenticated, logoutAnswered, StrayAnswer, Leave
  <2> QED BY <1>0, <1>3, <2>1, <2>2, SessionStepKeeps, PageTurnsKeep DEF ClientInv
<1>4. CASE BellStep /\ UNCHANGED <<serverVars, page>>
  <2>1. UNCHANGED sessionVars \/ (Idle /\ (Act \/ Fault \/ UNCHANGED spent))
    BY <1>4 DEF BellStep, BellWorks, Poll, listRecent, countUnread, Queried, load, markAllRead, Arrive, open,
       MarkFails, PollFails
  <2> QED BY <1>0, <1>2, <1>4, <2>1, SessionKept, BellStepKeeps DEF ClientInv
<1>5. CASE BoardStep /\ UNCHANGED bellVars
  <2>1. UNCHANGED sessionVars \/ (Idle /\ (Act \/ Fault \/ UNCHANGED spent))
    BY <1>5 DEF BoardStep, getForUser, getUnassigned, Loaded, LoadFails, listProjects, setProjects, ListFails,
       retryProjects, retryTasks, openForm, formLoaded, formLoadFails, handleCancel, chooseProject,
       chooseAssignee, Accept, Handled, AcceptTask, AcceptMember, Refuse, CallFails, moveAnswered,
       changeAnswered, attachAnswered, claimRefused, otherRefused, createAnswered, memberAdded,
       projectRemoved, Answered, addProject, handleSubmit, handleProjectCreated, handleAddMember,
       handleDeleteProject, handleDeleteItem, moveTask, onClaim, Others, Local, Gesture, Failure
  <2> QED BY <1>0, <1>1, <1>5, <2>1, SessionKept, BoardStepKeeps DEF ClientInv
<1>6. CASE UNCHANGED clientVars
  <2>1. UNCHANGED sessionVars /\ UNCHANGED bellVars /\ UNCHANGED <<serverVars, page>>
    BY <1>6 DEF clientVars
  <2> QED BY <1>0, <1>1, <1>2, <2>1, SessionKept DEF ClientInv
<1> QED BY <1>3, <1>4, <1>5, <1>6 DEF ClientNext

LEMMA ClientInvariance == ClientSpec => []ClientInv
  BY ClientInvInit, ClientInvNext, PTL DEF ClientSpec

\* The session, the bell, the server and the page keep their types; one load
\* of the task lists at most is under way, and nothing read is from the future.
THEOREM ClientTypes == ClientSpec => []ClientTypeOK
<1>1. ASSUME BoardInv PROVE BoardTypeOK
  <2>0. page \in Pages /\ version \in Nat
    BY <1>1 DEF BoardInv, ServerTypeOK
  <2>1. Cardinality(page.loads) <= 1
    <3>1. CASE page.loads = {}
      BY <3>1, FS_EmptySet
    <3>2. CASE \E l \in page.loads : page.loads = {l}
      <4>1. PICK l : page.loads = {l}
        BY <3>2
      <4>2. Cardinality(page.loads) = 1
        BY <4>1, FS_Singleton
      <4> QED BY <4>2
    <3> QED BY <1>1, <3>1, <3>2 DEF BoardInv, LoadsFresh
  <2>2. page.shown \in Loads
    BY <2>0 DEF Pages
  <2>3. /\ page.shown.board.of \subseteq Tasks /\ page.shown.loose.of \subseteq Tasks
        /\ page.shown.board.at \in Nat /\ page.shown.loose.at \in Nat
    BY <2>2 DEF Loads, Snapshots
  <2>4. page.own \in Nat /\ page.own <= version
        /\ page.shown.board.at <= version /\ page.shown.loose.at <= version
    BY <1>1, <2>0 DEF Pages, BoardInv, AnswersPast, ReadBefore
  <2>5. {page.shown.board.at, page.shown.loose.at, page.own} \subseteq 0..version
    BY <2>0, <2>3, <2>4
  <2>6. page.override \in [Tasks -> Statuses \cup {Nobody}] /\ page.projects \in MemberLists
        /\ page.form \in Forms /\ \A c \in Calls : page.calls[c] \in CallStates
    BY <2>0 DEF Pages
  <2>7. page.form.of \in MemberLists /\ \A c \in Calls : page.calls[c].phase \in {"none", "asked", "done", "refused"}
    BY <2>6 DEF Forms, CallStates
  <2> QED BY <1>1, <2>1, <2>3, <2>5, <2>6, <2>7 DEF BoardInv, BoardTypeOK, MemberLists
<1>2. ClientInv => ClientTypeOK
  BY <1>1 DEF ClientInv, ClientTypeOK, BellInv
<1> QED BY <1>2, ClientInvariance, PTL

\* What the page shows once it is at rest is from after the last change that made
\* it load again: whatever was read before that is aborted or replaced.
THEOREM UsersReadTheirWrites == ClientSpec => []ReadYourWrites
<1>1. ClientInv => ReadYourWrites
  BY DEF ClientInv, BoardInv, LoadsFresh, ReadYourWrites, Loading
<1> QED BY <1>1, ClientInvariance, PTL

\* The status a card was moved to is the server's, in whatever order the calls
\* and the loads are answered.
THEOREM MovedCardsAgree == ClientSpec => []OverrideAgrees
<1>1. ClientInv => OverrideAgrees
  BY DEF ClientInv, BoardInv, CardsAgree, OverrideAgrees, Moved, Moves
<1> QED BY <1>1, ClientInvariance, PTL

\* The form never submits a task for somebody outside the chosen project.
THEOREM FormStaysConsistent == ClientSpec => []AssigneeBelongs
<1>1. ClientInv => AssigneeBelongs
  BY DEF ClientInv, BoardInv, FormOK, AssigneeBelongs
<1> QED BY <1>1, ClientInvariance, PTL

=============================================================================
