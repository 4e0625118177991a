# Formal models of the kanban application

TLA+ modules, TLC configurations and TLAPS proofs for the application in this
repository: an Express API and a worker process on one MySQL database and one
RabbitMQ broker, with a React client. The modules follow the code under
`src/`; the documents under `docs/` are only used for what they claim.

## The system

| Component | State it keeps | Operations | Talks to |
| --- | --- | --- | --- |
| Tasks (`modules/tasks`) | `todo_items`, `outbox_events` | create, update, claim, remove | projects (permissions), outbox (same transaction) |
| Outbox relay (`infrastructure/outbox`) | `outbox_events.published_at`, a timer per process | tick: claim a batch, publish, mark | publisher, MySQL |
| Publisher and topology (`infrastructure/messaging`) | a confirm channel, a pending one; exchange, queue and dead-letter queue at the broker | publish with confirmation and timeout | broker |
| Worker (`workers/notifications`) | `processed_events`, `notifications`, deliveries in progress, readiness | deliver, handle, acknowledge, give back | broker, MySQL |
| E-mail relay (`emailRelay.ts`) | `notifications.sent_at` | tick: claim, send, mark | SMTP, MySQL |
| Projects (`modules/projects`) | `projects`, `project_members`, `project_items` | create, rename, delete, add and remove members and tasks | tasks, users |
| Accounts (`modules/auth`) | `users`, `sessions`, attempt counters in memory | register, sign in, sign out, delete the account, purge | projects, tasks, notifications (deletion) |
| Notification API (`modules/notifications`) | `notifications.read_at` | list, count, mark read | client bell |
| Client (`client/`) | who is signed in; task lists and moved cards; projects and forms; polled notifications | sign in and out, move, delete, claim and add tasks, add members, delete projects, poll, mark read | API |
| Legacy adapter (`persistence/mysql.ts`) | `todo_items` without keys | store, update, remove | MySQL |
| SQLite merge (`scripts/mergeSqliteIntoMysql`) | a plan; `todo_items_merge_conflicts` | read both, plan, write, verify, commit | SQLite file, MySQL |
| Other scripts | – | migrate, deploy | MySQL, Docker |

What is hard in it, by component, with the property that would notice:

- **Tasks.** Two requests that change the same task overlap inside their
  transactions; the event must follow the *transition* to completed, appear
  with the change or not at all, and `completed` must follow `status`.
- **Outbox and broker.** Publishing happens inside the claiming transaction:
  every failure after the broker took a message makes a duplicate, never a
  loss. Several relays poll side by side.
- **Worker.** At-least-once delivery, two handlers with the same event, a
  channel that dies under a running handler, a COMMIT whose answer is lost.
- **Projects and accounts.** Most operations check in one statement and write
  in another. Only a claim and an account deletion hold locks. Owners, heirs,
  members and assignees may disappear between the two.
- **Accounts and limiters.** A sign-in or a registration awaits a password
  hash between its reads and its write; counters in memory are shared by all
  overlapping requests and forgotten by a restart.
- **E-mail relay.** Mails go out inside the claiming transaction, which also
  holds the recipients' rows; a crash or a lost connection between a mail and
  its mark; addresses that always refuse.
- **Links to the broker.** A connection that amqplib restores by itself, on
  which channels and consumers must be made again; a channel that resolves for
  a publish that has given up; a broker that comes back empty.
- **SQLite merge.** Rows are compared after normalisation and fingerprinted
  before it; the script may be run again, or twice at once, while the
  application writes.
- **Client.** Every answer may be late, lost, or overtaken by another one, and
  may arrive when the session, the lists or the form have moved on.

`PROJECT.json` lists each hazard at its line with the properties that cover
it, and the hazards nothing covers yet.

## Modules

| Module | Models | Based on |
| --- | --- | --- |
| `TaskUpdates` | the task repository; a `PUT`/`PATCH` is `SelectForUpdate`, `WriteRow`, then `Commit` or `Rollback` | `modules/tasks/repository.drizzle.ts`, `completion.ts`, `routes.ts` |
| `NotificationQueue` | the broker: each published copy of an event is unsent, ready, unacked, acked or dead | `topology.ts`, external |
| `OutboxRelay` | any number of relays: `ClaimBatch`, `PublishConfirmed`, `MarkPublished`, and `PublishFails`, `TransactionLost`, `TickDies` | `outboxRepository.drizzle.ts`, `relay.drizzle.ts`, `rabbitmqPublisher.ts` |
| `NotificationWorker` | handler slots: `Deliver`, `InsertProcessed` or `FindDuplicate`, `CommitHandler`, `Acknowledge`, and four ways to fail | `consumer.ts`, `handler.drizzle.ts`, `index.ts` |
| `TaskEvents` | the composition of the four, with fairness | `index.ts` of the API and of the worker |
| `CompletionFeed` | the abstract promise: a completion is recorded once, then applied once or given up, and one given up may be sent again | `docs/architecture.md`, "Guarantees" |
| `ProjectMembership` | projects, memberships, links, claims, task removal and account deletion | `modules/projects`, `taskRepository.claim`, `deleteAccount` |
| `AttemptLimiter` | the sliding window of one key, as operators | `attemptLimiter.ts` |
| `Accounts` | registration, sign-in, sign-out, deletion and purge as overlapping requests on the limiters | `modules/auth` |
| `MailRelay` | any number of e-mail relays, the notifications they mail and the deletion of recipients | `emailRelay.ts`, `deleteAccount`, `handler.drizzle.ts` |
| `Broker` | RabbitMQ as its two clients meet it: up or down, with or without the topology | `topology.ts`, external |
| `PublisherChannel` | the publisher's connection, its confirm channel, the requests for one and the publishes of the relay | `rabbitmqPublisher.ts` |
| `ConsumerChannel` | the worker's recovery hook, its consumer and its readiness | `workers/notifications/index.ts`, `metrics.ts` |
| `BrokerLinks` | both on one broker, with fairness | both processes |
| `SqliteMerge` | the merge: the plan row by row, the transaction around it, other writers | `plan.ts`, `index.ts` of the script, `persistence/mysql.ts` |
| `ClientSession` | what the browser believes of its session, and whether the cookie is still good | `AuthProvider.tsx`, `AuthPage.tsx` |
| `BellClient` | the polls of the bell, the feed of the API, "mark all read" | `NotificationBell.tsx`, `feed.ts`, `modules/notifications` |
| `BoardServer` | the API as the board meets it: what each request does and refuses | `modules/tasks`, `modules/projects` |
| `BoardClient` | the task lists, the board, claims, projects and dialogs | `useTasks.ts`, `TodosPage.tsx`, `AddItem.tsx`, `AddProject.tsx`, `UnassignedTasks.tsx` |
| `WebClient` | the browser: session, bell and board, with the answers that sign out | `RequireAuth.tsx`, `AppLayout.tsx`, `http.ts` |
| `MC...` | the constants' symmetry for TLC | – |
| `..._proofs` | the theorems, one module for each of `TaskUpdates`, `TaskEvents`, `BrokerLinks`, `ProjectMembership`, `Accounts`, `MailRelay`, `SqliteMerge` and `WebClient` | – |

### How state and actions correspond to the code

`TaskUpdates`. `row[t]` is the `status` and `completed` of a `todo_items` row,
`owner[t]` its `user_id`. `outbox[e]` is the committed outbox row with id `e`;
an id drawn by a transaction that is later rolled back is spent, as with
`AUTO_INCREMENT`. `req[r]` is what a request knows between its statements; a
request that is not idle holds the row lock of its `SELECT ... FOR UPDATE`.
Requests that are refused (404, 400) change nothing and are not steps. Names,
deadlines and priorities are one flag of the input, because only "may a member
send this" depends on them. `audience[t]`, the distinct members of the
projects of a task, changes freely here, also while an update is open: the
code locks the caller's membership, the model allows more.

`OutboxRelay` and `NotificationQueue`. A tick is a transaction, so a row it
has claimed is one no other relay sees. `PublishFails` covers the timeout of
`withTimeout`: the broker may or may not have the message. `TransactionLost`
is MySQL dropping the connection of a tick that goes on: the relay stays in
its loop (`cut`), its rows are free for others, and it learns of it in
`MarkFails`, when its UPDATE is refused. A message is a pair
of event and copy; copies are numbered in the order the broker got them. The
order of the queue is not modelled: the handlers run concurrently and nothing
depends on it. `returns` counts deliveries that came back; one more than
`DeliveryLimit` moves the copy to the dead-letter queue.

`NotificationWorker`. A slot is one of the deliveries a worker process may
hold (`prefetch`), in any process. `attached` says whether its channel is
still open: after `ChannelLost` the broker redelivers while the old handler
runs on. The uncommitted row of `processed_events` makes the same INSERT of
another handler wait (`KeyHeld`), the committed one makes it a duplicate.

`ProjectMembership`. Operations of the project service are a `Begin...` step,
which resolves the session and makes the checks, and the write; `addItem` is
three reads and a write, `removeItem` a transaction of two steps. A claim
holds its locks from `BeginClaim` to `Claim`. An account deletion reads its
snapshot in `BeginLeave` and, since nothing it writes is visible before
COMMIT and the rows it has written are locked, the rest is the single step
`Leave`. Row locks appear as guards of the steps that would wait for them.
`Abandon` and `AbortLeave` stand for every error, lock timeout, deadlock
victim and crash. Which remaining member joined first is not modelled: any
other member may be the heir. The initial states include projects and
ownerless linked tasks of earlier releases, which `claim` exists to repair.

`Accounts`. A sign-in is `Login` (the limiters, one synchronous step), `LookUp`,
`Accept` once the password is verified, `OpenSession`; a registration is
`Register`, `Hash`, `Enrol`. `Refuse` ends a request anywhere: a wrong
password, a key, an error. Whether a password is right is a choice, except
that an unknown address never has a right one. Ids and tokens are random in
the code, so each is drawn once here. `expires` and `now` count ticks. An
INSERT that commits while its answer is lost is left out. `wasted` is a
history variable: per client address and moment, how many sign-ins begun at
that moment or later ended without a session. `Recent` filters a log by a
recursive function over its positions, which TLAPS can reason about. `Restart` empties
the limiters and keeps the tables. The routes read the clock once per step.

`MailRelay`. A notification is numbered by `created_at`, one INSERT of a
handler stores one recipient's row. `relay[m]` is the batch a run has claimed,
what it still has to send and what it sent; the run holds the rows and their
recipients' `users` rows until `MarkSent`, unless it is `cut`, as above.
A deletion locks its user first (`BeginDeletion`) and deletes notifications
and user in `CommitDeletion`. The claim skips locked rows, the deletion waits.
`Bouncing` are the addresses the SMTP server always refuses; any other refusal
is a failure of `SendFails`, which may have delivered the mail.

`PublisherChannel`. Channels are numbered within one connection; `open` are
those open at the broker, `channel` the cached one, `requests` the calls of
`createConfirmChannel` that have not settled, also for publishes that gave up.
A lost connection closes its channels and their listeners forget them in the
same step (`DropLink`). The recovery hook is one step, `Setup`: no request for
a channel resolves before it has ended. `dropped` is a history variable.

`ConsumerChannel`. `hook` is how far the recovery hook has come. What the
broker does to a consumer is `ConsumerLost`; the process learns of it in
`ConsumerEvent`. Broker events that travel on a lost connection are lost with
it. `consume` is the broker's answer, `setConsuming` what follows the `await`:
amqplib emits the events of every frame of one read before that, so a
cancellation, a close or the end of the connection may come between the two
(`answered`). `ready` is the gauge and the answer of `GET /health`.

`SqliteMerge`. A row is an id, a name and a boolean; what cannot be stored is
one value per reason. The spellings of a boolean are kept apart, because only
they tell the comparison from the fingerprint. `PlanRow` is one iteration of
`planMerge`; `run[s].read` is what was read from MySQL. An applied run holds
`todo_items` from its locking read to its end, so other writers are guarded by
`HoldsItems`; what it writes is visible at `Commit`. `Verify` reads the tasks
again under the lock and the conflicts with a plain `SELECT`, in the snapshot
of a REPEATABLE READ transaction. That snapshot is fixed by the first
consistent read, which is this `SELECT` or, if MySQL counts it, the query of
`information_schema` before the lock is asked for; the model allows either
(`fixed`, `view`). `RecordedSeen` is what is seen: the snapshot and the run's
own INSERTs, without those that were ignored. The locking read is taken to
exclude every other one; on an empty table InnoDB locks only a gap, which two
runs may share until one of them inserts, and that is left out. `todo_items`
has no key, yet equal rows are one row here: nothing tells them apart.

`ClientSession`, `WebClient`. `auth` is the state of `AuthProvider`, `session`
whether the cookie resolves. A page exists while there is a user; when it is
left, its calls are dropped, except that one answer may still arrive and sign
out whoever is signed in by then (`stray`). Signing in is one step, as the
page shows nothing else meanwhile. `route` is fixed in a behaviour: the home
page with the bell or the board. Bell and board share only the session, so the
bell is left out on the board.

`BellClient`. Notifications are numbered as they arrive and are read up to
`readUpTo`. The list and the count of a poll are two queries that the route
runs at once, so either may read first; the session is resolved before both,
and is taken with the first. Polls are answered in any order.

`BoardClient`. React runs one handler at a time, so a handler up to its
`await`, and what follows the answer, are one step each, together with the
effect a changed state starts. `page.loads` is the load that is not aborted;
`Restarted` aborts it for a new one. Each list carries the version of the
server's data it was read at. `override` is `taskStatuses`. A request takes
effect on the server at once: what happens inside it is `ProjectMembership`'s.
The user owns every project, so the refusals of the service that depend on
ownership do not occur; `BoardServer` keeps the others.

## Runs

| Run | Instance | Question |
| --- | --- | --- |
| `delivery` | 2 tasks, 2 requests, 2 relays with batches of 2, 2 handlers, up to 2 events and 2 failures, 3 in all, delivery limit 1 | does `completed` follow `status`, is an event recorded exactly when a task becomes completed, are claims exclusive, does a duplicate need a rollback, is a member notified at most once and is no published event lost |
| `pipeline_liveness` | 1 event, 2 relays, 2 handlers, 2 failures | does every event settle and the outbox drain; does the pipeline implement `CompletionFeed` |
| `broker_links` | 5 failures of the broker, either connection, a channel, a confirmation or a consumer | is one channel cached and nothing leaked, is nothing sent into a broker without queues, can the gauge go wrong anywhere but before `setConsuming`, do publishing and consuming resume |
| `project_membership` | 2 accounts, 2 projects, 1 task, 2 requests | do foreign keys and locks keep projects, members and claims consistent while accounts are deleted |
| `accounts` | 2 e-mail addresses, 1 client address, 2 requests, 2 accounts, 2 tokens, limits 1, 2 and 1, windows and sessions of 2 ticks, 4 instants | is an address one account's, does a session need its account, do the limiters count what failed or runs |
| `mail_relay` | 2 users, one refusing mail, 3 notifications, 2 relays, batches of 2, 1 failure | is a mail sent at least once, again only after a failure, and never to an account being deleted; does the queue move past refused mails |
| `merge` | files of up to 3 rows out of 5, 3 contents of MySQL, 2 runs by 2 processes, 1 write of the application | does the verification pass unless another run was committed after the snapshot, is a conflict recorded once, does a commit leave no row behind, does a rerun change nothing |
| `web_client` | 1 browser, 2 tasks, 2 projects, another user, 2 gestures, 1 failure or change by others, 2 notifications | do the lists follow the last change they are refreshed for, does a moved card agree with the server, is the assignee a member, does the bell catch up and announce |
| `silent_zombie` (violation) | 1 failure | does a worker that says ready consume, or is it about to hear that it does not |
| `owner_leaves` (violation) | 2 accounts, 1 project, 1 request | is an owner always a member |
| `task_outlives_account` (violation) | 2 accounts, 1 project, 1 request | are personal tasks deleted with their account |
| `merge_spellings` (violation) | the same files, 1 run | does the plan account for every row of the file |

**Bounds.** `MaxEvents` bounds the ids, `MaxFaults` the failures of one
behaviour. Every failure that matters is one of an actor between two of its
steps; two are enough for "published twice, then delivered twice, with the
first handler cut off", two relays and two handlers for every conflict of
locks and keys, which are pairwise. `Copies` is `MaxFaults + 1`, since a copy
is only sent again by a tick after a rolled-back one or by one that replaces
a relay which lost its transaction. The delivery limit of the code is
5; 0 and 1 make the dead-letter queue reachable. Two requests show every
race of the project operations with each other, since each property names at
most two of them and a deletion does not take a request. Two projects are
needed for a task linked twice. In `accounts`, two requests overlap at one
limit, one or two attempts reach every limit, and four instants let an attempt
and a session expire while a request is running. In `mail_relay`, three
notifications and batches of two leave one outside a batch, and one refused
address is fewer than a batch. In `delivery`, `FewEventsOrFaults` leaves out two
events together with two failures: one event with two failures and two events
with one are both there. `OneTaskTravels` lets a second task exist only before
a relay has claimed anything: requests on two tasks draw ids and commit in any
order, while relays and handlers, which see only ids, work on the events of one. In `broker_links` a channel
is only replaced after a failure, so `MaxChannels` above `MaxFaults` is never
met. In `merge`, three rows hold a task, another version of it and a third row
that collides with either; reruns and parallel runs are pairs. In `web_client`
two gestures are two calls in flight, or a change and the move away from it;
one failure is a lost answer, an overtaken poll, the end of the session or a
change by the other user. `Polls` and `Calls` allow two requests of a kind at
once. Deadlock checking is off everywhere: keys are finite and never reused,
and failures, gestures and runs of a script are bounded, so the models stop
once all are used.

**Fairness.** Each relay is weakly fair in its successful steps: the code
reschedules a tick after every outcome, and a tick goes on unless something
fails. Each slot is weakly fair in delivery and its successful steps: the
broker pushes a ready message to a consumer with room. Failures and requests
are not fair. Since failures are bounded, the liveness properties say what
happens once failures stop; they do not say the system survives a broker that
never comes back. An e-mail relay is weakly fair in its run, for the same
reason, and a deletion that has begun ends; whether anything is stored,
deleted or fails is free. `EveryNoteSettles` excludes what the code cannot
promise: a batch full of refused mails blocks the rest. In `broker_links` the
relay publishes again after every outcome, amqplib connects again once the
broker is back, runs the hook and answers on an open connection. A consumer
that is lost while its connection stays up is owed nothing:
`GaugeFollowsConsumer` says that the worker reports it, but for one turn, and
nothing says that it comes back. In
`web_client` the interval keeps polling, a request that was asked is answered
unless it fails, and so is one a page has left behind; the user owes nothing.

### Disagreements found

- **A silent zombie** (`silent_zombie`). The worker sets its gauge after the
  `await` of `channel.consume`. A cancellation or a close that is read together
  with the answer is handled first and overwritten: the connection is up, the
  consumer is gone, the health check passes until the next disconnection.
  `docs/monitoring.md` says the gauge is 0 then. `GaugeFollowsConsumer` shows
  that no other step makes a right gauge wrong.
- **An owner who is not a member** (`owner_leaves`). `removeMember` checks the
  owner first and deletes later; `deleteAccount` reads the heir without a lock
  and writes it later. Interleaved, the heir owns a project they are not in.
  Nobody can then rename or delete it: owners are looked up among members.
- **A task of a deleted account** (`task_outlives_account`). `POST /items`
  inserts for a session that was resolved before the deletion committed;
  `user_id` has no foreign key. The same state follows without any race when a
  project that kept a deleted account's task is deleted later.
- **A row that is neither merged nor recorded** (`merge_spellings`). Of two
  rows of the file that differ only in how they write `completed`, and that
  collide with MySQL, `planMerge` records the first and takes the second for an
  exact duplicate. The comment at the head of `plan.ts` says every row ends up
  somewhere; the verification fingerprints raw rows, misses the second one and
  rolls back, so such a file can never be merged. `NoFalseAlarm` shows that the
  verification lets a file in one spelling pass, except in a run that waited
  for another one.

Some behaviours are reached and are not called wrong, since nothing promises
otherwise: a task attached for an assignee who was removed between check and
write; a task that is created and then not attached; a late 401 that signs out
the next session; a status that hides a later change by somebody else, until
the page is left (`OverrideAgrees` excludes for good a card two of whose
status calls were under way at once). `ReadYourWrites` is about changes the
code refreshes for: accepted changes other than status moves, and claims; a
change whose answer is lost is owed nothing. A merge whose snapshot is older
than the commit of the run it waited for may be rolled back, as it cannot see
what that run recorded; run again, it passes. Whether MySQL fixes a snapshot
that early is not decided here, so this is not called a disagreement.

## Proofs

Every safety property of the passing runs is also a theorem: each invariant,
each action property and the refinement. The theorems hold for arbitrary sets
of tasks, users, requests, relays, slots, addresses, files and scripts, finite
or not, and for arbitrary bounds, under the assumptions named in the modules:
bounds are naturals; markers such as `NoTask` are not elements of the sets
they are told apart from; a batch has a row, a limit and a window are
positive; `MaxChannels` exceeds `MaxFaults`; the client knows a project
(`Projects # {}`), `"todo"` is a status and the two users differ; the files
are sequences of rows. Each inductive invariant was first checked by TLC on
the run of its module, and where the bounds of that run hide a case, on a
larger instance.

`TaskUpdates_proofs`. The invariant `UpdInv` adds to the stated
properties what they need to be inductive: a row is held by at most one
request, what the request remembers (`was`, the derived changes) still
describes the row it holds, and every id that is held or recorded is below
`nextId`. From it follow `UpdTypeCorrect`, `CompletedAlwaysFollowsStatus` and,
step by step, `EventPerTransition`.

`TaskEvents_proofs`. `PipeInv` extends `UpdInv` with: relay claims are
exclusive and unpublished; every row a relay counts as sent, and every
published row, has a copy at the broker; a delivery that is attached to a
slot is unacked and belongs to that slot only; a slot past its INSERT holds
the only marker of its event; an acknowledged copy's event is processed. It
is shown step by step: `RelayStepInv` for what relays change, `WorkerStepInv`
for what handlers change. From it follow `TypeCorrect`, `ClaimsStayExclusive`,
`AtMostOneNotification` and `PublishedNeverLost`.

The bound on duplicates is not inductive: a relay that has lost its
transaction has paid for its rollback and sends later, and a relay that still
holds the row sends without having paid. `CopiesPaidFor` counts both. The
copies of an event, and the relays without locks that are still going to send
it, are together at most its rollbacks, and one more once the holder of the
row has sent it or it is marked. `DuplicatesCostRollbacks` follows. With the
same count `CopiesSuffice` shows that a relay always finds a free copy, so the
bound `Copies` leaves no publish of the code out.

`PipelineImplementsFeed` is the refinement of `CompletionFeed`, for the safety
part both specifications state. `OnlyRecordedTravels` says that what is
claimed, published, delivered or applied was committed, so that the commit
takes an event from "none" to "pending". Then every step is mapped: a commit
that completes a task is `Complete`, other changes of a row are `Edit` or a
stutter, marking a batch may be `GiveUp` of several events at once, a late
copy is `Resend`, the commit of a handler is `ApplyEvent`, and a delivery that
comes back is `GiveUp` of its event or a stutter.

`BrokerLinks_proofs`. `LinksInv` adds that a publish in progress waits either
for the one pending request or on the cached channel, unless that is gone;
that channels exist only on a connection whose hook has run, which is why the
topology is there; and that every channel but the current one cost a failure.
From it follow `LinksTypes`, `ChannelsDoNotPileUp`, `LeaksStayPaidFor`,
`RoutedWheneverSent` and, step by step, `GaugeStaysRight`, which needs that an
event is only on its way while the consumer is gone and the hook has run
(`EventsFollowLosses`). `ChannelsSuffice` says that `MaxChannels` never refuses
a request.

`ProjectMembership_proofs`. `PeopleExist` and `ClaimChecksHold` need each
other: a claim writes its link only into a project that exists because the
members it holds exist, and members of a vanished project would be checks that
no longer hold. `MemInv` adds what the transactions remember: a deletion has
an heir, or knows there is none, for every project its user owns by now; a
removal that found the task in no other project is still right while nobody
owns the task; no removal holds the links of a task that is being claimed.
From it follow `MembershipTypes`, `PeopleAlwaysExist`, `ClaimChecksLast` and,
step by step, `CascadeSparesProjects` and `DetachSparesTasks`.

`Accounts_proofs`. `RowsInv` says that addresses are unique and that every
session's user exists. It is inductive because `Enrol` and `OpenSession` test
the keys in the step that inserts, which is what the database does. From it
follow `EmailsStayUnique` and `SessionsStayOwned`; `OnlyReasonsEndSessions`
goes through the steps. `LimitInv` is about the limiters. The bounds on the
window as a whole are not inductive, because a successful sign-in withdraws
the most recent attempt, which need not be its own. What is inductive are
counts since every moment `t` of the window: a log holds at least as many
attempts since `t` as registrations begun since `t` are being hashed, and at
most as many as sign-ins begun since `t` still run or got no session. From it
follow `AccountsTypes`, `HashesStayBounded`, `SuccessesStayFree` and
`RefusalsStayExact`. What the recursive function in `Recent` computes, the
suffix of an ascending log, is proved by the least-number principle
(`LeastNatural`), applied to the set of positions where it would be wrong.

`MailRelay_proofs`. `MailInv` adds that what a relay with its connection has
claimed is pending, held by it alone and addressed to accounts that stay.
`MailsCostFaults` is the count behind `ResentOnlyAfterFailure`: the mails of a
notification, and the relays without locks that will still send it, are at
most the failures, and one more once nobody else can send it. From it follow
`MailTypes`, `NothingMarkedUnsent`, `ResendsCostFailures` and, step by step,
`DeletedGetNoMail`.

`SqliteMerge_proofs`. `PlanOK` relates a plan to the rows of `todo_items` it
was made against and to the rows of the file it has seen; `PlanStep` shows
that one iteration of `planMerge` keeps it, for every row that normalizes or
does not. `MergeInv` adds the lock (what an applied run has read is what is
there, and no other run holds the table) and that, with nothing written since
the last commit, every row of the file is still accounted for. `ViewsPast`
says that a snapshot holds only what is recorded by now, so that
`StricterVerification` follows: with an old snapshot the verification refuses
more, never less. From them follow
`MergeTypes`, `RecordsAreUnique`, `VerificationPasses`, `CommittedIsComplete`
and `RerunIsIdempotent`.

`WebClient_proofs`. The page is one record, and `BoardInv` is a conjunction of
parts that each depend on some of its fields, so that a handler keeps the
parts whose fields it leaves alone. `LoadsFresh` and `AnswersPast` say that
one load at most is not aborted, that what it has read is from after the
last change that made the page load, and that nothing is from the future.
`CardsAgree` says that a card whose calls did not cross has one status call at
most, and that the answer under way, or else the card, has the server's
status. From it follow `ClientTypes`, `UsersReadTheirWrites`,
`MovedCardsAgree` and `FormStaysConsistent`.

Only model-checked is liveness, which is outside what the provers do:
`EveryEventSettles`, `OutboxDrains`, `PublishingRecovers`,
`ReconnectionConsumes`, `EveryNoteSettles`, `BellCatchesUp` and
`ArrivalIsAnnounced`. So are the four disagreements above: a violation is a
behaviour TLC shows, not a theorem. The library's induction theorems take an
operator as a parameter, which the installed provers cannot instantiate;
`LeastNatural` is the first-order way around it that the proofs need.

## Not modelled

Styles, static pages, search and sorting of the client, and its dialog for
deleting the account, whose server side is in `Accounts` and
`ProjectMembership`; hashing, cookies and tokens (library functions); the item
routes of the legacy drivers, which `app.ts` no longer mounts; the rejection
of messages that do not match the event schema; metrics, except readiness; the
script's options, backup and report; the migrations and the deployment script;
reads that change nothing.

## Plan

1. *(done)* Tasks, outbox, broker and worker, their composition, abstract feed
   and proofs; projects, claims and account deletion; accounts, sessions and
   limiters with the proofs about the tables; the e-mail relay.
2. *(done)* The links to the broker; the merge; the client with the
   notification API.
3. *(done)* Proofs of every invariant and action property the passing runs
   check, of the remaining type invariants, and of the refinement of
   `CompletionFeed`.
4. Abstract specifications for the other components, with the refinement
   proved from the invariants above: the merge as one atomic step per commit,
   the mail queue as a set of pending notifications; and that the bounds
   `MaxTime`, `Tokens` and `MaxEvents` only cut behaviours short.
