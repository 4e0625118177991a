----------------------------- MODULE BellClient -----------------------------
(***************************************************************************)
(* NotificationBell and the feed of the API: polls that may overtake each  *)
(* other, a list and a count read by two queries, and "mark all read".     *)
(*                                                                         *)
(* Notifications are numbered as they arrive; all up to readUpTo are read. *)
(***************************************************************************)
EXTENDS ClientSession

CONSTANTS MaxNotes, None

ASSUME BellAssumption == MaxNotes \in Nat /\ None \notin 0..MaxNotes

VARIABLES
  notes, readUpTo,   \* the user's notifications in the database
  feed,              \* what the bell shows
  newestSeen,        \* the ref: None before the first load
  announced,         \* notifications announced since the page opened
  polls,             \* GET /notifications in flight
  marking            \* POST /notifications/read in flight

noteVars == <<notes, readUpTo>>
bellVars == <<notes, readUpTo, feed, newestSeen, announced, polls, marking>>

Notes == 1..MaxNotes
Polls == 1..2                       \* bound: a third poll waits
NoPoll == [state |-> "none", newest |-> 0, read |-> TRUE, unread |-> 0]
Feed(n, r, u) == [newest |-> n, read |-> r, unread |-> u]
EmptyFeed == Feed(0, TRUE, 0)
Feeds == [newest : 0..MaxNotes, read : BOOLEAN, unread : 0..MaxNotes]

BellTypeOK ==
  /\ notes \in 0..MaxNotes /\ readUpTo \in 0..notes
  /\ feed \in Feeds
  /\ newestSeen \in 0..MaxNotes \cup {None}
  /\ announced \subseteq 1..notes
  /\ polls \in [Polls -> [state : {"none", "asked", "listed", "counted", "answered"},
                           newest : 0..MaxNotes, read : BOOLEAN, unread : 0..MaxNotes]]
  /\ marking \in BOOLEAN

BellInit ==
  /\ notes = 0 /\ readUpTo = 0
  /\ feed = EmptyFeed /\ newestSeen = None /\ announced = {}
  /\ polls = [p \in Polls |-> NoPoll] /\ marking = FALSE

\* Unmounted with the session: the polls are aborted.
BellUnmounted ==
  /\ feed' = EmptyFeed /\ newestSeen' = None /\ announced' = {}
  /\ polls' = [p \in Polls |-> NoPoll] /\ marking' = FALSE
  /\ UNCHANGED noteVars

BellWaits == marking \/ \E p \in Polls : polls[p].state = "asked"

\* The worker stores a notification.
Arrive ==
  /\ route = "home" /\ notes < MaxNotes
  /\ notes' = notes + 1
  /\ UNCHANGED <<sessionVars, readUpTo, feed, newestSeen, announced, polls, marking>>

\* The effect and its interval.  A poll that is overtaken counts as a fault.
Poll(p) ==
  /\ auth = "in" /\ route = "home" /\ polls[p].state = "none" /\ Idle
  /\ IF \A q \in Polls : polls[q].state = "none" THEN UNCHANGED spent ELSE Fault
  /\ polls' = [polls EXCEPT ![p].state = "asked"]
  /\ UNCHANGED <<noteVars, feed, newestSeen, announced, marking>>

\* The two queries of the route run at once and finish in either order; the
\* authentication before them is taken with the first.
Queried(p, mine, other, result) ==
  /\ \/ polls[p].state = "asked" /\ session
     \/ polls[p].state = other
  /\ polls' = [polls EXCEPT ![p] =
       [result EXCEPT !.state = IF polls[p].state = "asked" THEN mine ELSE "answered"]]
  /\ UNCHANGED <<sessionVars, noteVars, feed, newestSeen, announced, marking>>

listRecent(p) ==
  Queried(p, "listed", "counted",
          [polls[p] EXCEPT !.newest = notes, !.read = notes <= readUpTo])

countUnread(p) ==
  Queried(p, "counted", "listed", [polls[p] EXCEPT !.unread = notes - readUpTo])

newArrival(seen, f) ==
  seen # None /\ f.newest # 0 /\ ~f.read /\ f.newest # seen

\* Mutant: the newest notification is remembered before it is compared.
loadSeenFirst(p) ==
  /\ polls[p].state = "answered"
  /\ LET next == Feed(polls[p].newest, polls[p].read, polls[p].unread) IN
     /\ announced' = IF newArrival(next.newest, next)
                     THEN announced \cup {next.newest} ELSE announced
     /\ newestSeen' = next.newest
     /\ feed' = next
  /\ polls' = [polls EXCEPT ![p] = NoPoll]
  /\ UNCHANGED <<sessionVars, noteVars, marking>>

\* Mutant: a poll whose newest notification is known is skipped.
loadIfNewer(p) ==
  /\ polls[p].state = "answered"
  /\ LET next == Feed(polls[p].newest, polls[p].read, polls[p].unread) IN
     /\ announced' = IF newArrival(newestSeen, next)
                     THEN announced \cup {next.newest} ELSE announced
     /\ newestSeen' = next.newest
     /\ feed' = IF newestSeen = next.newest THEN feed ELSE next
  /\ polls' = [polls EXCEPT ![p] = NoPoll]
  /\ UNCHANGED <<sessionVars, noteVars, marking>>

\* A poll is answered, in whatever order.
load(p) ==
  /\ polls[p].state = "answered"
  /\ LET next == Feed(polls[p].newest, polls[p].read, polls[p].unread) IN
     /\ announced' = IF newArrival(newestSeen, next)
                     THEN announced \cup {next.newest} ELSE announced
     /\ newestSeen' = next.newest
     /\ feed' = next
  /\ polls' = [polls EXCEPT ![p] = NoPoll]
  /\ UNCHANGED <<sessionVars, noteVars, marking>>

\* A failed poll keeps the last state.
PollFails(p) ==
  /\ polls[p].state # "none" /\ Fault /\ Idle
  /\ polls' = [polls EXCEPT ![p] = NoPoll]
  /\ UNCHANGED <<noteVars, feed, newestSeen, announced, marking>>

\* The bell is opened: the count goes at once, the marks with the next poll.
open ==
  /\ auth = "in" /\ feed.unread > 0 /\ Act /\ Idle
  /\ feed' = [feed EXCEPT !.unread = 0]
  /\ marking' = TRUE
  /\ UNCHANGED <<noteVars, newestSeen, announced, polls>>

markAllRead ==
  /\ marking /\ session
  /\ readUpTo' = notes
  /\ marking' = FALSE
  /\ UNCHANGED <<sessionVars, notes, feed, newestSeen, announced, polls>>

\* The next poll brings the count back.
MarkFails ==
  /\ marking /\ Fault /\ Idle
  /\ marking' = FALSE
  /\ UNCHANGED <<noteVars, feed, newestSeen, announced, polls>>

BellWorks ==
  \/ \E p \in Polls : Poll(p) \/ listRecent(p) \/ countUnread(p) \/ load(p)
  \/ markAllRead

BellStep == BellWorks \/ Arrive \/ open \/ MarkFails \/ \E p \in Polls : PollFails(p)

-----------------------------------------------------------------------------
(* Properties                                                              *)

\* However polls overtake each other, fail or race "mark all read", and
\* whatever ends the session: in the end the bell shows what the database has,
\* or the page is left.
BellCatchesUp ==
  <>[](auth = "in" /\ route = "home" => feed = Feed(notes, notes <= readUpTo, notes - readUpTo))

\* A notification that arrives while the page is open is announced, unless a
\* newer one takes its place or it is marked as read before it was shown.
ArrivalIsAnnounced ==
  \A n \in Notes :
    (auth = "in" /\ notes = n /\ readUpTo < n /\ newestSeen # None /\ newestSeen # n)
      ~> (n \in announced \/ notes > n \/ readUpTo >= n \/ auth # "in")

=============================================================================
