--------------------------- MODULE CompletionFeed ---------------------------
(***************************************************************************)
(* What the event pipeline promises, without its mechanism: every time an  *)
(* open task is completed, one event is recorded; a recorded event is      *)
(* applied once, or ends in the dead-letter queue; nothing else happens to *)
(* it, and it is never forgotten.  A copy that is published late may take  *)
(* an event out of the dead-letter state again.                            *)
(***************************************************************************)
CONSTANTS Tasks, Events

VARIABLES
  state,  \* of each task: "unborn", "open", "done" or "gone"
  feed    \* of each event: "none", "pending", "dead" or "applied"

feedVars == <<state, feed>>

FeedInit ==
  /\ state = [t \in Tasks |-> "unborn"]
  /\ feed = [e \in Events |-> "none"]

Complete(t, e) ==
  /\ state[t] = "open"
  /\ feed[e] = "none"
  /\ state' = [state EXCEPT ![t] = "done"]
  /\ feed' = [feed EXCEPT ![e] = "pending"]

\* Created (possibly already in the last column), reopened or deleted.
Edit(t) ==
  /\ \/ state[t] = "unborn" /\ state' \in {[state EXCEPT ![t] = s] : s \in {"open", "done"}}
     \/ state[t] = "done" /\ state' = [state EXCEPT ![t] = "open"]
     \/ state[t] \in {"open", "done"} /\ state' = [state EXCEPT ![t] = "gone"]
  /\ UNCHANGED feed

\* The notifications of the event are written, even after it was given up.
ApplyEvent(e) ==
  /\ feed[e] \in {"pending", "dead"}
  /\ feed' = [feed EXCEPT ![e] = "applied"]
  /\ UNCHANGED state

\* The broker has given up on every copy of these events.
GiveUp(es) ==
  /\ es # {}
  /\ \A e \in es : feed[e] = "pending"
  /\ feed' = [e \in Events |-> IF e \in es THEN "dead" ELSE feed[e]]
  /\ UNCHANGED state

\* A relay that lost its transaction publishes the event once more.
Resend(e) ==
  /\ feed[e] = "dead"
  /\ feed' = [feed EXCEPT ![e] = "pending"]
  /\ UNCHANGED state

FeedNext ==
  \/ \E t \in Tasks, e \in Events : Complete(t, e)
  \/ \E t \in Tasks : Edit(t)
  \/ \E e \in Events : ApplyEvent(e) \/ Resend(e)
  \/ \E es \in SUBSET Events : GiveUp(es)

FeedSpec == FeedInit /\ [][FeedNext]_feedVars

=============================================================================
