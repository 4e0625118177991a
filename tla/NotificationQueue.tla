------------------------- MODULE NotificationQueue -------------------------
(***************************************************************************)
(* The broker side of the topology the code declares: a durable quorum     *)
(* queue with a delivery limit and a dead-letter queue.  RabbitMQ itself   *)
(* is external; this is what the publisher and the worker rely on.         *)
(*                                                                         *)
(* An event may be published several times: <<e, c>> is its c-th copy.     *)
(***************************************************************************)
EXTENDS TaskUpdates

CONSTANTS
  MaxFaults,     \* bound: infrastructure failures in one behaviour
  DeliveryLimit  \* x-delivery-limit

ASSUME NotificationQueueAssumption ==
  /\ MaxFaults \in Nat
  /\ DeliveryLimit \in Nat

VARIABLES
  place,    \* where each copy is
  returns,  \* how often each copy was given back
  faults    \* failures so far

queueVars == <<place, returns>>

\* A copy is only sent again after a failed relay run, so this bounds nothing.
Copies == 1..MaxFaults + 1

Messages == Events \X Copies

Places == {"unsent", "ready", "unacked", "acked", "dead"}

QueueInit ==
  /\ place = [m \in Messages |-> "unsent"]
  /\ returns = [m \in Messages |-> 0]
  /\ faults = 0

QueueTypeOK ==
  /\ place \in [Messages -> Places]
  /\ returns \in [Messages -> 0..DeliveryLimit + 1]
  /\ faults \in 0..MaxFaults

CopiesOf(e) == {c \in Copies : place[<<e, c>>] # "unsent"}

\* The exchange routes a task.* event to the queue, persistently.
Enqueue(e) ==
  \E c \in Copies :
    /\ CopiesOf(e) = 1..c - 1
    /\ place' = [place EXCEPT ![<<e, c>>] = "ready"]
    /\ UNCHANGED returns

\* A delivery that comes back is redelivered until the limit is exceeded.
GiveBack(m) ==
  /\ returns' = [returns EXCEPT ![m] = @ + 1]
  /\ place' = [place EXCEPT ![m] = IF returns[m] + 1 > DeliveryLimit THEN "dead" ELSE "ready"]

Fault == faults < MaxFaults /\ faults' = faults + 1

=============================================================================
