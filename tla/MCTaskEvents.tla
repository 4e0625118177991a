---------------------------- MODULE MCTaskEvents ----------------------------
(* The whole pipeline on a few events, or on fewer with more failures. *)
EXTENDS TaskEvents, TLC

FewEventsOrFaults == faults + Cardinality(Recorded) <= 3

(* Changes of two tasks overlap in the API; the pipeline is left to the events *)
(* of one.                                                                     *)
OneTaskTravels ==
  Cardinality({t \in Tasks : row[t].life # "unborn"}) > 1
    => faults = 0 /\ published = {} /\ \A a \in Relays : relay[a] = NoTick

Symmetry == Permutations(Tasks) \cup Permutations(Users) \cup Permutations(Requests)
              \cup Permutations(Relays) \cup Permutations(Slots)

=============================================================================
