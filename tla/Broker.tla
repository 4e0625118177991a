------------------------------ MODULE Broker -------------------------------
(***************************************************************************)
(* The RabbitMQ broker as its two clients see it: it is up or down, and it *)
(* has the exchanges and queues of topology.ts or has come back without    *)
(* them.  External, as the code in src/ uses it.                           *)
(***************************************************************************)
EXTENDS Naturals

CONSTANT MaxFaults       \* bound on the failures of one behaviour

ASSUME BrokerAssumption == MaxFaults \in Nat

VARIABLES
  up,          \* the broker accepts connections
  declared,    \* exchange, queue and binding exist
  faults       \* failures so far

brokerVars == <<up, declared, faults>>

BrokerTypeOK == up \in BOOLEAN /\ declared \in BOOLEAN /\ faults \in 0..MaxFaults
BrokerInit == up = TRUE /\ declared = FALSE /\ faults = 0

Fault ==
  /\ faults < MaxFaults
  /\ faults' = faults + 1

\* A restart keeps the durable topology or loses the volume with it.
Stop ==
  /\ up /\ Fault
  /\ up' = FALSE
  /\ declared' \in {declared, FALSE}

Restart ==
  /\ ~up /\ up' = TRUE
  /\ UNCHANGED <<declared, faults>>

\* assertTopology, by whichever client connects.
assertTopology ==
  /\ up /\ declared' = TRUE
  /\ UNCHANGED <<up, faults>>

=============================================================================
