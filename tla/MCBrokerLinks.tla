--------------------------- MODULE MCBrokerLinks ---------------------------
(* Both processes and a few failures. *)
EXTENDS BrokerLinks

=============================================================================
