---------------------------- MODULE BrokerLinks ----------------------------
(***************************************************************************)
(* Both processes on one broker, which may stop and come back empty.       *)
(***************************************************************************)
EXTENDS PublisherChannel, ConsumerChannel

linkVars == <<brokerVars, publisherVars, consumerVars>>

LinksTypeOK == BrokerTypeOK /\ PublisherTypeOK /\ ConsumerTypeOK
LinksInit == BrokerInit /\ PublisherInit /\ ConsumerInit

\* A broker that stops takes every connection with it.
BrokerStops ==
  /\ Stop
  /\ IF link = "closed" THEN UNCHANGED publisherVars ELSE DropLink("down")
  /\ IF hook = "closed" THEN UNCHANGED consumerVars ELSE Disconnect("down")

BrokerRestarts == Restart /\ UNCHANGED <<publisherVars, consumerVars>>

PublisherProcess == PublisherStep /\ UNCHANGED consumerVars
WorkerProcess == ConsumerStep /\ UNCHANGED publisherVars

LinksNext == BrokerStops \/ BrokerRestarts \/ PublisherProcess \/ WorkerProcess
LinksSpec == LinksInit /\ [][LinksNext]_linkVars

\* The relay publishes again after every outcome, amqplib connects again and
\* answers on an open connection; nothing that fails is owed.
LinksFairness ==
  /\ WF_linkVars(BrokerRestarts)
  /\ WF_linkVars(UNCHANGED consumerVars /\ (Connect \/ Setup \/ ChannelCreated))
  /\ WF_linkVars(UNCHANGED consumerVars /\ PublishStep)
  /\ WF_linkVars(UNCHANGED publisherVars
       /\ (ConnectWorker \/ createChannel \/ declareTopology \/ consume \/ setConsuming))
  /\ WF_linkVars(UNCHANGED publisherVars /\ ConsumerEvent)

FairLinksSpec == LinksSpec /\ LinksFairness

-----------------------------------------------------------------------------
(* Properties                                                              *)

\* Once nothing fails any more, publishing succeeds again and again, whatever
\* was abandoned, refused or dropped before.
PublishingRecovers == []<>(last = "confirmed" \/ link = "closed")

\* A lost connection ends in a consumer that is registered again.
ReconnectionConsumes == hook = "down" ~> (consuming \/ hook = "closed")

=============================================================================
