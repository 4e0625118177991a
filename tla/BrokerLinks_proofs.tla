------------------------- MODULE BrokerLinks_proofs -------------------------
(***************************************************************************)
(* The channels of the publisher and the consumer of the worker, for any   *)
(* number of failures and any bound on the channels that leaves room for   *)
(* them.                                                                   *)
(*                                                                         *)
(* The count of abandoned channels needs to know which channel a publish   *)
(* waits on: LinksInv adds that a publish in progress either waits for the *)
(* one pending request or on the channel that is cached, unless that is    *)
(* gone; and that channels live only on a link whose hook has run.         *)
(***************************************************************************)
EXTENDS BrokerLinks, FiniteSetTheorems, TLAPS

\* Only a link that has been set up has channels, and the broker then has the
\* topology.
ChannelsOnOpenLink ==
  /\ open # {} => link = "open"
  /\ link = "open" => declared

\* The publish in progress waits for the pending request, or on a channel next
\* to which nothing is cached or asked for.
PublishHoldsOne ==
  /\ publishing.phase = "acquiring" => pending
  /\ publishing.phase = "confirming" => ~pending /\ channel \in {publishing.on, None}

\* A channel of the connection but the current one has cost a failure.
ChannelsCostFaults == created <= (IF channel = None THEN faults ELSE faults + 1)

\* An event is on its way only after the consumer of a hook that has run is lost.
EventsFollowLosses ==
  /\ hook # "done" => ~event /\ ~consuming
  /\ event => ~consuming

ChannelInv == OneChannelAtATime /\ PublishHoldsOne /\ ChannelsCostFaults /\ LeaksArePaidFor

LinksInv ==
  /\ LinksTypeOK
  /\ ChannelsOnOpenLink
  /\ ChannelInv
  /\ EventsFollowLosses

USE BrokerAssumption, PublisherAssumption DEF BrokerAssumption, PublisherAssumption

-----------------------------------------------------------------------------

\* The flags of the two processes and of the broker, and what is not a flag.
FlagsOK == up \in BOOLEAN /\ declared \in BOOLEAN /\ pending \in BOOLEAN /\ ConsumerTypeOK

ChannelsOK ==
  /\ faults \in 0..MaxFaults
  /\ link \in Links
  /\ open \subseteq 1..created /\ created \in 0..MaxChannels
  /\ channel \in Channels \cup {None}
  /\ requests \in Nat /\ dropped \in Nat

PublishOK ==
  /\ publishing \in [phase : {"idle", "acquiring", "confirming"}, on : Channels \cup {None}]
  /\ last \in {"none", "confirmed", "failed"}

LEMMA TypeParts == LinksTypeOK <=> FlagsOK /\ ChannelsOK /\ PublishOK
  BY DEF LinksTypeOK, BrokerTypeOK, PublisherTypeOK, FlagsOK, ChannelsOK, PublishOK

LEMMA TypePartsPrime == LinksTypeOK' <=> FlagsOK' /\ ChannelsOK' /\ PublishOK'
  BY DEF LinksTypeOK, BrokerTypeOK, PublisherTypeOK, FlagsOK, ChannelsOK, PublishOK

LEMMA LinksInitInv == LinksInit => LinksInv
<1> SUFFICES ASSUME LinksInit PROVE LinksInv
  OBVIOUS
<1>1. LinksTypeOK
  <2>1. FlagsOK
    BY DEF LinksInit, BrokerInit, PublisherInit, ConsumerInit, FlagsOK, ConsumerTypeOK, Hooks
  <2>2. ChannelsOK
    BY DEF LinksInit, BrokerInit, PublisherInit, ChannelsOK, Links
  <2>3. PublishOK
    BY DEF LinksInit, PublisherInit, PublishOK, NotPublishing
  <2> QED BY <2>1, <2>2, <2>3, TypeParts
<1>2. ChannelsOnOpenLink /\ EventsFollowLosses
  BY DEF LinksInit, BrokerInit, PublisherInit, ConsumerInit, ChannelsOnOpenLink, EventsFollowLosses
<1>3. OneChannelAtATime /\ PublishHoldsOne /\ ChannelsCostFaults
  BY DEF LinksInit, BrokerInit, PublisherInit, NotPublishing, OneChannelAtATime, PublishHoldsOne,
         ChannelsCostFaults
<1>4. LeaksArePaidFor
  <2>1. open \ {channel} = {} /\ dropped = 0
    BY DEF LinksInit, PublisherInit
  <2> QED BY <2>1, FS_EmptySet DEF LeaksArePaidFor
<1> QED BY <1>1, <1>2, <1>3, <1>4 DEF LinksInv, ChannelInv

\* Every variable belongs to one process or to the broker: a step of one
\* leaves the flags of the others as they are.
LEMMA FlagsStep == FlagsOK /\ [LinksNext]_linkVars => FlagsOK'
<1> SUFFICES ASSUME FlagsOK, [LinksNext]_linkVars PROVE FlagsOK'
  OBVIOUS
<1> USE DEF FlagsOK, ConsumerTypeOK
<1>1. CASE BrokerStops \/ BrokerRestarts \/ UNCHANGED linkVars
  BY <1>1 DEF BrokerStops, Stop, BrokerRestarts, Restart, DropLink, Disconnect, Hooks,
         linkVars, brokerVars, publisherVars, consumerVars
<1>2. CASE PublisherProcess
  BY <1>2 DEF PublisherProcess, PublisherStep, PublishStep, Connect, Setup, assertTopology, LinkLost,
         Close, DropLink, ChannelCreated, CreationFails, ChannelClosed, PublishAcquires, PublishSends,
         Confirmed, ConfirmFails, AcquireTimesOut, brokerVars, consumerVars
<1>3. CASE WorkerProcess
  BY <1>3 DEF WorkerProcess, ConsumerStep, ConnectWorker, createChannel, declareTopology,
         assertTopology, consume, setConsuming, ConsumerLost, ConsumerEvent, Disconnected, shutdown, Disconnect,
         Hooks, brokerVars, publisherVars
<1> QED BY <1>1, <1>2, <1>3 DEF LinksNext

LEMMA ChannelsStep == ChannelsOK /\ [LinksNext]_linkVars => ChannelsOK'
<1> SUFFICES ASSUME ChannelsOK, [LinksNext]_linkVars PROVE ChannelsOK'
  OBVIOUS
<1> USE DEF ChannelsOK, Channels, Links
<1>1. CASE BrokerStops
  <2>1. faults' \in 0..MaxFaults
    BY <1>1 DEF BrokerStops, Stop, Fault
  <2>2. CASE UNCHANGED publisherVars
    BY <2>1, <2>2 DEF publisherVars
  <2>3. CASE DropLink("down")
    BY <2>1, <2>3 DEF DropLink
  <2> QED BY <1>1, <2>2, <2>3 DEF BrokerStops
<1>2. CASE BrokerRestarts \/ UNCHANGED linkVars
  BY <1>2 DEF BrokerRestarts, Restart, linkVars, brokerVars, publisherVars
<1>3. CASE Connect \/ Setup
  BY <1>3 DEF Connect, Setup, assertTopology, brokerVars
<1>4. CASE LinkLost \/ Close
  BY <1>4 DEF LinkLost, Fault, Close, DropLink, brokerVars
<1>5. CASE ChannelCreated
  BY <1>5 DEF ChannelCreated, brokerVars
<1>6. CASE CreationFails
  BY <1>6 DEF CreationFails, Fault
<1>7. CASE AcquireTimesOut
  BY <1>7 DEF AcquireTimesOut, Fault
<1>8. CASE ConfirmFails
  BY <1>8 DEF ConfirmFails, Fault
<1>9. ASSUME NEW c \in Channels, ChannelClosed(c)
      PROVE  ChannelsOK'
  BY <1>9 DEF ChannelClosed, Fault
<1>10. CASE PublishAcquires
  BY <1>10 DEF PublishAcquires, brokerVars
<1>11. CASE PublishSends \/ Confirmed
  BY <1>11 DEF PublishSends, Confirmed, brokerVars
<1>12. CASE WorkerProcess
  BY <1>12 DEF WorkerProcess, ConsumerStep, ConnectWorker, createChannel, declareTopology,
         assertTopology, consume, setConsuming, ConsumerLost, ConsumerEvent, Disconnected, shutdown, Fault,
         brokerVars, publisherVars
<1> QED BY <1>1, <1>2, <1>3, <1>4, <1>5, <1>6, <1>7, <1>8, <1>9, <1>10, <1>11, <1>12
        DEF LinksNext, PublisherProcess, PublisherStep, PublishStep

LEMMA PublishStepType == ChannelsOK /\ PublishOK /\ [LinksNext]_linkVars => PublishOK'
<1> SUFFICES ASSUME ChannelsOK, PublishOK, [LinksNext]_linkVars PROVE PublishOK'
  OBVIOUS
<1> USE DEF PublishOK
<1>1. CASE UNCHANGED <<publishing, last>>
  BY <1>1
<1>2. CASE PublishAcquires \/ PublishSends \/ ChannelCreated
  BY <1>2 DEF PublishAcquires, PublishSends, ChannelCreated, ChannelsOK, Channels
<1>3. CASE Ends("confirmed") \/ Ends("failed")
  BY <1>3 DEF Ends, NotPublishing
<1>4. CASE BrokerStops \/ BrokerRestarts \/ WorkerProcess
  BY <1>1, <1>4 DEF BrokerStops, BrokerRestarts, WorkerProcess, DropLink, publisherVars
<1> QED BY <1>1, <1>2, <1>3, <1>4 DEF LinksNext, PublisherProcess, PublisherStep, PublishStep, linkVars,
        publisherVars, Connect, Setup, LinkLost, Close, DropLink, CreationFails, ChannelClosed,
        Confirmed, ConfirmFails, AcquireTimesOut

LEMMA LinksTypeStep == LinksTypeOK /\ [LinksNext]_linkVars => LinksTypeOK'
  BY TypeParts, TypePartsPrime, FlagsStep, ChannelsStep, PublishStepType

\* Every variable of the two processes and of the broker has its type.
THEOREM LinksTypes == LinksSpec => []LinksTypeOK
<1>1. LinksInit => LinksTypeOK
  BY LinksInitInv DEF LinksInv
<1> QED BY <1>1, LinksTypeStep, PTL DEF LinksSpec

-----------------------------------------------------------------------------

LEMMA OpenLinkStep == ChannelsOnOpenLink /\ [LinksNext]_linkVars => ChannelsOnOpenLink'
<1> SUFFICES ASSUME ChannelsOnOpenLink, [LinksNext]_linkVars PROVE ChannelsOnOpenLink'
  OBVIOUS
<1> USE DEF ChannelsOnOpenLink
<1>1. CASE BrokerStops \/ BrokerRestarts \/ UNCHANGED linkVars
  BY <1>1 DEF BrokerStops, Stop, BrokerRestarts, Restart, DropLink, linkVars, brokerVars,
         publisherVars
<1>2. CASE WorkerProcess
  BY <1>2 DEF WorkerProcess, ConsumerStep, ConnectWorker, createChannel, declareTopology,
         assertTopology, consume, setConsuming, ConsumerLost, ConsumerEvent, Disconnected, shutdown, brokerVars,
         publisherVars
<1>3. CASE Connect \/ Setup \/ LinkLost \/ Close \/ ChannelCreated
  BY <1>3 DEF Connect, Setup, assertTopology, LinkLost, Close, DropLink, ChannelCreated, brokerVars
<1>4. ASSUME NEW c \in Channels, ChannelClosed(c)
      PROVE  ChannelsOnOpenLink'
  BY <1>4 DEF ChannelClosed
<1>5. CASE CreationFails \/ PublishStep
  BY <1>5 DEF CreationFails, PublishStep, PublishAcquires, PublishSends, Confirmed, ConfirmFails,
         AcquireTimesOut, brokerVars
<1> QED BY <1>1, <1>2, <1>3, <1>4, <1>5 DEF LinksNext, PublisherProcess, PublisherStep

LEMMA EventsStep == EventsFollowLosses /\ [LinksNext]_linkVars => EventsFollowLosses'
<1> SUFFICES ASSUME EventsFollowLosses, [LinksNext]_linkVars PROVE EventsFollowLosses'
  OBVIOUS
<1> USE DEF EventsFollowLosses
<1>1. CASE BrokerStops \/ BrokerRestarts \/ PublisherProcess \/ UNCHANGED linkVars
  BY <1>1 DEF BrokerStops, BrokerRestarts, PublisherProcess, Disconnect, linkVars, consumerVars
<1>2. CASE ConnectWorker \/ createChannel \/ declareTopology \/ consume \/ setConsuming
  BY <1>2 DEF ConnectWorker, createChannel, declareTopology, consume, setConsuming
<1>3. CASE ConsumerLost \/ ConsumerEvent \/ Disconnected \/ shutdown
  BY <1>3 DEF ConsumerLost, ConsumerEvent, Disconnected, shutdown, Disconnect
<1> QED BY <1>1, <1>2, <1>3 DEF LinksNext, WorkerProcess, ConsumerStep

\* Of all steps only setConsuming, which uses up the answer, can put the gauge
\* wrong.
LEMMA GaugeStep ==
  ASSUME EventsFollowLosses, GaugeIsRight, LinksNext
  PROVE  GaugeIsRight' \/ UNCHANGED consumerVars \/ (answered /\ ~answered')
<1>1. CASE BrokerStops \/ BrokerRestarts \/ PublisherProcess
  BY <1>1 DEF BrokerStops, BrokerRestarts, PublisherProcess, Disconnect, GaugeIsRight
<1>2. CASE ConnectWorker \/ createChannel \/ declareTopology
  BY <1>2 DEF ConnectWorker, createChannel, declareTopology, GaugeIsRight
<1>3. CASE consume
  BY <1>3 DEF consume, GaugeIsRight
<1>4. CASE setConsuming
  BY <1>4 DEF setConsuming
<1>5. CASE ConsumerLost \/ ConsumerEvent
  BY <1>5 DEF ConsumerLost, ConsumerEvent, EventsFollowLosses, GaugeIsRight
<1>6. CASE Disconnected \/ shutdown
  BY <1>6 DEF Disconnected, shutdown, Disconnect, GaugeIsRight
<1> QED BY <1>1, <1>2, <1>3, <1>4, <1>5, <1>6 DEF LinksNext, WorkerProcess, ConsumerStep

\* A set of channels within the open ones counts no more than they do.
LEMMA CountOpen ==
  ASSUME LinksTypeOK, NEW A, A \subseteq open
  PROVE  /\ IsFiniteSet(A) /\ Cardinality(A) \in Nat
         /\ \A B \in SUBSET A : Cardinality(B) <= Cardinality(A) /\ Cardinality(B) \in Nat
<1>1. IsFiniteSet(1..created) /\ open \subseteq 1..created
  <2>1. created \in Int /\ 1 \in Int
    BY TypeParts DEF ChannelsOK
  <2> QED BY <2>1, FS_Interval, TypeParts DEF ChannelsOK
<1>2. IsFiniteSet(A)
  BY <1>1, FS_Subset
<1> QED BY <1>2, FS_Subset, FS_CardinalityType

\* What has been paid for stays paid for as failures are counted.
LEMMA PaidOnce ==
  ASSUME NEW n \in Nat, NEW f \in Nat, NEW g \in Nat, f <= g, n <= f + 1
  PROVE  n <= g + 1
  OBVIOUS

\* Steps that leave the channels and what waits for them as they are.
LEMMA QuietStep ==
  ASSUME LinksTypeOK, ChannelInv, UNCHANGED publisherVars, faults' \in Nat, faults <= faults'
  PROVE  ChannelInv'
<1>1. OneChannelAtATime' /\ PublishHoldsOne' /\ LeaksArePaidFor'
  BY DEF ChannelInv, OneChannelAtATime, PublishHoldsOne, LeaksArePaidFor, publisherVars
<1>2. ChannelsCostFaults'
  <2>1. created \in Nat /\ faults \in Nat /\ created' = created /\ channel' = channel
    BY TypeParts DEF ChannelsOK, publisherVars
  <2>2. CASE channel = None
    BY <2>1, <2>2 DEF ChannelInv, ChannelsCostFaults
  <2>3. CASE channel # None
    <3>1. created <= faults + 1
      BY <2>3 DEF ChannelInv, ChannelsCostFaults
    <3> QED BY <2>1, <2>3, <3>1, PaidOnce DEF ChannelsCostFaults
  <2> QED BY <2>2, <2>3
<1> QED BY <1>1, <1>2 DEF ChannelInv

\* A lost connection takes its channels and their account with it.
LEMMA DropLinkStep ==
  ASSUME LinksTypeOK, ChannelInv, NEW to, DropLink(to), faults' \in Nat
  PROVE  ChannelInv'
<1>1. OneChannelAtATime' /\ PublishHoldsOne'
  BY DEF ChannelInv, OneChannelAtATime, PublishHoldsOne, DropLink
<1>2. ChannelsCostFaults'
  BY DEF ChannelsCostFaults, DropLink
<1>3. LeaksArePaidFor'
  <2>1. open' \ {channel'} = {} /\ dropped' = 0
    BY DEF DropLink
  <2> QED BY <2>1, FS_EmptySet DEF LeaksArePaidFor
<1> QED BY <1>1, <1>2, <1>3 DEF ChannelInv

\* The request that resolves finds no other channel cached: the open ones have
\* all been dropped.
LEMMA ChannelCreatedStep ==
  ASSUME LinksTypeOK, ChannelInv, ChannelCreated
  PROVE  ChannelInv'
<1>1. requests = 1 /\ pending /\ channel = None /\ requests' = 0 /\ pending' = FALSE
  BY TypeParts DEF ChannelsOK, ChannelCreated, ChannelInv, OneChannelAtATime
<1>2. /\ created \in Nat /\ faults \in Nat /\ open \subseteq 1..created
      /\ created' = created + 1 /\ channel' = created' /\ open' = open \cup {created'}
      /\ faults' = faults /\ dropped' = dropped
  BY TypeParts DEF ChannelsOK, ChannelCreated, brokerVars
<1>3. OneChannelAtATime'
  BY <1>1, <1>2 DEF OneChannelAtATime
<1>4. PublishHoldsOne'
  <2>1. publishing.phase # "confirming"
    BY <1>1 DEF ChannelInv, PublishHoldsOne
  <2>2. CASE publishing.phase = "acquiring"
    BY <1>1, <1>2, <2>2 DEF ChannelCreated, PublishHoldsOne
  <2>3. CASE publishing.phase # "acquiring"
    BY <2>1, <2>3 DEF ChannelCreated, PublishHoldsOne
  <2> QED BY <2>2, <2>3
<1>5. ChannelsCostFaults'
  <2>1. created <= faults
    BY <1>1 DEF ChannelInv, ChannelsCostFaults
  <2>2. created' \in Channels
    BY <1>2 DEF ChannelCreated, Channels
  <2>3. channel' # None
    BY <1>2, <2>2 DEF Channels
  <2> QED BY <1>2, <2>1, <2>3 DEF ChannelsCostFaults
<1>6. LeaksArePaidFor'
  <2>1. created' \notin open /\ None \notin open
    <3>1. open \subseteq 1..MaxChannels
      BY <1>2, TypeParts DEF ChannelsOK
    <3>2. created + 1 \notin 1..created
      BY <1>2
    <3> QED BY <1>2, <3>1, <3>2
  <2>2. open' \ {channel'} = open \ {channel}
    BY <1>1, <1>2, <2>1
  <2> QED BY <1>2, <2>2 DEF ChannelInv, LeaksArePaidFor
<1> QED BY <1>3, <1>4, <1>5, <1>6 DEF ChannelInv

\* A channel that is dropped while open is one more that was left open.
LEMMA ConfirmFailsStep ==
  ASSUME LinksTypeOK, ChannelInv, ConfirmFails
  PROVE  ChannelInv'
<1>1. /\ publishing.phase = "confirming" /\ publishing' = NotPublishing
      /\ channel' = None /\ UNCHANGED <<open, created, requests, pending>>
  BY DEF ConfirmFails, Ends
<1>2. ~pending /\ channel \in {publishing.on, None}
  BY <1>1 DEF ChannelInv, PublishHoldsOne
<1>3. OneChannelAtATime'
  BY <1>1, <1>2 DEF ChannelInv, OneChannelAtATime
<1>4. PublishHoldsOne'
  BY <1>1 DEF PublishHoldsOne, NotPublishing
<1>5. None \notin open /\ open \ {None} = open
  BY TypeParts DEF ChannelsOK
<1>6. created \in Nat /\ faults \in Nat /\ dropped \in Nat
  BY TypeParts DEF ChannelsOK
<1>7. /\ Cardinality(open) \in Nat
      /\ Cardinality(open \ {channel}) = IF channel \in open THEN Cardinality(open) - 1
                                         ELSE Cardinality(open)
  BY CountOpen, FS_RemoveElement
<1>8. CASE publishing.on \in open
  <2>1. faults' = faults + 1 /\ dropped' = dropped + 1
    BY <1>8 DEF ConfirmFails, Fault
  <2>2. ChannelsCostFaults'
    BY <1>1, <1>6, <2>1 DEF ChannelInv, ChannelsCostFaults
  <2>3. LeaksArePaidFor'
    <3>1. Cardinality(open) <= Cardinality(open \ {channel}) + 1
      BY <1>7
    <3>2. Cardinality(open \ {channel}) <= dropped /\ Cardinality(open \ {channel}) \in Nat
      BY CountOpen DEF ChannelInv, LeaksArePaidFor
    <3>3. open' \ {channel'} = open
      BY <1>1, <1>5
    <3>4. Cardinality(open) <= dropped'
      BY <1>6, <1>7, <2>1, <3>1, <3>2
    <3> QED BY <3>3, <3>4 DEF LeaksArePaidFor
  <2> QED BY <1>3, <1>4, <2>2, <2>3 DEF ChannelInv
<1>9. CASE publishing.on \notin open
  <2>1. faults' = faults /\ dropped' = dropped
    BY <1>9 DEF ConfirmFails
  <2>2. channel = None
    BY <1>2, <1>9 DEF ChannelInv, OneChannelAtATime
  <2> QED BY <1>1, <1>3, <1>4, <2>1, <2>2 DEF ChannelInv, ChannelsCostFaults, LeaksArePaidFor
<1> QED BY <1>8, <1>9

LEMMA ChannelClosedStep ==
  ASSUME LinksTypeOK, ChannelInv, NEW c \in Channels, ChannelClosed(c)
  PROVE  ChannelInv'
<1>1. /\ open' = open \ {c} /\ channel' = (IF channel = c THEN None ELSE channel)
      /\ faults' = faults + 1
      /\ UNCHANGED <<created, requests, pending, publishing, dropped>>
  BY DEF ChannelClosed, Fault
<1>2. /\ created \in Nat /\ faults \in Nat /\ dropped \in Nat
  BY TypeParts DEF ChannelsOK
<1>3. OneChannelAtATime' /\ PublishHoldsOne'
  BY <1>1 DEF ChannelInv, OneChannelAtATime, PublishHoldsOne
<1>4. ChannelsCostFaults'
  BY <1>1, <1>2 DEF ChannelInv, ChannelsCostFaults
<1>5. LeaksArePaidFor'
  <2>1. open' \ {channel'} \subseteq open \ {channel}
    BY <1>1
  <2>2. /\ Cardinality(open' \ {channel'}) <= Cardinality(open \ {channel})
        /\ Cardinality(open' \ {channel'}) \in Nat /\ Cardinality(open \ {channel}) \in Nat
    BY <2>1, CountOpen
  <2> QED BY <1>1, <1>2, <2>2 DEF ChannelInv, LeaksArePaidFor
<1> QED BY <1>3, <1>4, <1>5 DEF ChannelInv

LEMMA ChannelInvStep == LinksTypeOK /\ ChannelInv /\ [LinksNext]_linkVars => ChannelInv'
<1> SUFFICES ASSUME LinksTypeOK, ChannelInv, [LinksNext]_linkVars PROVE ChannelInv'
  OBVIOUS
<1>0. faults \in Nat /\ faults' \in Nat /\ faults <= faults + 1 /\ faults + 1 \in Nat
  BY TypeParts, TypePartsPrime, LinksTypeStep DEF ChannelsOK
<1>1. CASE BrokerStops
  <2>1. faults' = faults + 1
    BY <1>1 DEF BrokerStops, Stop, Fault
  <2> QED BY <1>0, <1>1, <2>1, QuietStep, DropLinkStep DEF BrokerStops
<1>2. CASE BrokerRestarts \/ UNCHANGED linkVars
  BY <1>0, <1>2, QuietStep DEF BrokerRestarts, Restart, linkVars, brokerVars
<1>3. CASE WorkerProcess
  <2>1. UNCHANGED publisherVars /\ faults' \in {faults, faults + 1}
    BY <1>3 DEF WorkerProcess, ConsumerStep, ConnectWorker, createChannel, declareTopology,
       assertTopology, consume, setConsuming, ConsumerLost, ConsumerEvent, Disconnected, shutdown, Fault, brokerVars
  <2> QED BY <1>0, <2>1, QuietStep
<1>4. CASE LinkLost \/ Close
  BY <1>0, <1>4, DropLinkStep DEF LinkLost, Close
<1>5. CASE Connect \/ Setup \/ PublishSends \/ Confirmed
  <2>1. UNCHANGED <<open, created, channel, requests, pending, dropped, faults>>
    BY <1>5 DEF Connect, Setup, assertTopology, PublishSends, Confirmed, brokerVars
  <2>2. OneChannelAtATime' /\ ChannelsCostFaults' /\ LeaksArePaidFor'
    BY <2>1 DEF ChannelInv, OneChannelAtATime, ChannelsCostFaults, LeaksArePaidFor
  <2>3. PublishHoldsOne'
    BY <1>5, <2>1 DEF Connect, Setup, PublishSends, Confirmed, Ends, NotPublishing, ChannelInv,
       PublishHoldsOne, OneChannelAtATime
  <2> QED BY <2>2, <2>3 DEF ChannelInv
<1>6. CASE PublishAcquires
  <2>1. /\ UNCHANGED <<open, created, channel, dropped, faults>> /\ channel = None /\ pending'
        /\ publishing'.phase = "acquiring"
        /\ requests' = IF pending THEN requests ELSE requests + 1
    BY <1>6 DEF PublishAcquires, brokerVars
  <2>2. requests' = 1
    BY <2>1, TypeParts DEF ChannelInv, OneChannelAtATime, ChannelsOK
  <2> QED BY <2>1, <2>2 DEF ChannelInv, OneChannelAtATime, PublishHoldsOne, ChannelsCostFaults,
          LeaksArePaidFor
<1>7. CASE CreationFails
  <2>1. /\ UNCHANGED <<open, created, dropped>> /\ faults' = faults + 1 /\ ~pending'
        /\ requests = 1 /\ requests' = 0 /\ channel = None /\ channel' = None
    BY <1>7, TypeParts DEF CreationFails, Fault, ChannelInv, OneChannelAtATime, ChannelsOK
  <2>2. publishing'.phase # "acquiring"
    BY <1>7 DEF CreationFails, Ends, NotPublishing
  <2>3. OneChannelAtATime' /\ PublishHoldsOne'
    BY <2>1, <2>2 DEF OneChannelAtATime, PublishHoldsOne
  <2>4. ChannelsCostFaults'
    <3>1. created \in Nat
      BY TypeParts DEF ChannelsOK
    <3> QED BY <1>0, <2>1, <3>1 DEF ChannelInv, ChannelsCostFaults
  <2> QED BY <2>1, <2>3, <2>4 DEF ChannelInv, LeaksArePaidFor
<1>8. CASE AcquireTimesOut
  <2>1. /\ UNCHANGED <<open, created, dropped, requests, pending>> /\ faults' \in {faults, faults + 1}
        /\ channel = None /\ channel' = None /\ publishing' = NotPublishing
    BY <1>8 DEF AcquireTimesOut, Ends, Fault, ChannelInv, PublishHoldsOne, OneChannelAtATime
  <2>2. ChannelsCostFaults'
    <3>1. created \in Nat
      BY TypeParts DEF ChannelsOK
    <3> QED BY <1>0, <2>1, <3>1 DEF ChannelInv, ChannelsCostFaults
  <2> QED BY <2>1, <2>2 DEF ChannelInv, OneChannelAtATime, PublishHoldsOne, LeaksArePaidFor,
          NotPublishing
<1>9. CASE ChannelCreated
  BY <1>9, ChannelCreatedStep
<1>10. CASE ConfirmFails
  BY <1>10, ConfirmFailsStep
<1>11. ASSUME NEW c \in Channels, ChannelClosed(c)
       PROVE  ChannelInv'
  BY <1>11, ChannelClosedStep
<1> QED BY <1>1, <1>2, <1>3, <1>4, <1>5, <1>6, <1>7, <1>8, <1>9, <1>10, <1>11
        DEF LinksNext, PublisherProcess, PublisherStep, PublishStep

LEMMA LinksInvariance == LinksSpec => []LinksInv
<1>1. LinksInv /\ [LinksNext]_linkVars => LinksInv'
  BY LinksTypeStep, OpenLinkStep, ChannelInvStep, EventsStep DEF LinksInv
<1> QED BY <1>1, LinksInitInv, PTL DEF LinksSpec

-----------------------------------------------------------------------------

\* However many publishes are abandoned while a channel is awaited, at most one
\* request for a channel is on its way, and what is cached is the newest
\* channel of the live connection.
THEOREM ChannelsDoNotPileUp == LinksSpec => []OneChannelAtATime
<1>1. LinksInv => OneChannelAtATime
  BY DEF LinksInv, ChannelInv
<1> QED BY <1>1, LinksInvariance, PTL

\* The channels left open at the broker number at most the confirmations that
\* failed on this connection.
THEOREM LeaksStayPaidFor == LinksSpec => []LeaksArePaidFor
<1>1. LinksInv => LeaksArePaidFor
  BY DEF LinksInv, ChannelInv
<1> QED BY <1>1, LinksInvariance, PTL

\* No message is sent on an open channel of a broker without the topology,
\* also when it has come back empty in between.
THEOREM RoutedWheneverSent == LinksSpec => []SentOnlyWhereRouted
<1>1. LinksInv => SentOnlyWhereRouted
  BY DEF LinksInv, ChannelsOnOpenLink, SentOnlyWhereRouted
<1> QED BY <1>1, LinksInvariance, PTL

\* The gauge follows the consumer through every failure, but for the turn between
\* the answer to consume and setConsuming(true).
THEOREM GaugeStaysRight == LinksSpec => GaugeFollowsConsumer
<1>1. LinksInv /\ [LinksNext]_linkVars
        => [GaugeIsRight => GaugeIsRight' \/ (answered /\ ~answered')]_consumerVars
  <2> SUFFICES ASSUME LinksInv, [LinksNext]_linkVars, GaugeIsRight
               PROVE  GaugeIsRight' \/ UNCHANGED consumerVars \/ (answered /\ ~answered')
    OBVIOUS
  <2>1. CASE UNCHANGED linkVars
    BY <2>1 DEF linkVars
  <2> QED BY <2>1, GaugeStep DEF LinksInv
<1> QED BY <1>1, LinksInvariance, PTL DEF LinksSpec, GaugeFollowsConsumer

\* The bound on the channels never holds a request back: it is a device of the
\* model checker and takes no behaviour away.
THEOREM ChannelsSuffice == LinksSpec => [](requests > 0 => created < MaxChannels)
<1>1. LinksInv => (requests > 0 => created < MaxChannels)
  <2> SUFFICES ASSUME LinksInv, requests > 0 PROVE created < MaxChannels
    OBVIOUS
  <2>1. channel = None /\ created <= faults
    BY TypeParts DEF LinksInv, ChannelInv, OneChannelAtATime, ChannelsCostFaults, ChannelsOK
  <2> QED BY <2>1, TypeParts DEF LinksInv, ChannelsOK
<1> QED BY <1>1, LinksInvariance, PTL

=============================================================================
