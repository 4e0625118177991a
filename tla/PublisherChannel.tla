-------------------------- MODULE PublisherChannel -------------------------
(***************************************************************************)
(* RabbitmqPublisher: one connection that amqplib restores, one confirm    *)
(* channel that is created lazily and dropped when it is suspect, and the  *)
(* publishes of the relay, one after the other.                            *)
(*                                                                         *)
(* A channel is numbered within its connection.  A publish that times out  *)
(* stops waiting; the request for a channel it made goes on.               *)
(***************************************************************************)
EXTENDS Broker, FiniteSets

CONSTANTS
  MaxChannels,   \* bound on the channels of one connection
  None           \* no channel: undefined

\* A channel is replaced only after a failure, so the bound is never met.
ASSUME PublisherAssumption ==
  /\ MaxChannels \in Nat /\ MaxChannels > MaxFaults
  /\ None \notin 1..MaxChannels

VARIABLES
  link,          \* the recovering connection
  open,          \* channels of the connection that are open at the broker
  created,       \* channels created on the connection so far
  channel,       \* this.channel
  requests,      \* createConfirmChannel calls that have not settled
  pending,       \* this.pendingChannel is set
  publishing,    \* the publish in progress and the channel it waits on
  last,          \* outcome of the last publish
  dropped        \* history: channels of the connection dropped as suspect

publisherVars == <<link, open, created, channel, requests, pending, publishing, last, dropped>>

Channels == 1..MaxChannels
Links == {"down", "setup", "open", "closed"}
NotPublishing == [phase |-> "idle", on |-> None]

PublisherTypeOK ==
  /\ link \in Links
  /\ open \subseteq 1..created /\ created \in 0..MaxChannels
  /\ channel \in Channels \cup {None}
  /\ requests \in Nat /\ pending \in BOOLEAN
  /\ publishing \in [phase : {"idle", "acquiring", "confirming"}, on : Channels \cup {None}]
  /\ last \in {"none", "confirmed", "failed"}
  /\ dropped \in Nat

PublisherInit ==
  /\ link = "down"
  /\ open = {} /\ created = 0 /\ dropped = 0
  /\ channel = None
  /\ requests = 0 /\ pending = FALSE
  /\ publishing = NotPublishing
  /\ last = "none"

\* The channels of a lost connection close; their listeners forget them.
DropLink(to) ==
  /\ link' = to
  /\ open' = {} /\ created' = 0 /\ dropped' = 0
  /\ channel' = None
  /\ UNCHANGED <<requests, pending, publishing, last>>

LinkLost == link \in {"setup", "open"} /\ Fault /\ DropLink("down") /\ UNCHANGED <<up, declared>>
Close == link # "closed" /\ DropLink("closed") /\ UNCHANGED brokerVars

Connect ==
  /\ link = "down" /\ up
  /\ link' = "setup"
  /\ UNCHANGED <<brokerVars, open, created, channel, requests, pending, publishing, last, dropped>>

\* Mutant: the recovery hook leaves the topology to the worker.
SetupBare ==
  /\ link = "setup"
  /\ link' = "open"
  /\ UNCHANGED <<brokerVars, open, created, channel, requests, pending, publishing, last, dropped>>

\* The recovery hook declares the topology before anything else may use the
\* connection; its own channel is closed again.
Setup ==
  /\ link = "setup"
  /\ assertTopology
  /\ link' = "open"
  /\ UNCHANGED <<open, created, channel, requests, pending, publishing, last, dropped>>

Ends(outcome) == publishing' = NotPublishing /\ last' = outcome

\* Mutant: every attempt asks for a channel of its own.
PublishAlone ==
  /\ link # "closed" /\ publishing.phase = "idle" /\ channel = None
  /\ publishing' = [phase |-> "acquiring", on |-> None]
  /\ requests' = requests + 1
  /\ pending' = TRUE
  /\ UNCHANGED <<brokerVars, link, open, created, channel, last, dropped>>

\* publish() without a channel: it shares the request that is pending.
PublishAcquires ==
  /\ link # "closed" /\ publishing.phase = "idle" /\ channel = None
  /\ publishing' = [phase |-> "acquiring", on |-> None]
  /\ requests' = IF pending THEN requests ELSE requests + 1
  /\ pending' = TRUE
  /\ UNCHANGED <<brokerVars, link, open, created, channel, last, dropped>>

\* publish() with a channel sends at once and waits for the confirmation.
PublishSends ==
  /\ publishing.phase = "idle" /\ channel # None
  /\ publishing' = [phase |-> "confirming", on |-> channel]
  /\ UNCHANGED <<brokerVars, link, open, created, channel, requests, pending, last, dropped>>

\* Mutant: a channel that nobody waits for any more is left alone.
ChannelForWaiter ==
  /\ requests > 0 /\ link = "open" /\ created < MaxChannels
  /\ created' = created + 1
  /\ open' = open \cup {created'}
  /\ requests' = requests - 1
  /\ pending' = FALSE
  /\ IF publishing.phase = "acquiring"
       THEN channel' = created' /\ publishing' = [phase |-> "confirming", on |-> created']
       ELSE UNCHANGED <<channel, publishing>>
  /\ UNCHANGED <<brokerVars, link, last, dropped>>

\* A request resolves: its channel becomes the current one, also when the
\* publish that asked for it is gone.
ChannelCreated ==
  /\ requests > 0 /\ link = "open" /\ created < MaxChannels
  /\ created' = created + 1
  /\ open' = open \cup {created'}
  /\ channel' = created'
  /\ requests' = requests - 1
  /\ pending' = FALSE
  /\ publishing' = IF publishing.phase = "acquiring"
                   THEN [phase |-> "confirming", on |-> created'] ELSE publishing
  /\ UNCHANGED <<brokerVars, link, last, dropped>>

\* Mutant: the rejected request stays the pending one.
CreationFailsForGood ==
  /\ requests > 0 /\ Fault
  /\ requests' = requests - 1
  /\ channel' = None
  /\ IF publishing.phase = "acquiring" THEN Ends("failed") ELSE UNCHANGED <<publishing, last>>
  /\ UNCHANGED <<up, declared, link, open, created, pending, dropped>>

\* A request is refused, and with it the publish that waits for it.
CreationFails ==
  /\ requests > 0 /\ Fault
  /\ requests' = requests - 1
  /\ pending' = FALSE
  /\ IF publishing.phase = "acquiring"
       THEN Ends("failed") /\ channel' = None ELSE UNCHANGED <<publishing, last, channel>>
  /\ UNCHANGED <<up, declared, link, open, created, dropped>>

\* Ten seconds without a connection, or a broker that does not answer on one.
AcquireTimesOut ==
  /\ publishing.phase = "acquiring"
  /\ IF link = "open" THEN Fault ELSE UNCHANGED faults
  /\ Ends("failed")
  /\ channel' = None
  /\ UNCHANGED <<up, declared, link, open, created, requests, pending, dropped>>

Confirmed ==
  /\ publishing.phase = "confirming" /\ publishing.on \in open /\ link = "open"
  /\ Ends("confirmed")
  /\ UNCHANGED <<brokerVars, link, open, created, channel, requests, pending, dropped>>

\* The channel is gone, or the confirmation takes ten seconds: the channel is
\* dropped, and not closed.
ConfirmFails ==
  /\ publishing.phase = "confirming"
  /\ IF publishing.on \in open THEN Fault ELSE UNCHANGED faults
  /\ dropped' = IF publishing.on \in open THEN dropped + 1 ELSE dropped
  /\ Ends("failed")
  /\ channel' = None
  /\ UNCHANGED <<up, declared, link, open, created, requests, pending>>

\* The broker closes one channel of a connection that stays up.
ChannelClosed(c) ==
  /\ c \in open /\ Fault
  /\ open' = open \ {c}
  /\ channel' = IF channel = c THEN None ELSE channel
  /\ UNCHANGED <<up, declared, link, created, requests, pending, publishing, last, dropped>>

PublishStep ==
  \/ PublishAcquires \/ PublishSends \/ Confirmed \/ ConfirmFails \/ AcquireTimesOut

PublisherStep ==
  \/ Connect \/ Setup \/ LinkLost \/ Close
  \/ ChannelCreated \/ CreationFails \/ (\E c \in Channels : ChannelClosed(c))
  \/ PublishStep

-----------------------------------------------------------------------------
(* Properties                                                              *)

\* Abandoned publishes queue behind one request for a channel, and what is
\* cached is a channel of the live connection: a channel that resolves late
\* never stands next to another one.
OneChannelAtATime ==
  /\ requests <= 1 /\ (pending <=> requests = 1)
  /\ pending => channel = None
  /\ channel # None => channel \in open /\ channel = created

\* A channel is left open at the broker only by a confirmation that failed.
LeaksArePaidFor == Cardinality(open \ {channel}) <= dropped

\* What is sent on an open channel meets its queue: without one the broker
\* confirms the message and drops it.
SentOnlyWhereRouted ==
  publishing.phase = "confirming" /\ publishing.on \in open => declared

=============================================================================
