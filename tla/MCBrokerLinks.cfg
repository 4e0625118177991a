\* The processes stop once both have shut down.
CHECK_DEADLOCK FALSE
SPECIFICATION FairLinksSpec
CONSTANTS
  MaxFaults = 5
  MaxChannels = 6
  None = None
INVARIANTS
  OneChannelAtATime
  LeaksArePaidFor
  SentOnlyWhereRouted
PROPERTIES
  GaugeFollowsConsumer
  PublishingRecovers
  ReconnectionConsumes
