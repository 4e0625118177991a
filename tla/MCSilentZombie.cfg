\* The processes stop once both have shut down.
CHECK_DEADLOCK FALSE
SPECIFICATION LinksSpec
CONSTANTS
  MaxFaults = 1
  MaxChannels = 2
  None = None
INVARIANT
  NoSilentZombie
