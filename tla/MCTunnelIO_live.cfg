CONSTANTS
  Platform = "linux"
  MaxPackets = 1
  MaxPolls = 1
  MaxSignals = 1
  Faults = {"createFails"}
SPECIFICATION FairSpec
PROPERTIES PacketsMove StopEndsOrSticks
CHECK_DEADLOCK FALSE
