CONSTANTS
  Platform = "macOS"
  MaxPackets = 2
  MaxPolls = 0
  MaxSignals = 0
  Faults = {"createFails", "selectFails", "mallocFails"}
SPECIFICATION Spec
INVARIANTS NoLostWakeup PppdTalksFirst RoutesLeftOnlyByCancel LeftBehindHarmless
PROPERTIES PtyToSslInOrder SslToPtyInOrder
CHECK_DEADLOCK FALSE
