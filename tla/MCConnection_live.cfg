CONSTANTS
  Main = Main
  None = None
  w1 = w1
  w2 = w2
  Workers = {w1, w2}
  MaxAttempts = 2
  MaxCalls = 2
  Tries = 1
  Callers = {"window", "tray"}
  Faults = {"noProfile", "noSecret", "spawnFails", "killFails"}
  Prints = {"saml", "up", "down"}
SPECIFICATION FairSpec
PROPERTIES EveryCallReturns DisconnectingResolves MonitorsStop
CHECK_DEADLOCK FALSE
