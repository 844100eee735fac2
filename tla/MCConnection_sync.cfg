CONSTANTS
  Main = Main
  None = None
  w1 = w1
  w2 = w2
  Workers = {w1, w2}
  MaxAttempts = 1
  MaxCalls = 1
  Tries = 2
  Callers = {"tray"}
  Faults = {"spawnFails"}
  Prints = {}
SPECIFICATION FairSpec
PROPERTY ManagerFollowsEvents
