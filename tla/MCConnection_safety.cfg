CONSTANTS
  Main = Main
  None = None
  w1 = w1
  w2 = w2
  Workers = {w1, w2}
  MaxAttempts = 2
  MaxCalls = 3
  Tries = 1
  Callers = {"window", "tray"}
  Faults = {"noProfile", "noSecret", "spawnFails", "spawnLost", "killFails", "killUnheard"}
  Prints = {"up", "down"}
SPECIFICATION Spec
SYMMETRY WorkerSymmetry
INVARIANTS TrackedIsWatched ConfsTracked
PROPERTIES StrandedBySecret LossIsReported
CHECK_DEADLOCK FALSE
