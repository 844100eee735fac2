CONSTANTS
  Configs <- SmallConfigs
  Addresses = {1}
  MaxRuns = 2
  MaxGrants = 2
  Faults = {"fcntl", "arguments", "waitpid"}
SPECIFICATION FairSpec
INVARIANTS ConnectionWhole SendsOnlyVerified SessionsLoggedOut PppdEnded OtpOfFormsUsedOnce
PROPERTIES SignalEndsProcess
CHECK_DEADLOCK FALSE
