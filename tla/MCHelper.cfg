CONSTANTS
  MaxSessions = 2
  MaxKills = 1
  Faults = {"timeout", "helperStops", "helperDies", "spawnFails", "overlap", "refused"}
SPECIFICATION Spec
INVARIANTS KillEnds DnsIsOwn SignalsHitVpn
PROPERTIES OthersKeepTunnel
CHECK_DEADLOCK FALSE
