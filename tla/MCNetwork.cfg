SPECIFICATION Spec
CONSTANTS
  Cases <- MCCases
  MaxSplit = 2
  MaxFaults = 1
  MaxRenewals = 1
INVARIANTS GatewayOutsideTunnel HalfRoutesSurviveRenewal RoutesRestored ResolvRestored
PROPERTIES ForeignRoutesKept
CHECK_DEADLOCK FALSE
