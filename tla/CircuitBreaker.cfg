SPECIFICATION CircuitFairSpec
CONSTANTS
  Calls = {c1, c2}
  MaxConcurrentRequests = 1
  RequestVolumeThreshold = 1
  ErrorPercentThreshold = 50
INVARIANTS
  CircuitTypeOK
  PassesOn
  NoRaceInTime
  LimitKept
PROPERTY CallsReturn
CHECK_DEADLOCK FALSE
