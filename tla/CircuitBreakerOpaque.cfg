SPECIFICATION CircuitSpec
CONSTANTS
  Calls = {c1}
  MaxConcurrentRequests = 1
  RequestVolumeThreshold = 1
  ErrorPercentThreshold = 50
INVARIANT DocumentedErrors
CHECK_DEADLOCK FALSE
