SPECIFICATION Spec
CONSTANTS
  First = c1
  Second = c2
  Calls <- BothCalls
  MaxConcurrent = 1
  Failing = {503}
  Requests <- BothRequests
INVARIANTS
  CalledBackOnce
CHECK_DEADLOCK FALSE
