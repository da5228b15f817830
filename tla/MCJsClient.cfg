SPECIFICATION FairSpec
CONSTANTS
  First = c1
  Second = c2
  Calls <- BothCalls
  MaxConcurrent = 1
  Failing = {204, 401, 409, 500, 503}
  Requests <- BothRequests
INVARIANTS
  JsTypeOK
  WithinLimit
  SameAsGo
PROPERTIES
  Informed
  ImplementsApiCall
CHECK_DEADLOCK FALSE
