SPECIFICATION FairSpec
CONSTANTS
  Calls = {c1}
  Period = 2
  Burst = 1
  Lives <- OneCallLives
  Challenges = {"usable", "unsupported", "missing"}
  Failing = {400, 404, 409, 500, 503}
  Requests <- OneCallRequests
INVARIANTS
  ClientTypeOK
  AtMostOnce
  OncePerAttempt
  WholeBody
  NothingLeftOpen
  TwoSendsPerToken
PROPERTIES
  NoNewTurnAfterDeadline
  ImplementsApiCall
  Returns
