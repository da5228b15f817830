SPECIFICATION FairSpec
CONSTANTS
  Calls = {c1}
  Period = 2
  Burst = 1
  Lives <- OneCallLives
  Challenges = {"usable"}
  Failing = {503}
  Requests <- OneCallRequests
INVARIANTS
  NeverPanics
