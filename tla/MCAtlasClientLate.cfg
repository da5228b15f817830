SPECIFICATION UncancelledSpec
CONSTANTS
  Calls = {c1}
  Period = 2
  Burst = 1
  Lives <- TimeoutLives
  Challenges = {"usable"}
  Failing = {503}
  Requests <- OneCallRequests
PROPERTIES
  NoAnswerAfterTimeout
