SPECIFICATION MCSpec
CONSTANTS
  Calls = {c1, c2, c3}
  Period = 2
  Burst = 1
  Lives <- MCLives
  MaxClock = 4
  MaxLog = 3
  MaxDebt = 6
SYMMETRY CallSymmetry
INVARIANTS
  LimiterTypeOK
  WindowBound
  OwnToken
  NoOvertaking
  DueInTime
  RateKept
CHECK_DEADLOCK FALSE
