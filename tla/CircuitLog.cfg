SPECIFICATION LogSpec
CONSTANTS
  Circuits = {k1, k2}
  LogFrequency = 2
  Buffer = 2
INVARIANTS
  LogTypeOK
  LogShowsState
  NotSilent
