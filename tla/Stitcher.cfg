\* Two channels, two runs, and gaps both shorter and longer than int.
SPECIFICATION Spec
CONSTANTS
  Channels = {c1, c2}
  LastTick = 1
  TickLength = 2
  StitchConstant = 4
  Ulp = 2
  IntHalf = 16
  Timestamps = {1, 5, 9, 26}
  Peaks = {1, 2}
  MaxHits = 3
  MaxRuns = 2
INVARIANTS EveryHitOnce HandedInOrder StitchedNeighbours HitsRejoined
  FieldsOfParts StaleOncePerRun
CHECK_DEADLOCK FALSE
