\* A stitched hit that ends with its frame and does not go on: does it leave
\* with the TP it continues?
SPECIFICATION Spec
CONSTANTS
  Channels = {c1}
  LastTick = 1
  TickLength = 2
  StitchConstant = 4
  Ulp = 2
  IntHalf = 16
  Timestamps = {1, 5, 9}
  Peaks = {1}
  MaxHits = 3
  MaxRuns = 1
INVARIANTS BadHitLeftOut
CHECK_DEADLOCK FALSE
