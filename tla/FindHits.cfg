\* The expansion of every slot, then the three finders with all samples over
\* two windows.
SPECIFICATION FindHitsSpec
CONSTANTS
  NumLanes = 2
  Half = 512
  Algorithms = {"FIR", "SWTPG", "AbsRS"}
  ADCs <- MCADCs
  AccLimit = 1
  Spread = 2
  multiplier = 16
  Taps <- MCTaps
  Threshold = 5
  WindowFrames = 3
  MaxSamples = 6
CHECK_DEADLOCK FALSE
INVARIANTS
  SlotHoldsItsChannel
  PathsAgree
  OfflineMapRight
  TPsMatchHits
  ScalarAgrees
