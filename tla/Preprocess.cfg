SPECIFICATION Spec
CONSTANTS
  Processors = {"WIB", "WIB2", "WIBEth", "TDE", "DAPHNE", "DAPHNEStream", "SSP", "RAWWIBTP"}
  Frames = 2
  Channels = {c1, c2}
  ProblemLimit = 1
  MaxChunks = 5
  MaxRuns = 2
  ErrorBits = {b1, b2}
  Threshold = 1
  Period = 3
  MaxFrames = 10
  MaxTPFrames = 4
  MaxTPHits = 3
CONSTANTS
  c1 = c1
  c2 = c2
  b1 = b1
  b2 = b2
CHECK_DEADLOCK FALSE
INVARIANTS
  GapsRegistered
  EmulatedContiguous
  ProblemAfterLimit
  ErrorSinkBounded
  UnpackedAsSent
  EveryHitStitched
