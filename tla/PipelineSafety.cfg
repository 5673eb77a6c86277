\* Two configurations, with and without software TPG, and a wrong algorithm.
SPECIFICATION Spec
CONSTANTS
  Capacity = 1
  Extra = 1
  Buffers = {b1, b2, b3, b4}
  Halves = {h0, h1}
  EnableChoices = {TRUE, FALSE}
  Algorithms = {"AbsRS", "other"}
  MaxConfs = 2
  MaxRuns = 3
  NoBuffer = NoBuffer
SYMMETRY Symmetry
INVARIANTS NoStarvation LeakBound NeverAborts SeededThisRun ExclusiveBuffers
  NoDanglingBuffers
PROPERTIES ImplementsBufferPool
CHECK_DEADLOCK FALSE
