\* Hits of one run sent in the next.
SPECIFICATION Spec
CONSTANTS
  Capacity = 1
  Extra = 2
  Buffers = {b1, b2, b3}
  Halves = {0, 1}
  EnableChoices = {TRUE}
  Algorithms = {"SWTPG"}
  MaxConfs = 1
  MaxRuns = 2
  NoBuffer = NoBuffer
INVARIANTS RunIsolation
CHECK_DEADLOCK FALSE
