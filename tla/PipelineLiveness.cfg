\* Stop and scrap end.
SPECIFICATION FairSpec
CONSTANTS
  Capacity = 1
  Extra = 2
  Buffers = {b1, b2, b3}
  Halves = {0, 1}
  EnableChoices = {TRUE}
  Algorithms = {"SWTPG"}
  MaxConfs = 1
  MaxRuns = 2
  NoBuffer = NoBuffer
PROPERTIES StopEnds ScrapEnds
CHECK_DEADLOCK FALSE
