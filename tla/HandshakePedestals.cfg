\* The pedestals of the induction group after a restart.
SPECIFICATION Spec
CONSTANTS
  EnableChoices = {TRUE}
  MaxConfs = 1
  MaxRuns = 2
  MaxItems = 2
INVARIANTS InductionSeeded
CHECK_DEADLOCK FALSE
