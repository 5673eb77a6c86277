\* Configurations with and without software TPG, and their runs: every
\* superchunk is handed from thread to thread.
SPECIFICATION FairSpec
CONSTANTS
  EnableChoices = {TRUE, FALSE}
  MaxConfs = 3
  MaxRuns = 3
  MaxItems = 4
INVARIANTS HitsOfThisItem ItemAlive CollectionSeeded
PROPERTIES NoLostSignal CollectionReturns ScrapEnds
CHECK_DEADLOCK FALSE
