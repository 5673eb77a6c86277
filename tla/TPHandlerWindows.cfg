\* WIBTPHandler with the skew of 2 ticks that its strict comparisons forgive.
SPECIFICATION FairSpec
CONSTANTS
  Timeout = 1
  Window = 2
  Skew = 2
  DropLate = FALSE
  Runs = {1}
  MaxTime = 8
  MaxTPs = 2
INVARIANTS CompleteWindows
PROPERTIES ImplementsWindowing OverdueTPsLeave
