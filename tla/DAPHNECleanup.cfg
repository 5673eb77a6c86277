SPECIFICATION Spec
CONSTANTS
  m_max_ts_diff = 2
  Modulus = 7
  MaxInserts = 7
CHECK_DEADLOCK FALSE
INVARIANTS
  HeadExists
PROPERTIES
  OnlyOldRemoved
