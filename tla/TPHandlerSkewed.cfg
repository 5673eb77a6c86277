\* WIB2TPHandler with callers as far apart as the bound on time allows.
SPECIFICATION Spec
CONSTANTS
  Timeout = 1
  Window = 2
  Skew = 7
  DropLate = TRUE
  Runs = {1}
  MaxTime = 7
  MaxTPs = 3
INVARIANTS Partition LateExactly NeverLate
