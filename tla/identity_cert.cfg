SPECIFICATION Spec
CONSTANTS
  DirExists = TRUE
  MaxClock = 1
  MaxCrash = 1
  MaxFail = 0
CHECK_DEADLOCK FALSE
INVARIANT StoredCertReused
