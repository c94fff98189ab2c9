SPECIFICATION FairSpec
CONSTANTS
  DirExists = TRUE
  MaxClock = 3
  MaxCrash = 4
  MaxFail = 1
CHECK_DEADLOCK FALSE
INVARIANTS
  TypeOK
  KeyPairMatches
  IdentityStable
PROPERTY ReadyEventually
