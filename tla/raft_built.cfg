SPECIFICATION FairSpec
CONSTANTS
  A = A
  B = B
  C = C
  Node <- Two
  HeartbeatInterval = 1
  VoteThreads = 2
  RequiredChecked = TRUE
  Lossy = TRUE
  Overlap = FALSE
  MaxLate = 1
  MaxRestart = 0
INVARIANT LeaderAlone
PROPERTIES
  EveryNodeLeads
