SPECIFICATION FairSpec
CONSTANTS
  A = A
  B = B
  C = C
  Node <- Two
  HeartbeatInterval = 1
  VoteThreads = 1
  RequiredChecked = FALSE
  Lossy = TRUE
  Overlap = TRUE
  MaxLate = 1
  MaxRestart = 0
PROPERTIES
  SomebodyLeads
  CandidateResolves
