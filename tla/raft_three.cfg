SPECIFICATION Spec
CONSTANTS
  A = A
  B = B
  C = C
  Node <- Three
  HeartbeatInterval = 1
  VoteThreads = 1
  RequiredChecked = FALSE
  Lossy = TRUE
  Overlap = FALSE
  MaxLate = 1
  MaxRestart = 0
CONSTRAINT TwoStand
SYMMETRY CandidateSymmetry
INVARIANTS
  LeaderBacked
  VotesBounded
  FirstElectionUnique
