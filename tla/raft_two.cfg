SPECIFICATION Spec
CONSTANTS
  A = A
  B = B
  C = C
  Node <- Two
  HeartbeatInterval = 1
  VoteThreads = 2
  RequiredChecked = FALSE
  Lossy = TRUE
  Overlap = FALSE
  MaxLate = 1
  MaxRestart = 1
SYMMETRY NodeSymmetry
INVARIANTS
  TypeOK
  LeaderBacked
PROPERTIES
  RoleSpec
