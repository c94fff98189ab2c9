SPECIFICATION NodeSpec
CONSTANTS
  Key <- Keys2
  Value <- Values2
  NoValue = ""
  Block <- Blocks2
  Files <- TwoCases
  PoolSize = 1
  MaxStart = 2
  Node = {self, other}
  Self = self
  Message <- Messages
CHECK_DEADLOCK FALSE
INVARIANTS
  TypeOK
  ReplayExplained
  NobodySkipped
PROPERTIES
  StoreSpec
  RecoveryEnds
  RoundEnds
