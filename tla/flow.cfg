SPECIFICATION Spec
CONSTANTS
  Node = {A, B}
  Store = {s}
  Genesis = Genesis
  MaxTx = 1
  MaxHeight = 2
  MaxRestart = 1
  MaxRetry = 1
SYMMETRY NodeSymmetry
CONSTRAINT OneMaker
CHECK_DEADLOCK FALSE
INVARIANTS
  TypeOK
  HeadWhole
  PeersAgree
  StoresFollow
PROPERTIES
  HeightsGrow
  ChainGrows
