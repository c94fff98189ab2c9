SPECIFICATION FairSpec
CONSTANTS
  Tx = {t1, t2, t3}
  Null = Null
  MaxStamp = 2
  Serial = FALSE
CHECK_DEADLOCK FALSE
INVARIANTS
  TypeOK
  PassedOnce
  LossExplained
PROPERTY DistributeEnds
