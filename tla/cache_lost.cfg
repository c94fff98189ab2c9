SPECIFICATION Spec
CONSTANTS
  Tx = {t1, t2, t3}
  Null = Null
  MaxStamp = 2
  Serial = TRUE
CHECK_DEADLOCK FALSE
INVARIANT NoTxLost
