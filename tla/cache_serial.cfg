SPECIFICATION Spec
CONSTANTS
  Tx = {t1, t2, t3, t4}
  Null = Null
  MaxStamp = 3
  Serial = TRUE
CHECK_DEADLOCK FALSE
SYMMETRY TxSymmetry
INVARIANTS
  CrashExplained
PROPERTY SortedSpec
