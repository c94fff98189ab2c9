SPECIFICATION Spec
CONSTANTS
  Primes <- SmallPrimes
  Bytes <- SomeBytes
  Digits <- SomeDigits
  Characters <- SomeCharacters
  Longest <- Bounds
  Lines <- FewLines
CHECK_DEADLOCK FALSE
INVARIANTS
  BlocksWhole
  BytesKept
  SignatureReadsBack
  LengthReadsBack
  PairReadsBack
  LastValueStays
