SPECIFICATION Spec
CONSTANTS
  bucket = bucket
  Key = {k1, k2}
  Value = {1, 2}
  Bucket <- MCBucket
  Entry = {e1, e2, e3}
  Reader = {r1}
  None = None
  MaxPut = 3
  MaxEra = 3
  MaxGet <- MCGet
  FailBeforeCas = TRUE
INVARIANTS
  NoDanglingEntry
CHECK_DEADLOCK FALSE
