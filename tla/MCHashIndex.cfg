SPECIFICATION FairSpec
CONSTANTS
  bucket = bucket
  Key = {k1, k2}
  Value = {1, 2}
  Bucket <- MCBucket
  Entry = {e1, e2, e3}
  Reader = {r1}
  None = None
  MaxPut = 3
  MaxEra = 3
  MaxGet <- MCGet
  FailBeforeCas = FALSE
INVARIANTS
  TypeOK
  CountExact
  NoDanglingEntry
  KeysUnique
PROPERTIES
  EntriesStay
  ImplementsKeyValue
  GetEnds
CHECK_DEADLOCK FALSE
