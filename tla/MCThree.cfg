SPECIFICATION FairSpec
CONSTANTS
  Thread = {1, 2, 3}
  MAX_THREAD = 4
  REDO_CACHELINE_CNT = 1
  CNT_LIMIT = 65536
  a1 = a1  a2 = a2  b1 = b1  c1 = c1  o1 = o1  o2 = o2
  RootRef = {a1, b1, c1}
  CXLObj = {o1}
  Home <- MCHome
  NULL = NULL
  InitEra <- ApartEras
  MaxEra = 2
  Quiescent = FALSE
INVARIANTS EvidenceExact
PROPERTIES ClientsNotBlocked RecoveryCompletes
CHECK_DEADLOCK FALSE
