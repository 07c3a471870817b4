SPECIFICATION Spec
CONSTANTS
  Thread = {1, 2}
  MAX_THREAD = 3
  REDO_CACHELINE_CNT = 2
  CNT_LIMIT = 65536
  a1 = a1  a2 = a2  b1 = b1  c1 = c1  o1 = o1  o2 = o2
  RootRef = {a1, a2, b1}
  CXLObj = {o1, o2}
  Home <- MCHome
  NULL = NULL
  InitEra <- FreshEras
  MaxEra = 4
  Quiescent = TRUE
INVARIANTS TypeOK CountExact CountFits EraCausal RedoHarmless
PROPERTIES NoABA ImplementsAtomicRefs
CHECK_DEADLOCK FALSE
