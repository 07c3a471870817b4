SPECIFICATION FairSpec
CONSTANTS
  NClient = 2
  NBlock = 2
  NRoot = 2
  MaxEmbed = 2
  Budget <- MCBudget
  Maker = {1}
  FailOnStale = FALSE
INVARIANTS
  CountExact
  NoWildPointer
  ReleaseHolds
PROPERTIES
  ImplementsSharedObjects
  ReleaseEnds
  RecoveryEnds
CHECK_DEADLOCK FALSE
