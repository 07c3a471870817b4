SPECIFICATION Spec
CONSTANTS
  NClient = 2
  NBlock = 2
  NRoot = 2
  MaxEmbed = 1
  Budget <- MCBudgetReuse
  Maker = {1}
  FailOnStale = TRUE
INVARIANTS
  ReleaseFollowsReferences
CHECK_DEADLOCK FALSE
