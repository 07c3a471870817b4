SPECIFICATION Spec
CONSTANTS
  NClient = 2
  NBlock = 2
  NRoot = 2
  MaxEmbed = 1
  Budget <- MCBudgetNoFail
  Maker = {1}
  FailOnStale = FALSE
INVARIANTS
  NothingLeaks
CHECK_DEADLOCK FALSE
