SPECIFICATION FairSpec
CONSTANTS
  Scripts <- SomeScripts
  Margins = {0, 1}
  MaxSwitches = 1
  MaxTyped = 1
INVARIANTS DocumentFollowsChoices LensesShowHunks
PROPERTY RunEnds
CHECK_DEADLOCK FALSE
