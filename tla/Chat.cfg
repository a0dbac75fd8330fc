SPECIFICATION FairSpec
CONSTANTS
  Runs = {a, b}
  Calls = 2
  MaxActs = 2
  MaxItems = 5
  None = None
INVARIANTS ActiveHasARun ToolAnswersItsCall
PROPERTIES ClosedCallsStayClosed ResponseEnds
CHECK_DEADLOCK FALSE
