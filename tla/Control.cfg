SPECIFICATION ControlFairSpec
CONSTANTS
  Calls = {r0, r1}
  First = r0
  Segments = 3
  PauseOnStart = FALSE
  None = None
INVARIANTS CancelledRunStops PausedRunRests
PROPERTY CallsEnd
CHECK_DEADLOCK FALSE
