SPECIFICATION FairSpec
CONSTANTS
  Profiles = {local, team}
  Local = local
  Calls = {c1, c2}
  MaxChanges = 1
  None = None
  Failed = Failed
  Lost = Lost
INVARIANTS CachesReachFloor
PROPERTIES ImplementsSource CallsEnd
CHECK_DEADLOCK FALSE
