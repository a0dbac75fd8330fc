SPECIFICATION FairSpec
CONSTANTS
  Sites = {s1}
  Revs = {r1, r2}
  Providers = {e1}
  Runs = {a, b}
  Syncs = {y1, y2}
  First = y1
  Copies = 2
  Budget = 2
  None = None
INVARIANTS SpinnerHasARun IndexedSitesHaveRows
PROPERTY ComesToRest
CHECK_DEADLOCK FALSE
