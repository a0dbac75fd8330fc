SPECIFICATION MCSpec
CONSTANTS
  Paths = {p1, p2}
  Editable = {p1, p2}
  Contents = {empty, a}
  EmptyText = empty
  Branches = {main, dev}
  Runs = {r1, r2}
  FilesPerBatch = 1
  MaxClock = 2
  NoFile = NoFile
  NoBuffer = NoBuffer
SYMMETRY Symmetry
INVARIANTS FreshRowsTruthful TwoRefreshesConverge OneRefreshLeavesNoStaleRow
CHECK_DEADLOCK FALSE
