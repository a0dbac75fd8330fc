SPECIFICATION MCSpec
CONSTANTS
  Paths = {p1}
  Editable = {}
  Contents = {empty, short, long}
  EmptyText = empty
  short = short
  long = long
  Branches = {main, dev}
  Runs = {r1}
  FilesPerBatch = 1
  MaxClock = 5
  NoFile = NoFile
  NoBuffer = NoBuffer
  Parts <- Lengths
  MaxCopies = 3
  MaxId = 3
SYMMETRY Symmetry
INVARIANTS ListedChunksFound OnlyListedChunksFound ListedVectorsFound ListedSnippetsShown
CHECK_DEADLOCK FALSE
