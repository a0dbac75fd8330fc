SPECIFICATION SteadySpec
CONSTANTS
  Paths = {p1, p2}
  Editable = {}
  Contents = {empty, a}
  EmptyText = empty
  Branches = {main}
  Runs = {r1}
  FilesPerBatch = 1
  MaxClock = 3
  NoFile = NoFile
  NoBuffer = NoBuffer
  Parts <- OnePart
  MaxCopies = 2
INVARIANT IndexedFilesHaveChunks
CHECK_DEADLOCK FALSE
