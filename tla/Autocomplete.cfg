SPECIFICATION FairSpec
CONSTANTS
  MaxRequests = 2
  Inputs <- MCInputs
  Chunks <- MCChunks
  Newline = "n"
  Wild = "_"
  Percent = "%"
  Letters <- MCLetters
  MaxChunks = 2
  Capacity = 1
INVARIANTS TypeOK PendingIsOfCurrent CompletionContinues EndedIsComplete
PROPERTIES RequestsEnd
CHECK_DEADLOCK FALSE
