SPECIFICATION MCSpec
CONSTANTS
  c1 = c1
  k1 = k1
  Streams <- MCStreams
  Commands = {k1}
  Length <- MCLength
  None = None
  Sent = 3
INVARIANTS DeliveredInOrder ReturnIsTrue AbortStopsModel UncutMessagesAreHandled
PROPERTY StreamsReturn
CHECK_DEADLOCK FALSE
