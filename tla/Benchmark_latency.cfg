SPECIFICATION BenchSpec
CONSTANTS
  InCapacity = 1
  OutCapacity = 2
  Readers <- NoReader
  BlpDeps <- MainDeps
  Messages = {order}
  Malformed = {}
  Null = Null
  EventBufferLen = 2
  Draining = FALSE
  MaxEmitted = 1
  Total = 2
  MaxNow = 3
INVARIANTS
  LatencyOfThePipeline
CHECK_DEADLOCK FALSE
