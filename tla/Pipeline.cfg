SPECIFICATION FairSpec
CONSTANTS
  InCapacity = 2
  OutCapacity = 2
  Readers <- NoReader
  BlpDeps <- MainDeps
  Messages = {order, garbage}
  Malformed = {garbage}
  Null = Null
  EventBufferLen = 2
  Draining = TRUE
  MaxEmitted = 3
  Total = 6
INVARIANTS
  TypeOK
  OneCommandAhead
  OutcomesInOrder
  EndToEndBackpressure
PROPERTIES
  AllOut
  ClientStalls
