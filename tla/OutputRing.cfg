SPECIFICATION FairSpec
CONSTANTS
  Capacity = 2
  EventBufferLen = 3
  Events = {accepted, fill}
  Stamps = {1, 2}
  Null = Null
  Draining = TRUE
  MaxEvents = 5
INVARIANTS
  TypeOK
  NoOverwrite
  NothingLost
  DeliveredInOrder
PROPERTIES
  AllDelivered
  ImplementsFifo
