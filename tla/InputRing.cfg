SPECIFICATION FairSpec
CONSTANTS
  Capacity = 2
  Readers <- AllReaders
  BlpDeps <- AllDeps
  Messages = {order, garbage}
  Malformed = {garbage}
  Null = Null
  Total = 4
INVARIANTS
  TypeOK
  RaceFree
  FreshSlot
  InOrderDelivery
  BlpAfterStage1
  Backpressure
  DropSound
PROPERTIES
  AllHandled
  ImplementsFifo
