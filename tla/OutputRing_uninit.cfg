SPECIFICATION Spec
CONSTANTS
  Capacity = 2
  EventBufferLen = 2
  Events = {accepted, fill}
  Stamps = {1}
  Null = Null
  Draining = TRUE
  MaxEvents = 3
INVARIANTS
  InitializedSlot
