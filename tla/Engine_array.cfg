SPECIFICATION Spec
CONSTANTS
  Radix = 2
  Null = Null
  Capacity = 4
  GenLimit = 2
  BasePrice = 1
  TickSize = 1
  Clients = {c1}
  ClientOrders = {k1, k2, k3, k4}
  MaxOpenOrders = 4
  EventBufferLen = 2
  Prices = {1}
  Quantities = {1, 4}
  NewPrices = {Null}
  NewQtys = {Null}
  MaxOrderId = 4
  MaxFilled = 1
  ReuseIds = FALSE
INVARIANTS
  StreamTellsBook
