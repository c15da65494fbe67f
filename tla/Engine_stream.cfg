SPECIFICATION Spec
CONSTANTS
  Radix = 2
  Null = Null
  Capacity = 3
  GenLimit = 2
  BasePrice = 1
  TickSize = 2
  Clients = {c1, c2}
  ClientOrders = {k1, k2}
  MaxOpenOrders = 2
  EventBufferLen = 2
  Prices = {1, 2}
  Quantities = {1, 2}
  NewPrices = {15}
  NewQtys = {1, 2}
  MaxOrderId = 3
  MaxFilled = 1
  ReuseIds = FALSE
SYMMETRY Symmetry
INVARIANTS
  StreamTellsBook
  EveryOrderReachable
PROPERTIES
  FillsCross
