SPECIFICATION Spec
CONSTANTS
  Radix = 2
  Null = Null
  Capacity = 2
  GenLimit = 2
  BasePrice = 1
  TickSize = 1
  Clients = {c1, c2}
  ClientOrders = {k1, k2}
  MaxOpenOrders = 2
  EventBufferLen = 1
  Prices = {1, 8, 9}
  Quantities = {0, 1, 2}
  NewPrices = {Null, 0, 8}
  NewQtys = {Null, 0, 1, 2}
  MaxOrderId = 3
  MaxFilled = 1
  ReuseIds = TRUE
SYMMETRY Symmetry
INVARIANTS
  TypeOK
  IndexSound
  OpenOrdersCounted
  ReinsertHasRoom
PROPERTIES
  FillsCross
