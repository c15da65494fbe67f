SPECIFICATION Spec
CONSTANTS
  Radix = 2
  Null = Null
  Capacity = 2
  GenLimit = 2
  BasePrice = 1
  TickSize = 1
  Clients = {c1}
  ClientOrders = {k1}
  MaxOpenOrders = 2
  EventBufferLen = 16
  Prices = {1}
  Quantities = {1}
  NewPrices = {Null}
  NewQtys = {Null}
  MaxOrderId = 3
  MaxFilled = 1
  ReuseIds = TRUE
INVARIANTS
  CancelRejectedOnlyIfGone
