SPECIFICATION FairSpec
CONSTANTS
  Radix = 2
  Null = Null
  Capacity = 2
  GenLimit = 1
  BasePrice = 1
  TickSize = 1
  Clients = {c1}
  ClientOrders = {k1, k2}
  MaxOpenOrders = 3
  EventBufferLen = 16
  Prices = {1, 8}
  Quantities = {1, 2}
  NewPrices = {Null, 8}
  NewQtys = {1,2}
  MaxOrderId = 3
  MaxFilled = 1
  ReuseIds = TRUE
PROPERTIES
  CommandsEnd
  ImplementsPriceTime
