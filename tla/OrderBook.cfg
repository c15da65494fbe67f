SPECIFICATION Spec
CONSTANTS
  Radix = 2
  Null = Null
  Capacity = 3
  GenLimit = 2
  BasePrice = 1
  TickSize = 1
  Orders <- SmallOrders
  UsedTicks = {0, 1, 2, 6}
INVARIANTS
  TypeOK
  LevelsAreQueues
  SlotsAccounted
  LevelsAgree
  BestLevelsFound
  LevelTotals
