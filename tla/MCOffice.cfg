SPECIFICATION MCSpec
CONSTANTS
  Items <- MCItems
  Shops <- MCShops
  Retailers <- MCRetailers
  ShopOf <- MCShopOf
  Searches <- MCSearches
  Found <- MCFound
  MaxLoads = 2
  MaxSaves = 2
  hall = hall
  annex = annex
  mutton = mutton
  BoardShops <- MCBoardShops
  BoardItems <- MCBoardItems
  DayPrices <- MCDayPrices
  Sells <- MCSells
  MaxCalls <- MCMaxCalls
  NoPrice = NoPrice
  LastDay = 3
  PerMonth = 2
  Spill = 1
INVARIANTS
  
  PricedAreAllocated
  AsksForward
PROPERTY ScreenSettles
CHECK_DEADLOCK FALSE
