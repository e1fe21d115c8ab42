SPECIFICATION Spec
CONSTANTS
  h1 = h1
  h2 = h2
  b1 = b1
  b2 = b2
  p1 = p1
  Handlers = {h1, h2}
  Crews <- MCCrews
  Shops = {b1, b2}
  SaleIds = {1, 2}
  ShopOf <- MCShopOf
  Purchases = {p1}
  Amounts = {1, 2}
  Opening = 1
  Owing <- MCOwing
  MaxRequests = 3
  None = None
INVARIANT
  LedgerInv
PROPERTIES
  CancelIsFinal
  OldestFirst
