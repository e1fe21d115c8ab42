SPECIFICATION Spec
CONSTANTS
  Goods <- MCGoods
  Pieces <- MCPieces
  Catalogue <- MCCatalogue
  Prices <- MCPrices
  Typed <- MCTyped
  Kinds <- MCKinds
  MaxChanges = 1
  MaxAdded = 2
  MaxPresses = 2
INVARIANTS LinesAddUp BilledAsPaid BilledOnce
CHECK_DEADLOCK FALSE
