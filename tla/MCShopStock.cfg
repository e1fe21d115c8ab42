SPECIFICATION FairSpec
CONSTANTS
  h1 = h1
  h2 = h2
  Handlers = {h1, h2}
  Scenarios <- MCScenarios
  Quantities = {1, 2}
  Losses = {0, 2}
  Window = 0
  MaxRequests = 3
  None = None
INVARIANT
  StockInv
PROPERTIES
  AdjustHitsTarget
  EveryRequestEnds
