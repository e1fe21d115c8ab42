SPECIFICATION MCSpec
CONSTANTS
  h1 = h1
  h2 = h2
  i1 = i1
  i2 = i2
  Handlers = {h1, h2}
  Crews <- Everyone
  Items = {i1, i2}
  Edits <- MCEdits
  Opening <- MCOpening
  AdminWindow = 2
  MaxTime = 2
  MaxRequests = 4
  Tokens = {}
  Categories = {}
  Draw <- NoDraw
  Prices = {1}
  OpeningStock = 0
  Window = 1
  Months = {"month"}
  Calendar <- OneMonth
  MaxSequence = 1
  MaxSends = 0
  None = None
INVARIANTS
  BillInv
  AuditTellsLast
