SPECIFICATION Spec
CONSTANTS
  m1 = m1
  m2 = m2
  Tokens = {t1, t2}
  Handlers = {h1, h2, h3}
  Categories = {c1}
  Draw <- MCDraw
  Prices = {0, 1, 2}
  OpeningStock = 2
  Window = 1
  Months = {m1, m2}
  Calendar <- MCCalendar
  MaxSequence = 2
  MaxTime = 2
  MaxSends = 4
  None = None
SYMMETRY Symmetric
INVARIANTS
  OneBillPerToken
  NumbersDense
  StockDrawnOnce
  AnswersHold
