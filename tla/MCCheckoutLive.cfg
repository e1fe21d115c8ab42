SPECIFICATION FairSpec
CONSTANTS
  m1 = m1
  m2 = m2
  Tokens = {t1, t2, t3}
  Handlers = {h1, h2}
  Categories = {c1}
  Draw <- MCDraw
  Prices = {0, 1}
  OpeningStock = 3
  Window = 1
  Months = {m1, m2}
  Calendar <- MCCalendar
  MaxSequence = 2
  MaxTime = 1
  MaxSends = 3
  None = None
PROPERTIES
  BookSpec
  EveryRequestEnds
