SPECIFICATION ListSpec
CONSTANTS
  Screens <- Lists
  Queries <- MCQueries
  Pages = 3
  MaxLoads = 5
INVARIANTS ListTypeOK ListsWhatIsAsked PagesInOrder
PROPERTY SpinnersStop
CHECK_DEADLOCK FALSE
