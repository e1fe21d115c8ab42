SPECIFICATION MCSpec
CONSTANTS
  Forms <- AppEditors
  Records <- MCRecords
  MaxTyped = 2
  MaxSaves = 3
  MaxPicked = 2
  MaxActs = 3
INVARIANTS
  ShowsWhatIsSaved
  EditorInv
PROPERTIES
  SavesEnd
  SavedIsShown
CHECK_DEADLOCK FALSE
