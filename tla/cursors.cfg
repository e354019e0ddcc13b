SPECIFICATION StoreSpec
CONSTANTS
  MaxCursors = 3
  MaxBytes = 4
  Sizes = {0, 1, 3, 5}
  MaxResults = 7
INVARIANTS
  StoreIsSound
PROPERTIES
  EvictsOnlyWhatItMust
  GoneStaysGone
CHECK_DEADLOCK FALSE
