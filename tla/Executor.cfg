CONSTANTS
  Keys <- MCKeys
  Estates <- MCEstates
  MaxPosts = 2
  MaxAdded = 2
SPECIFICATION Spec
CHECK_DEADLOCK FALSE
INVARIANTS RestsInAConfiguration EventsHandledOnce ChecksSuffice
PROPERTIES CountIsExact
