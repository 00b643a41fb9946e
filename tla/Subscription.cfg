SPECIFICATION FairSpec
CONSTANTS
  Sizes = {1, 3}
  Budget = 3
  HighWater = 1
  MaxLog = 4
  MaxConnects = 2
PROPERTIES
  RecordsArrive
  InputsExactlyOnce
  NothingRetainedIsLost
CHECK_DEADLOCK FALSE
