SPECIFICATION FairSpec
CONSTANTS
  j1 = j1
  j2 = j2
  Jobs <- MCJobs
  Estates <- MCEstates
  MaxRuns = 2
  MaxInputs = 1
  MaxCrashes = 1
PROPERTIES
  StopsFinishedFirst
  NothingGoesOnUnderTheOld
  UpdateGoesThrough
CHECK_DEADLOCK FALSE
