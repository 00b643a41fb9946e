SPECIFICATION FairSpec
CONSTANTS
  Jobs = {j1}
  MaxRuns = 2
  MaxAttempts = 2
  Overwrites = FALSE
INVARIANTS
  OneOpenPerJob
  RunNeverLost
PROPERTIES
  WantedRunGoes
  DispatchedOnce
