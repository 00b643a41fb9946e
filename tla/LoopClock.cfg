SPECIFICATION Spec
CONSTANTS
  a = a
  b = b
  r1 = r1
  r2 = r2
  Jobs <- MCJobs
  Runs <- MCRuns
  OldTicks <- MCOldTicks
  NewTicks <- MCNewTicks
  Delay <- MCDelay
  Follows <- MCFollows
  Commanded <- MCCommanded
  MaxTime = 2
  MaxBack = 1
  MaxCrashes = 2
INVARIANTS
  EveryTickOnce
PROPERTIES
  EndBeatsDeadline
  InDueOrder
CHECK_DEADLOCK FALSE
