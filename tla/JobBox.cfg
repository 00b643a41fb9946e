SPECIFICATION Spec
CONSTANTS
  jo = jo
  jb = jb
  jx = jx
  jy = jy
  none = none
  None = none
  Jobs <- MCJobs
  Catalogs <- MCCatalogs
  MaxNested = 2
INVARIANTS
  NoBoxHangs
  TerminatorsEndTheirRun
  IdleBoxAgrees
  NoWakeLost
PROPERTIES
  OverrideBeatsWake
CHECK_DEADLOCK FALSE
