SPECIFICATION Spec
CONSTANTS
  j1 = j1
  j2 = j2
  j3 = j3
  r = r
  m = m
  Jobs <- MCJobs
  Resources = {r}
  Machine = m
  Catalogs <- MCCatalogs
  Injects = {"idle", "success", "failure", "running"}
INVARIANTS
  NoneWaitsInVain
PROPERTIES
  UnitsStayWithTheRun
  NoneOvertaken
CHECK_DEADLOCK FALSE
