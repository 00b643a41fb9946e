SPECIFICATION Spec
CONSTANTS
  Jobs = {j1}
  MaxRuns = 2
  MaxAttempts = 2
  Overwrites = TRUE
PROPERTIES
  RefusedStaysRefused
