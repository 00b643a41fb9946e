SPECIFICATION Spec
CONSTANTS
  Attempts = {a1}
  Faults = {"fork", "turn"}
  LeakPolicy = "terminate"
  MaxCrashes = 0
INVARIANT ClosedMeansGone
