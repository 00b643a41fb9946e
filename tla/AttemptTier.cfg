SPECIFICATION FairSpec
CONSTANTS
  Attempts = {a1}
  Faults = {"popen", "spawn_json", "status_json", "wrapper_kill", "fork", "create", "scan", "spool"}
  LeakPolicy = "terminate"
  MaxCrashes = 2
INVARIANTS
  ClosedMeansGone
  CleanShutdownLeavesNothingOpen
  RecordMeansLeaderDead
  CompletionBeatsParentDeath
PROPERTIES
  StopsComeToAnEnd
  DrainedNeverNatural
  ImplementsAttemptLife
