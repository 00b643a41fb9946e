SPECIFICATION FairSpec
CONSTANTS
  Names = {1, 2}
  Contents = {a, b}
  MaxDeliveries = 2
  MaxAttempts = 2
  MaxCrashes = 1
INVARIANTS EffectOnce NothingLost
PROPERTIES OldestFirst HandoverConverges
CHECK_DEADLOCK FALSE
