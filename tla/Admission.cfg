SPECIFICATION FairSpec
CONSTANTS
  Ids = {r1}
  Clients = {c1, c2}
  MaxTries = 2
  MaxLog = 2
INVARIANTS OncePerId AnswersStand AppliedAtItsRevision
PROPERTIES RequestsAreAnswered
CHECK_DEADLOCK FALSE
