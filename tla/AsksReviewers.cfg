\* A worker and a reviewer, and a death of the driver.
SPECIFICATION FairSpec
CONSTANTS
  Ids <- TwoAsks
  Agents = {worker, reviewer}
  Worker = worker
  Screens = {screen}
  None = none
  MaxAttempts = 1
  MaxBlocks = 0
  MaxCrashes = 1
INVARIANTS
  OkIsCommitted
PROPERTIES
  AnswerSettles
  AnswersOnce
CHECK_DEADLOCK FALSE
