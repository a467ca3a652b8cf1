\* A question admitted after the backstop was decided and before the step ends.
SPECIFICATION Spec
CONSTANTS
  Ids <- OneAsk
  Agents = {worker}
  Worker = worker
  Screens = {screen}
  None = none
  MaxAttempts = 1
  MaxBlocks = 0
  MaxCrashes = 0
INVARIANTS
  QuestionNeverKills
CHECK_DEADLOCK FALSE
