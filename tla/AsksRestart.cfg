\* The worker and its dialogs, over two attempts.
SPECIFICATION Spec
CONSTANTS
  Ids <- TwoAsks
  Agents = {worker}
  Worker = worker
  Screens = {screen}
  None = none
  MaxAttempts = 2
  MaxBlocks = 2
  MaxCrashes = 0
INVARIANTS
  TypeOK
  CountTrue
  WaitsForSomething
  AnsweredIsHanded
  NothingLeftOpen
  AskerIsFree
PROPERTIES
  TypedIntoTheLiving
CHECK_DEADLOCK FALSE
