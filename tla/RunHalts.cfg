\* Halts at any moment of a run that may crash or be aborted, and is resumed.
SPECIFICATION Spec
CONSTANTS
  N = 3
  DependsOn <- ThreePhases
  K = 1
  MaxRestarts = 0
  MaxHalts = 2
  MaxStarts = 2
  Events <- HaltsAndCrash
INVARIANTS TypeOK Accounted ExitTruth HaltNotForgotten DepsBefore
PROPERTIES BlockedNeverLands
CHECK_DEADLOCK FALSE
