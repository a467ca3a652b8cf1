SPECIFICATION FairSpec
CONSTANTS
  N = 2
  DependsOn <- TwoPhases
  K = 1
  MaxRestarts = 1
  MaxHalts = 1
  MaxStarts = 1
  Events <- Requests
INVARIANTS HaltNotForgotten
PROPERTIES StopAfterEnds AbortEnds RunEnds
CHECK_DEADLOCK FALSE
