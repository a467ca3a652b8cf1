SPECIFICATION Spec
CONSTANTS
  N = 3
  DependsOn <- ThreePhases
  K = 1
  MaxRestarts = 0
  MaxHalts = 1
  MaxStarts = 1
  Events <- JustHalts
PROPERTIES RunWideHaltStops
CHECK_DEADLOCK FALSE
