\* A local todo file whose tick fails.
SPECIFICATION Spec
CONSTANTS
  N = 2
  TodoFiles <- JustLocal
  Faults <- JustTick
  MaxTries = 0
  MaxTips = 0
  MaxStarts = 2
PROPERTY ResumeReconciles
CHECK_DEADLOCK FALSE
