\* Every fault of a landing, over processes that die and are resumed.
SPECIFICATION Spec
CONSTANTS
  N = 2
  TodoFiles <- Both
  Faults <- Failing
  MaxTries = 1
  MaxTips = 2
  MaxStarts = 3
INVARIANTS TypeOK GateFirst RecordTrue OneCommit LandingKnown ErrorLeavesNoTick
PROPERTY KeepsPromise
CHECK_DEADLOCK FALSE
