SPECIFICATION FairSpec
CONSTANTS
  Pids = {1, 2, 3}
  Runs = {1, 2}
  None = None
  Jobs <- Commands
  Kinds = {"event", "finished"}
  MaxWrites = 2
  MaxCrashes = 1
INVARIANTS TypeOK Published Tells ResumesOpen AbortHeld Loads
PROPERTIES ReadStays Settles
CHECK_DEADLOCK FALSE
