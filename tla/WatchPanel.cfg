SPECIFICATION Spec
CONSTANTS
  None = None
  Home <- Screens
  RunSpace = "run"
  Writers <- Threads
  Listed = {"live"}
  Grace = 1
  TornGrace = 0
  Backstops = {1}
  MaxNudges = 1
  Background = {TRUE, FALSE}
  Gone = {"finish", "close"}
  MaxAsks = 1
  MaxRounds = 1
  Worker = 1
  Reviewer = 2
INVARIANTS TypeOK RowTells FinalShown
