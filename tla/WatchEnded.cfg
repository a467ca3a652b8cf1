SPECIFICATION Spec
CONSTANTS
  None = None
  Home <- Pair
  RunSpace = "run"
  Writers <- Threads
  Listed = {"live"}
  Grace = 1
  TornGrace = 0
  Backstops = {0}
  MaxNudges = 1
  Background = {TRUE, FALSE}
  Gone = {}
  MaxAsks = 1
  MaxRounds = 0
  Worker = 1
  Reviewer = 2
PROPERTIES EndedStays
