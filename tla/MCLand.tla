------------------------------- MODULE MCLand -------------------------------
(* Small instances of Land: the kinds of todo file, and the faults of each.  *)
EXTENDS Land

Both      == BOOLEAN
JustLocal == {TRUE}

\* Everything may fail.  With a tracked todo file, git resets a commit that is
\* refused; with a local one the gate is not red, which is independent of it.
Failing(l) == AllFaults \ {IF l THEN "gate" ELSE "reset"}

\* A tick can fail.
JustTick(l) == {"tick"}
=============================================================================
