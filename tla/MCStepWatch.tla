---------------------------- MODULE MCStepWatch ----------------------------
EXTENDS StepWatch

\* A worker, a reviewer, and an agent of another space.
Screens == <<"run", "run", "other">>

\* A worker and a reviewer.
Pair == <<"run", "run">>

Threads == {"runner", "asker", "loop"}

=============================================================================
