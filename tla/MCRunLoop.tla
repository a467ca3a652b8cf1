----------------------------- MODULE MCRunLoop -----------------------------
(* Small plans for RunLoop: two phases; and three phases of which the second  *)
(* depends on the first.  Then, what may come from outside in each run.       *)
EXTENDS RunLoop

TwoPhases   == <<{}, {1}>>
ThreePhases == <<{}, {1}, {}>>

HaltsAndCrash == {"halt", "crash", "abort"}
Requests      == {"stop", "pause", "abort", "interrupt", "gone"}
JustHalts     == {"halt"}

=============================================================================
