------------------------------ MODULE Landing ------------------------------
(***************************************************************************)
(* What landing a run's phases promises, crashes and resumes included.  A  *)
(* phase is open, then merged, when the commit with its code is on the     *)
(* run's branch, then landed, when the run store says so.  A merge can be  *)
(* taken back until it is recorded; a recorded one never is.  No phase is  *)
(* merged while another waits for its record.                              *)
(***************************************************************************)
EXTENDS Integers

CONSTANT N  \* the phases are 1..N

VARIABLE landing  \* how far each phase's landing is

Phases == 1..N

Init == landing = [p \in Phases |-> "open"]

Merge(p) ==
  /\ \A q \in Phases : landing[q] # "merged"
  /\ landing[p] = "open"
  /\ landing' = [landing EXCEPT ![p] = "merged"]

TakeBack(p) ==
  /\ landing[p] = "merged"
  /\ landing' = [landing EXCEPT ![p] = "open"]

Record(p) ==
  /\ landing[p] = "merged"
  /\ landing' = [landing EXCEPT ![p] = "landed"]

Next == \E p \in Phases : Merge(p) \/ TakeBack(p) \/ Record(p)

Spec == Init /\ [][Next]_landing
=============================================================================
