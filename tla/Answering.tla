----------------------------- MODULE Answering -----------------------------
(***************************************************************************)
(* What r-loop promises of a question or a dialog, whoever of those that   *)
(* race for it comes first: the watchdog's answer, the person at the pane, *)
(* the end or the halt of its step, the death of the driver.  It is open,  *)
(* then answered, then handed over, each at most once, and only in the     *)
(* attempt that it was asked in; or it is withdrawn, and nothing happens   *)
(* to it any more.  No attempt begins while one is open.                   *)
(***************************************************************************)
EXTENDS Naturals

CONSTANT Ids  \* the questions and dialogs

VARIABLES
  life,    \* how far each is
  home,    \* the attempt of the step it was asked in, or 0
  attempt  \* the attempt that runs

Init ==
  /\ life = [id \in Ids |-> "new"] /\ home = [id \in Ids |-> 0]
  /\ attempt = 1

Becomes(id, stage) == life' = [life EXCEPT ![id] = stage]

\* It is of the attempt that runs.
Current(id) == home[id] = attempt

\* It is asked; or it is turned away, as its step has ended.
Open(id) ==
  /\ life[id] = "new"
  /\ Becomes(id, "open") \/ Becomes(id, "withdrawn")
  /\ home' = [home EXCEPT ![id] = attempt]
  /\ UNCHANGED attempt

Answer(id) ==
  /\ life[id] = "open" /\ Current(id)
  /\ Becomes(id, "answered")
  /\ UNCHANGED <<home, attempt>>

\* The answer to a question is typed, or the key for a dialog pressed, which is its
\* answer.
HandOver(id) ==
  /\ life[id] \in {"open", "answered"} /\ Current(id)
  /\ Becomes(id, "handed")
  /\ UNCHANGED <<home, attempt>>

Withdraw(id) ==
  /\ life[id] \in {"open", "answered"} /\ Current(id)
  /\ Becomes(id, "withdrawn")
  /\ UNCHANGED <<home, attempt>>

\* A driver that takes the run up withdraws what a dead one left open.
WithdrawAll ==
  /\ life' = [id \in Ids |-> IF life[id] = "open" THEN "withdrawn" ELSE life[id]]
  /\ UNCHANGED <<home, attempt>>

NextAttempt ==
  /\ \A id \in Ids : life[id] # "open"
  /\ attempt' = attempt + 1
  /\ UNCHANGED <<life, home>>

Next ==
  \/ \E id \in Ids : Open(id) \/ Answer(id) \/ HandOver(id) \/ Withdraw(id)
  \/ WithdrawAll \/ NextAttempt

Spec == Init /\ [][Next]_<<life, home, attempt>>
=============================================================================
