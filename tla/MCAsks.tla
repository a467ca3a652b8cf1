------------------------------- MODULE MCAsks -------------------------------
(* Instances of Asks for TLC.  Asks are numbered in the order they come, so   *)
(* their set is not a symmetric one.  One screen is enough: a dialog is told  *)
(* from another by the number of the agent's state, and the two may well show *)
(* the same text.                                                             *)
EXTENDS Asks

OneAsk  == {1}
TwoAsks == 1..2
=============================================================================
