------------------------------ MODULE MCIntake ------------------------------
(* Constant values for the TLC runs of Intake: a form with one file, one with *)
(* both, a zip with both, one with a file twice, and a zip with nothing.      *)
EXTENDS Intake
CONSTANTS a, b, none
MCForms == {<<<<a>>>>, <<<<a>>, <<b>>>>, <<<<a>>, <<a>>>>, <<<<>>>>}
MCLoose == {Whole(b)}
=============================================================================
