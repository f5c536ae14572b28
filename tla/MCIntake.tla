------------------------------ MODULE MCIntake ------------------------------
(***************************************************************************)
(* Two requests for TLC; the wafers are those of the first one.             *)
(***************************************************************************)
EXTENDS Intake, TLC

CONSTANTS r1, r2, a, b

MCRequestOf == [w \in Wafers |-> r1]
=============================================================================
