------------------------------- MODULE MCIntake -------------------------------
(* A small instance of Intake for TLC: two uploads of one content and a third *)
(* of another.                                                               *)
EXTENDS Intake, TLC

CONSTANTS u1, u2, u3, x, y

MCBody == u1 :> x @@ u2 :> x @@ u3 :> y
=============================================================================
