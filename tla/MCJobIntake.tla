------------------------------- MODULE MCJobIntake ------------------------------
(* Values of JobIntake's constants for TLC. *)
EXTENDS JobIntake

CONSTANTS i1, i2, i3

Three == {i1, i2, i3}
================================================================================
