-------------------------------- MODULE MCUploads -------------------------------
(* Values of Uploads' constants for TLC. *)
EXTENDS Uploads, TLC

CONSTANTS r1, r2, r3, t1, t2, logo, car, side

ThreeRequests == {r1, r2, r3}
TwoTokens     == {t1, t2}
OneLogo       == {logo}
OneCar        == {car}
OneSide       == {side}
Symmetry      == Permutations(ThreeRequests) \cup Permutations(TwoTokens)
================================================================================
