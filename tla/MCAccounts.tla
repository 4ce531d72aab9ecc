------------------------------- MODULE MCAccounts -------------------------------
(* Values of Accounts' constants for TLC. *)
EXTENDS Accounts, TLC

CONSTANTS r1, r2, r3, a, b, c, d, h, w, x, y, z

ThreeRequests == {r1, r2, r3}
FourUsers     == {a, b, c, d}
TwoSeeded     == {a, b}
TwoShops      == {h, w}
ThreeEmails   == {x, y, z}
Emailed       == (a :> x) @@ (b :> y) @@ (c :> z) @@ (d :> z)
Symmetry      == Permutations(ThreeRequests) \cup Permutations({c, d})
================================================================================
