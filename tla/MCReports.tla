-------------------------------- MODULE MCReports -------------------------------
(* Values of Reports' constants for TLC: a total of 4.06 rupees that is not      *)
(* covered by a payment of as much, paid short, just and over.                   *)
EXTENDS Reports, TLC

CONSTANTS a, b

CashAndUPI   == {"Cash", "UPI"}
TwoIds       == {1, 2}
TwoCustomers == {a, b}
Symmetry     == Permutations(TwoCustomers)
FewSums      == {306, 500}
OneAmount    == {406}
================================================================================
