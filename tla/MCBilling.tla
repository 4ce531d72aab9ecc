-------------------------------- MODULE MCBilling -------------------------------
(* Values of Billing's constants for TLC: a total that is whole rupees, one that *)
(* is not, and one whose sum exceeds its rounding (3.06 + 1 > 4.06).             *)
EXTENDS Billing, TLC

CONSTANTS e1, e2, p1, p2

TwoEdits    == {e1, e2}
TwoPayments == {p1, p2}
FewSums     == {306, 1000}
FewAmounts  == {406, 774, 1200}
================================================================================
