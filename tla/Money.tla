---------------------------------- MODULE Money ---------------------------------
(***************************************************************************)
(* Amounts are integers of paise in the database and binary64 rupees in    *)
(* the code: toRupees divides by 100, computeTotals adds a GST of whole    *)
(* rupees, and a payment total is compared with that sum.  Comparing in    *)
(* paise is exact but for one case, a payment of just the total: there     *)
(* the sum of two roundings may exceed the rounding of the sum.            *)
(***************************************************************************)
EXTENDS Integers

\* Math.round(subtotal * rate / 100) rupees, for a subtotal in paise.
Gst(paise, rate) == (paise * rate + 5000) \div 10000

TotalPaise(paise, rate) == paise + 100 * Gst(paise, rate)

--------------------------------------------------------------------------------
(* binary64: a value in [2^k, 2^(k+1)) is a multiple of 2^(k-52).            *)

\* 2^i modulo n
pow2mod[i \in 0 .. 60] ==
  [n \in Nat \ {0} |-> IF i = 0 THEN 1 % n ELSE (2 * pow2mod[i - 1][n]) % n]

\* x / n, to the nearest integer, a tie to the even one.
RoundEven(x, n) ==
  LET q == x \div n
      r == x % n
  IN  IF 2 * r > n \/ (2 * r = n /\ q % 2 = 1) THEN q + 1 ELSE q

\* paise / 100 is in [2^k, 2^(k+1)).
InBinade(paise, k) ==
  IF k >= 0 THEN 100 * 2 ^ k <= paise /\ paise < 100 * 2 ^ (k + 1)
            ELSE 100 <= paise * 2 ^ (-k) /\ paise * 2 ^ (-k) < 200

\* The k of paise / 100, for paise > 0.
Binade(paise) == CHOOSE k \in -7 .. 20 : InBinade(paise, k)

\* How many binades the GST lifts a subtotal.
Lift(paise, rate) == Binade(TotalPaise(paise, rate)) - Binade(paise)

\* toRupees(paise) + gst > toRupees(paise + 100 * gst), in multiples of the
\* subtotal's last bit and modulo an even number of the total's.
SumExceeds(paise, rate) ==
  /\ paise > 0
  /\ LET step  == 2 ^ Lift(paise, rate)
         scaled == (paise * pow2mod[52 - Binade(paise)][200 * step]) % (200 * step)
     IN  RoundEven(RoundEven(scaled, 100), step) > RoundEven(scaled, 100 * step)

\* Variant: covered means more than the total.
SettlesStrictly(paid, paise, rate) == paid > TotalPaise(paise, rate)

\* invoicePaid(invoice) >= computeTotals(invoice).total
Settles(paid, paise, rate) ==
  \/ paid > TotalPaise(paise, rate)
  \/ paid = TotalPaise(paise, rate) /\ ~SumExceeds(paise, rate)

InvoiceStatus(paid, paise, rate) ==
  CASE paid = 0                            -> "UNPAID"
    [] paid > 0 /\ Settles(paid, paise, rate)  -> "PAID"
    [] OTHER                               -> "PARTIAL"
================================================================================
