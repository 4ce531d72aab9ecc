------------------------ MODULE BillingAndFiguresProofs ------------------------
(***************************************************************************)
(* Settlement notes, for any payments, edits, amounts and GST rate; the    *)
(* report periods of every day from 1970 on, and whole quarters of a rupee *)
(* in binary64, for every subtotal up to ten lakh rupees and every rate.   *)
(***************************************************************************)
EXTENDS Billing, Figures, WellFoundedInduction, TLAPS

IInv == TypeOK /\ LatestInv

\* What an invoice amounts to depends on its lines and payments alone.
LEMMA SettledKept ==
  ASSUME UNCHANGED <<sum, amount, lines, payments>>
  PROVE  UNCHANGED Settled
BY DEF Settled, Subtotal, Paid

\* A freshly issued invoice has no payment.
LEMMA BillingInit == Init => IInv
BY RequestsAssumption DEF Init, IInv, TypeOK, LatestInv, Batches, Requests

\* Types are kept by every step.
LEMMA BillingTypes == TypeOK /\ [Next]_vars => TypeOK'
<1> SUFFICES ASSUME TypeOK, [Next]_vars PROVE TypeOK'
  OBVIOUS
<1> USE DEF TypeOK, Goto, Batches, Requests
<1>1. ASSUME NEW e \in Edits, Edit(e) PROVE TypeOK'
  <2>1. CASE EditClears(e)
    BY <2>1 DEF EditClears
  <2>2. CASE EditReplaces(e)
    BY <2>2 DEF EditReplaces
  <2>3. CASE EditLogs(e)
    BY <2>3 DEF EditLogs
  <2> QED
    BY <1>1, <2>1, <2>2, <2>3 DEF Edit
<1>2. ASSUME NEW p \in Payments, Pay(p) PROVE TypeOK'
  <2>1. CASE PayStores(p)
    BY <2>1 DEF PayStores
  <2>2. CASE PayChecks(p)
    BY <2>2 DEF PayChecks
  <2>3. CASE PayNotes(p)
    BY <2>3 DEF PayNotes
  <2> QED
    BY <1>2, <2>1, <2>2, <2>3 DEF Pay
<1>3. ASSUME NEW r \in Requests, Crash(r) PROVE TypeOK'
  BY <1>3 DEF Crash
<1>4. CASE UNCHANGED vars
  BY <1>4 DEF vars
<1> QED
  BY <1>1, <1>2, <1>3, <1>4 DEF Next

\* A step of a request that is not the last payer's, and no payment.
LEMMA LatestKept ==
  ASSUME IInv, NEW r \in Requests, UNCHANGED <<sum, amount, payments, latest>>,
         pc' = [pc EXCEPT ![r] = pc'[r]],
         timeline \subseteq timeline', edited => edited',
         ~edited' => UNCHANGED lines,
         r \in Payments => pc[r] # "idle" /\ pc'[r] # "idle",
         r = latest /\ pc'[r] = "done" /\ ~edited' /\ Settled => <<"paid", r>> \in timeline'
  PROVE  LatestInv'
<1>1. DOMAIN pc = Requests /\ Payments \subseteq Requests
  BY DEF IInv, TypeOK, Requests
<1>2. \A q \in Payments : q # r => pc'[q] = pc[q]
  BY <1>1
<1>3. \A q \in Payments : q \in payments' <=> pc'[q] # "idle"
  BY <1>2 DEF IInv, LatestInv
<1>4. ASSUME latest' # NoPayment
      PROVE  /\ latest' \in payments'
             /\ pc'[latest'] # "idle"
             /\ pc'[latest'] = "done" /\ ~edited' /\ Settled' => <<"paid", latest'>> \in timeline'
  <2>1. latest \in Payments /\ latest \in payments /\ latest' = latest
    BY <1>4 DEF IInv, LatestInv, TypeOK
  <2>2. pc'[latest'] # "idle"
    BY <1>3, <2>1
  <2>3. ASSUME pc'[latest] = "done", ~edited', Settled'
        PROVE  <<"paid", latest>> \in timeline'
    <3>1. Settled /\ ~edited
      BY <2>3, SettledKept
    <3>2. CASE r = latest
      BY <2>3, <3>1, <3>2
    <3>3. CASE r # latest
      <4>1. pc[latest] = "done" /\ latest # NoPayment
        BY <1>2, <1>4, <2>1, <2>3, <3>3
      <4> QED
        BY <3>1, <4>1 DEF IInv, LatestInv
    <3> QED
      BY <3>2, <3>3
  <2> QED
    BY <2>1, <2>2, <2>3
<1> QED
  BY <1>3, <1>4 DEF LatestInv

\* Every step keeps the invariant.
LEMMA BillingStep == IInv /\ [Next]_vars => IInv'
<1> SUFFICES ASSUME IInv, [Next]_vars PROVE IInv'
  OBVIOUS
<1>1. TypeOK /\ TypeOK'
  BY BillingTypes DEF IInv
<1>2. ASSUME NEW e \in Edits, Edit(e) PROVE LatestInv'
  <2>1. e \in Requests /\ e \notin Payments /\ e # NoPayment
    BY <1>1, RequestsAssumption DEF Requests, TypeOK
  <2>2. /\ UNCHANGED <<sum, amount, payments, latest>>
        /\ pc' = [pc EXCEPT ![e] = pc'[e]]
        /\ timeline \subseteq timeline' /\ (edited => edited')
        /\ ~edited' => UNCHANGED lines
    BY <1>1, <1>2 DEF Edit, EditClears, EditReplaces, EditLogs, Goto, TypeOK, Requests
  <2>3. e # latest
    BY <1>1, <2>1 DEF TypeOK
  <2> QED
    BY <2>1, <2>2, <2>3, LatestKept
<1>3. ASSUME NEW p \in Payments, PayStores(p) PROVE LatestInv'
  <2>1. /\ latest' = p /\ payments' = payments \cup {p} /\ pc'[p] = "check"
        /\ \A q \in Payments \ {p} : pc'[q] = pc[q]
    BY <1>1, <1>3 DEF PayStores, Goto, TypeOK, Requests
  <2> QED
    BY <2>1 DEF IInv, LatestInv
<1>4. ASSUME NEW p \in Payments, PayChecks(p) \/ PayNotes(p) PROVE LatestInv'
  <2>1. /\ UNCHANGED <<sum, amount, payments, latest, edited, lines>>
        /\ pc' = [pc EXCEPT ![p] = pc'[p]]
        /\ timeline \subseteq timeline'
        /\ pc[p] # "idle" /\ pc'[p] # "idle" /\ p \in Requests
    BY <1>1, <1>4 DEF PayChecks, PayNotes, Goto, TypeOK, Requests
  <2>2. pc'[p] = "done" /\ Settled => <<"paid", p>> \in timeline'
    BY <1>1, <1>4 DEF PayChecks, PayNotes, Goto, TypeOK, Requests
  <2> QED
    BY <2>1, <2>2, LatestKept
<1>5. ASSUME NEW r \in Requests, Crash(r) PROVE LatestInv'
  <2>1. /\ UNCHANGED <<sum, amount, payments, latest, edited, lines, timeline>>
        /\ pc' = [pc EXCEPT ![r] = pc'[r]]
        /\ pc[r] # "idle" /\ pc'[r] = "dead"
    BY <1>1, <1>5 DEF Crash, Goto, TypeOK
  <2> QED
    BY <2>1, LatestKept
<1>6. CASE UNCHANGED vars
  <2>1. UNCHANGED Settled
    BY <1>6, SettledKept DEF vars
  <2> QED
    BY <1>1, <1>6, <2>1 DEF vars, IInv, LatestInv
<1> QED
  BY <1>1, <1>2, <1>3, <1>4, <1>5, <1>6 DEF Next, Pay, IInv

(* noteIfSettled: with any overlap of payments and edits, a payment that     *)
(* makes the invoice PAID is noted, for any amounts and any GST rate.        *)
THEOREM SettlementNoted == Spec => []PaidIsNoted
<1>1. IInv => PaidIsNoted
  <2>1. InvoiceStatus(Paid, Subtotal, Rate) = "PAID" => Settled
    BY DEF InvoiceStatus, Settled
  <2> QED
    BY <2>1 DEF IInv, LatestInv, PaidIsNoted
<1> QED
  BY <1>1, BillingInit, BillingStep, PTL DEF Spec

(* Lines, payments and notes keep their types.                               *)
THEOREM TypeCorrect == Spec => []TypeOK
<1>1. IInv => TypeOK
  BY DEF IInv
<1> QED
  BY <1>1, BillingInit, BillingStep, PTL DEF Spec

--------------------------------------------------------------------------------
(* Periods                                                                   *)

\* Induction over the naturals, for a set of them.
LEMMA NatInduct ==
  ASSUME NEW T, 0 \in T, \A n \in Nat : n \in T => n + 1 \in T
  PROVE  Nat \subseteq T
<1> DEFINE R == {ss \in Nat \X Nat : ss[1] < ss[2]}
<1>1. IsWellFoundedOn(R, Nat)
  BY NatLessThanWellFounded DEF OpToRel
<1>2. \A x, y \in Nat : <<y, x>> \in R <=> y < x
  OBVIOUS
<1> HIDE DEF R
<1> SUFFICES ASSUME Nat \ T # {} PROVE FALSE
  OBVIOUS
<1>3. \E x \in Nat \ T : \A y \in Nat \ T : ~(<<y, x>> \in R)
  BY <1>1, WFMin
<1>4. PICK x \in Nat \ T : \A y \in Nat \ T : ~(y < x)
  BY <1>2, <1>3
<1>5. x - 1 \in Nat /\ x - 1 < x
  BY <1>4
<1> QED
  BY <1>4, <1>5

\* Days the calendar of the model reaches: the week of the first day starts in 1969.
Day == {d \in Int : d >= -365}

Extra(y) == IF Leap(y) THEN 1 ELSE 0
NewYear(y) == DateUTC(y, 0, 1)

\* Days, months and years as Date.UTC counts them.
LEMMA DateIsLinear ==
  ASSUME NEW y \in Int, NEW m \in 0 .. 12, NEW d \in Int
  PROVE  DateUTC(y, m, 1) \in Int /\ DateUTC(y, m, d) = DateUTC(y, m, 1) + d - 1
<1>1. (m % 12) + 1 \in 1 .. 12 /\ m \div 12 \in Int
  OBVIOUS
<1>2. \A k \in 1 .. 12 : Before[k] \in Int
  BY DEF Before
<1>3. Before[(m % 12) + 1] \in Int
  BY <1>1, <1>2
<1> QED
  BY <1>1, <1>3 DEF DateUTC

LEMMA DateIsInt ==
  ASSUME NEW y \in Int, NEW m \in 0 .. 12
  PROVE  DateUTC(y, m, 1) \in Int
BY DateIsLinear, 1 \in Int

LEMMA Leaps1969 == 1969 \div 4 - 1969 \div 100 + 1969 \div 400 = 477
OBVIOUS

\* The first day of a year, by the leap days before it.
LEMMA NewYears ==
  ASSUME NEW y \in Int
  PROVE  /\ NewYear(y) = 365 * (y - 1970) + ((y - 1) \div 4 - (y - 1) \div 100 + (y - 1) \div 400) - 477
         /\ NewYear(y) \in Int
<1>1. 0 \div 12 = 0 /\ 0 % 12 = 0 /\ Before[0 + 1] = 0 /\ 1969 \div 4 - 1969 \div 100 + 1969 \div 400 = 477
  BY DEF Before
<1> QED
  BY <1>1 DEF NewYear, DateUTC

\* A year is as long as its leap day says.
LEMMA YearLength ==
  ASSUME NEW y \in Int
  PROVE  NewYear(y + 1) = NewYear(y) + 365 + Extra(y)
<1>1. y + 1 \in Int /\ (y + 1) - 1 = y
  OBVIOUS
<1>2. NewYear(y + 1) = 365 * (y - 1969) + (y \div 4 - y \div 100 + y \div 400) - 477
  BY <1>1, NewYears
<1>3. NewYear(y) = 365 * (y - 1970) + ((y - 1) \div 4 - (y - 1) \div 100 + (y - 1) \div 400) - 477
  BY NewYears
<1> QED
  BY <1>2, <1>3 DEF Extra, Leap

\* Years follow each other.
LEMMA YearsAscend ==
  ASSUME NEW x \in Int, NEW y \in Int, x < y
  PROVE  NewYear(x + 1) <= NewYear(y)
<1>1. CASE y = x + 1
  BY <1>1, NewYears
<1>2. CASE y > x + 1
  BY <1>2, NewYears
<1> QED
  BY <1>1, <1>2

\* A year is 365 or 366 days, on the average too.
LEMMA YearBounds ==
  ASSUME NEW n \in Nat
  PROVE  365 * n <= NewYear(1970 + n) /\ NewYear(1970 + n) <= 366 * n
<1>1. NewYear(1970 + n) = 365 * n + ((1969 + n) \div 4 - (1969 + n) \div 100 + (1969 + n) \div 400) - 477
  BY NewYears
<1>2. 0 <= (1969 + n) \div 4 - (1969 + n) \div 100 + (1969 + n) \div 400 - 477
  OBVIOUS
<1>3. (1969 + n) \div 4 - (1969 + n) \div 100 + (1969 + n) \div 400 - 477 <= n
  OBVIOUS
<1> QED
  BY <1>1, <1>2, <1>3

\* The months of a year, by the days before them.
LEMMA Months ==
  ASSUME NEW y \in Int
  PROVE  /\ DateUTC(y, 0, 1)  = NewYear(y)
         /\ DateUTC(y, 1, 1)  = NewYear(y) + 31
         /\ DateUTC(y, 2, 1)  = NewYear(y) + 59 + Extra(y)
         /\ DateUTC(y, 3, 1)  = NewYear(y) + 90 + Extra(y)
         /\ DateUTC(y, 4, 1)  = NewYear(y) + 120 + Extra(y)
         /\ DateUTC(y, 5, 1)  = NewYear(y) + 151 + Extra(y)
         /\ DateUTC(y, 6, 1)  = NewYear(y) + 181 + Extra(y)
         /\ DateUTC(y, 7, 1)  = NewYear(y) + 212 + Extra(y)
         /\ DateUTC(y, 8, 1)  = NewYear(y) + 243 + Extra(y)
         /\ DateUTC(y, 9, 1)  = NewYear(y) + 273 + Extra(y)
         /\ DateUTC(y, 10, 1) = NewYear(y) + 304 + Extra(y)
         /\ DateUTC(y, 11, 1) = NewYear(y) + 334 + Extra(y)
         /\ DateUTC(y, 12, 1) = NewYear(y + 1)
<1>1. \A m \in 0 .. 11 : m \div 12 = 0 /\ m % 12 = m /\ 12 \div 12 = 1 /\ 12 % 12 = 0
  OBVIOUS
<1>2. /\ Before[1] = 0   /\ Before[2] = 31   /\ Before[3] = 59   /\ Before[4] = 90
      /\ Before[5] = 120 /\ Before[6] = 151  /\ Before[7] = 181  /\ Before[8] = 212
      /\ Before[9] = 243 /\ Before[10] = 273 /\ Before[11] = 304 /\ Before[12] = 334
  BY DEF Before
<1>3. ASSUME NEW m \in 0 .. 11
      PROVE  DateUTC(y, m, 1) = NewYear(y) + Before[m + 1] + (IF m > 1 THEN Extra(y) ELSE 0)
  <2>1. Before[m + 1] \in Int
    BY <1>2
  <2> QED
    <3>1. m \div 12 = 0 /\ m % 12 = m /\ y + 0 = y
      BY <1>1
    <3>2. DateUTC(y, m, 1) = 365 * (y - 1970) + ((y - 1) \div 4 - (y - 1) \div 100 + (y - 1) \div 400) - 477
             + Before[m + 1] + (IF m > 1 /\ Leap(y) THEN 1 ELSE 0)
      BY <2>1, <3>1, Leaps1969 DEF DateUTC
    <3> QED
      BY <2>1, <3>2, NewYears DEF Extra
<1>4. DateUTC(y, 12, 1) = NewYear(y + 1)
  BY <1>1 DEF DateUTC, NewYear
<1>5. NewYear(y) \in Int /\ Extra(y) \in Int
  BY NewYears DEF Extra
<1>6. DateUTC(y, 0, 1) = NewYear(y) + 0
  BY <1>2, <1>3, <1>5
<1>7. DateUTC(y, 1, 1) = NewYear(y) + 31
  BY <1>2, <1>3, <1>5
<1>8. DateUTC(y, 2, 1) = NewYear(y) + 59 + Extra(y)
  BY <1>2, <1>3, <1>5
<1>9. DateUTC(y, 3, 1) = NewYear(y) + 90 + Extra(y)
  BY <1>2, <1>3, <1>5
<1>10. DateUTC(y, 4, 1) = NewYear(y) + 120 + Extra(y)
  BY <1>2, <1>3, <1>5
<1>11. DateUTC(y, 5, 1) = NewYear(y) + 151 + Extra(y)
  BY <1>2, <1>3, <1>5
<1>12. DateUTC(y, 6, 1) = NewYear(y) + 181 + Extra(y)
  BY <1>2, <1>3, <1>5
<1>13. DateUTC(y, 7, 1) = NewYear(y) + 212 + Extra(y)
  BY <1>2, <1>3, <1>5
<1>14. DateUTC(y, 8, 1) = NewYear(y) + 243 + Extra(y)
  BY <1>2, <1>3, <1>5
<1>15. DateUTC(y, 9, 1) = NewYear(y) + 273 + Extra(y)
  BY <1>2, <1>3, <1>5
<1>16. DateUTC(y, 10, 1) = NewYear(y) + 304 + Extra(y)
  BY <1>2, <1>3, <1>5
<1>17. DateUTC(y, 11, 1) = NewYear(y) + 334 + Extra(y)
  BY <1>2, <1>3, <1>5
<1> QED
  BY <1>4, <1>5, <1>6, <1>7, <1>8, <1>9, <1>10, <1>11, <1>12, <1>13, <1>14, <1>15, <1>16, <1>17



\* A day lies in one year, the one the code reads off.
LEMMA YearExists ==
  ASSUME NEW d \in Day
  PROVE  \E y \in 1970 + d \div 366 .. 1970 + d \div 365 : NewYear(y) <= d /\ d < NewYear(y + 1)
<1>1. CASE d < 0
  <2>1. d \div 366 = -1 /\ d \div 365 = -1
    BY <1>1 DEF Day
  <2>2. NewYear(1969) = -365 /\ NewYear(1969 + 1) = 0
    BY NewYears
  <2>3. 1969 \in 1970 + d \div 366 .. 1970 + d \div 365
    BY <2>1
  <2>4. NewYear(1969) <= d /\ d < NewYear(1969 + 1)
    BY <1>1, <2>2 DEF Day
  <2> QED
    BY <2>3, <2>4
<1>2. CASE d >= 0
  <2>0. d \in Nat
    BY <1>2 DEF Day
  <2> DEFINE In(n, k) == NewYear(1970 + n) <= k /\ k < NewYear(1970 + n + 1)
             T == {k \in Nat : \E n \in Nat : In(n, k)}
  <2>1. 0 \in T
    <3>1. NewYear(1970 + 0) = 0 /\ NewYear(1970 + 0 + 1) = 365
      BY NewYears
    <3>2. In(0, 0)
      BY <3>1
    <3> QED
      BY <3>2
  <2>2. ASSUME NEW k \in Nat, k \in T PROVE k + 1 \in T
    <3>1. PICK n \in Nat : In(n, k)
      BY <2>2
    <3>2. NewYear(1970 + n + 1) \in Int /\ NewYear(1970 + n) \in Int
      BY NewYears
    <3>3. NewYear(1970 + n + 1) < NewYear(1970 + n + 1 + 1)
      <4>1. 1970 + n + 1 \in Int
        OBVIOUS
      <4> QED
        BY <3>2, <4>1, YearLength DEF Extra
    <3>4. In(n, k + 1) \/ In(n + 1, k + 1)
      <4>1. 1970 + (n + 1) = 1970 + n + 1
        OBVIOUS
      <4> QED
        BY <3>1, <3>2, <3>3, <4>1
    <3> QED
      BY <3>4
  <2>3. Nat \subseteq T
    <3> HIDE DEF T
    <3> QED
      BY <2>1, <2>2, NatInduct
  <2>4. PICK n \in Nat : In(n, d)
    BY <2>0, <2>3
  <2>5. 365 * n <= NewYear(1970 + n) /\ NewYear(1970 + n + 1) <= 366 * n + 366
    <3>1. NewYear(1970 + (n + 1)) <= 366 * (n + 1)
      BY YearBounds
    <3>2. 1970 + (n + 1) = 1970 + n + 1
      OBVIOUS
    <3> QED
      BY <3>1, <3>2, YearBounds
  <2>6. NewYear(1970 + n) \in Int /\ NewYear(1970 + n + 1) \in Int
    BY NewYears
  <2>7. 365 * n <= d /\ d < 366 * n + 366
    BY <2>0, <2>4, <2>5, <2>6
  <2>8. d \div 366 <= n /\ n <= d \div 365
    BY <2>0, <2>7
  <2>9. 1970 + n \in 1970 + d \div 366 .. 1970 + d \div 365
    BY <2>0, <2>8
  <2> QED
    BY <2>4, <2>9
<1> QED
  BY <1>1, <1>2 DEF Day

\* The year the code reads off is that one,
LEMMA YearOf ==
  ASSUME NEW d \in Day
  PROVE  /\ UTCFullYear(d) \in Int
         /\ NewYear(UTCFullYear(d)) <= d /\ d < NewYear(UTCFullYear(d) + 1)
<1>1. UTCFullYear(d) \in 1970 + d \div 366 .. 1970 + d \div 365
      /\ NewYear(UTCFullYear(d)) <= d /\ d < NewYear(UTCFullYear(d) + 1)
  BY YearExists DEF UTCFullYear, NewYear
<1>2. d \div 366 \in Int /\ d \div 365 \in Int
  BY DEF Day
<1> QED
  BY <1>1, <1>2

\* and there is no other.
LEMMA YearIs ==
  ASSUME NEW d \in Day, NEW y \in Int, NewYear(y) <= d, d < NewYear(y + 1)
  PROVE  UTCFullYear(d) = y
<1>1. \A x \in Int : NewYear(x) \in Int
  BY NewYears
<1>2. ASSUME UTCFullYear(d) < y PROVE FALSE
  <2>1. NewYear(UTCFullYear(d) + 1) <= NewYear(y)
    BY <1>2, YearOf, YearsAscend
  <2> QED
    BY <1>1, <2>1, YearOf DEF Day
<1>3. ASSUME y < UTCFullYear(d) PROVE FALSE
  <2>1. NewYear(y + 1) <= NewYear(UTCFullYear(d))
    BY <1>3, YearOf, YearsAscend
  <2> QED
    BY <1>1, <2>1, YearOf DEF Day
<1> QED
  BY <1>2, <1>3, YearOf

\* So it lies in one month.
LEMMA MonthOf ==
  ASSUME NEW d \in Day
  PROVE  /\ UTCMonth(d) \in 0 .. 11
         /\ DateUTC(UTCFullYear(d), UTCMonth(d), 1) <= d
         /\ d < DateUTC(UTCFullYear(d), UTCMonth(d) + 1, 1)
<1> DEFINE y == UTCFullYear(d)
<1>1. y \in Int /\ NewYear(y) <= d /\ d < NewYear(y + 1)
  BY YearOf
<1> HIDE DEF y
<1>2. NewYear(y) \in Int /\ Extra(y) \in Int /\ NewYear(y + 1) = NewYear(y) + 365 + Extra(y)
  BY <1>1, NewYears, YearLength DEF Extra
<1>3. \E m \in 0 .. 11 : DateUTC(y, m, 1) <= d /\ d < DateUTC(y, m + 1, 1)
  <2> SUFFICES ASSUME \A m \in 0 .. 11 : DateUTC(y, m, 1) <= d => ~(d < DateUTC(y, m + 1, 1))
               PROVE  FALSE
    OBVIOUS
  <2>1. DateUTC(y, 0, 1) <= d => DateUTC(y, 1, 1) <= d
    BY <1>1, <1>2, Months DEF Day
  <2> QED
    BY <1>1, <1>2, Months DEF Day
<1> QED
  BY <1>3 DEF UTCMonth, y

\* No other month holds it.
LEMMA MonthIs ==
  ASSUME NEW d \in Day, NEW y \in Int, NEW m \in 0 .. 11,
         DateUTC(y, m, 1) <= d, d < DateUTC(y, m + 1, 1)
  PROVE  UTCFullYear(d) = y /\ UTCMonth(d) = m
<1>1. NewYear(y) \in Int /\ Extra(y) \in 0 .. 1 /\ NewYear(y + 1) = NewYear(y) + 365 + Extra(y)
  BY NewYears, YearLength DEF Extra
<1>2. NewYear(y) <= d /\ d < NewYear(y + 1)
  BY <1>1, Months DEF Day
<1>3. UTCFullYear(d) = y
  BY <1>2, YearIs
<1>4. /\ UTCMonth(d) \in 0 .. 11
      /\ DateUTC(y, UTCMonth(d), 1) <= d /\ d < DateUTC(y, UTCMonth(d) + 1, 1)
  BY <1>3, MonthOf
<1>5. ASSUME NEW n \in 0 .. 11, DateUTC(y, n, 1) <= d, d < DateUTC(y, n + 1, 1)
      PROVE  n = m
  BY <1>1, <1>5, Months DEF Day
<1> QED
  BY <1>3, <1>4, <1>5

\* Counting on from a day's own year and month.
LEMMA DateCounts ==
  ASSUME NEW d \in Day, NEW k \in Int
  PROVE  DateUTC(UTCFullYear(d), UTCMonth(d), UTCDate(d) + k) = d + k
<1>1. UTCFullYear(d) \in Int /\ UTCMonth(d) \in 0 .. 12
  BY YearOf, MonthOf
<1>2. DateUTC(UTCFullYear(d), UTCMonth(d), 1) \in Int
  BY <1>1, DateIsLinear
<1>3. UTCDate(d) + k \in Int
  BY <1>2 DEF UTCDate, Day
<1>4. DateUTC(UTCFullYear(d), UTCMonth(d), UTCDate(d) + k)
        = DateUTC(UTCFullYear(d), UTCMonth(d), 1) + (UTCDate(d) + k) - 1
  BY <1>1, <1>3, DateIsLinear
<1> QED
  BY <1>2, <1>4 DEF UTCDate, Day

\* The ranges, once the dates they are made from are known.
LEMMA WeekFromTo ==
  ASSUME NEW d, NEW back \in Int, NEW start \in Int, NEW end \in Int,
         back = (IF UTCDay(d) = 0 THEN -6 ELSE 1 - UTCDay(d)),
         start = DateUTC(UTCFullYear(d), UTCMonth(d), UTCDate(d) + back),
         end = DateUTC(UTCFullYear(start), UTCMonth(start), UTCDate(start) + 7)
  PROVE  weekRange(d) = start .. end - 1
BY SMT DEF weekRange

LEMMA DayFromTo ==
  ASSUME NEW y, NEW m, NEW n, NEW start \in Int, NEW end \in Int,
         start = DateUTC(y, m - 1, n),
         end = DateUTC(UTCFullYear(start), UTCMonth(start), UTCDate(start) + 1)
  PROVE  dayRange(y, m, n) = start .. end - 1
BY SMT DEF dayRange

\* The week of a day is the seven days from its Monday.
LEMMA WeekIs ==
  ASSUME NEW d \in Day, d >= -300
  PROVE  weekRange(d) = d - ((d + 3) % 7) .. d - ((d + 3) % 7) + 6
<1>1. PICK back \in Int : back = -((d + 3) % 7)
  BY DEF Day
<1>2. PICK start \in Int : start = d + back
  BY <1>1 DEF Day
<1>3. start \in Day /\ start = d - ((d + 3) % 7)
  BY <1>1, <1>2 DEF Day
<1>4. back = (IF UTCDay(d) = 0 THEN -6 ELSE 1 - UTCDay(d))
  BY <1>1 DEF UTCDay, Day
<1>5. start = DateUTC(UTCFullYear(d), UTCMonth(d), UTCDate(d) + back)
  BY <1>2, DateCounts
<1>6. start + 7 = DateUTC(UTCFullYear(start), UTCMonth(start), UTCDate(start) + 7)
  BY <1>3, DateCounts
<1>7. weekRange(d) = start .. (start + 7) - 1
  BY <1>4, <1>5, <1>6, start + 7 \in Int, WeekFromTo
<1> QED
  BY <1>3, <1>7

\* The range of a day is the day.
LEMMA DayRangeIs ==
  ASSUME NEW d \in Day
  PROVE  dayRange(UTCFullYear(d), UTCMonth(d) + 1, UTCDate(d)) = {d}
<1>1. PICK m \in Int : m = UTCMonth(d) + 1
  BY MonthOf
<1>2. m - 1 = UTCMonth(d)
  BY <1>1, MonthOf
<1>3. d \in Int /\ d + 1 \in Int /\ d + 0 = d /\ d + 1 - 1 = d
  BY DEF Day
<1>4. UTCDate(d) \in Int
  <2>1. UTCFullYear(d) \in Int /\ UTCMonth(d) \in 0 .. 12
    BY YearOf, MonthOf
  <2> QED
    <3>1. DateUTC(UTCFullYear(d), UTCMonth(d), 1) \in Int
      BY <2>1, DateIsInt
    <3> QED
      BY <1>3, <3>1 DEF UTCDate
<1>5. d = DateUTC(UTCFullYear(d), m - 1, UTCDate(d))
  BY <1>2, <1>3, <1>4, DateCounts
<1>6. d + 1 = DateUTC(UTCFullYear(d), UTCMonth(d), UTCDate(d) + 1)
  BY DateCounts
<1>7. dayRange(UTCFullYear(d), m, UTCDate(d)) = d .. (d + 1) - 1
  BY <1>3, <1>5, <1>6, DayFromTo
<1> QED
  BY <1>1, <1>3, <1>7

\* The month of a day.
LEMMA MonthSpans ==
  ASSUME NEW d \in Day
  PROVE  LET start == DateUTC(UTCFullYear(d), UTCMonth(d), 1)
             end   == DateUTC(UTCFullYear(d), UTCMonth(d) + 1, 1)
         IN  /\ start \in Int /\ end \in Int /\ start <= d /\ d < end
             /\ monthOf(d) = start .. end - 1
             /\ UTCDate(d) = d - start + 1
             /\ DateUTC(UTCFullYear(d), UTCMonth(d), 1) = start
<1>1. UTCMonth(d) \in 0 .. 11 /\ UTCMonth(d) + 1 \in 0 .. 12 /\ UTCMonth(d) + 1 - 1 = UTCMonth(d)
  BY MonthOf
<1>2. /\ DateUTC(UTCFullYear(d), UTCMonth(d), 1) \in Int
      /\ DateUTC(UTCFullYear(d), UTCMonth(d) + 1, 1) \in Int
  <2>1. UTCFullYear(d) \in Int /\ UTCMonth(d) \in 0 .. 12
    BY <1>1, YearOf
  <2> QED
    BY <1>1, <2>1, DateIsInt
<1> QED
  BY <1>1, <1>2, MonthOf DEF monthOf, monthRange, UTCDate

\* Months follow each other.
LEMMA MonthsAscend ==
  ASSUME NEW y \in Int, NEW k \in 0 .. 11
  PROVE  DateUTC(y, k, 1) < DateUTC(y, k + 1, 1)
<1>1. NewYear(y) \in Int /\ Extra(y) \in 0 .. 1 /\ NewYear(y + 1) = NewYear(y) + 365 + Extra(y)
  BY NewYears, YearLength DEF Extra
<1> QED
  BY <1>1, Months

\* The months of two days that follow each other are the same or neighbours.
LEMMA NextMonth ==
  ASSUME NEW d \in Day
  PROVE  IF UTCDate(d + 1) > 1 THEN monthOf(d + 1) = monthOf(d)
                               ELSE monthOf(d + 1) \cap monthOf(d) = {}
<1> DEFINE y == UTCFullYear(d)
           m == UTCMonth(d)
           start == DateUTC(y, m, 1)
           end   == DateUTC(y, m + 1, 1)
<1>1. d \in Int /\ d + 1 \in Day
  BY DEF Day
<1>2. y \in Int /\ m \in 0 .. 11
  BY YearOf, MonthOf
<1>3. start \in Int /\ end \in Int /\ start <= d /\ d < end /\ monthOf(d) = start .. end - 1
  BY MonthSpans
<1>4. CASE d + 1 < end
  <2>1. UTCFullYear(d + 1) = y /\ UTCMonth(d + 1) = m
    <3> HIDE DEF y, m
    <3> QED
      BY <1>1, <1>2, <1>3, <1>4, MonthIs
  <2>2. monthOf(d + 1) = monthOf(d)
    BY <2>1 DEF monthOf
  <2>3. UTCDate(d + 1) = d + 1 - start + 1
    <3> HIDE DEF y, m
    <3> QED
      <4>1. DateUTC(UTCFullYear(d + 1), UTCMonth(d + 1), 1) = start
        BY <2>1
      <4> HIDE DEF start
      <4> QED
        BY <1>1, <1>3, <4>1 DEF UTCDate
  <2>4. UTCDate(d + 1) > 1
    <3> HIDE DEF start, end
    <3> QED
      BY <1>1, <1>3, <2>3
  <2> QED
    BY <2>2, <2>4
<1>5. CASE d + 1 = end
  <2>1. \E x \in Int, k \in 0 .. 11 : DateUTC(x, k, 1) = end /\ end < DateUTC(x, k + 1, 1)
    <3>1. CASE m < 11
      <4>1. m + 1 \in 0 .. 11
        BY <1>2, <3>1
      <4>2. DateUTC(y, m + 1, 1) < DateUTC(y, m + 1 + 1, 1)
        BY <1>2, <4>1, MonthsAscend
      <4> QED
        BY <1>2, <4>1, <4>2
    <3>2. CASE m = 11
      <4>1. end = DateUTC(y + 1, 0, 1) /\ y + 1 \in Int
        BY <1>2, <3>2, Months
      <4>2. DateUTC(y + 1, 0, 1) < DateUTC(y + 1, 0 + 1, 1)
        BY <4>1, 0 \in 0 .. 11, MonthsAscend
      <4> QED
        BY <4>1, <4>2
    <3> QED
      BY <1>2, <3>1, <3>2
  <2>2. PICK x \in Int, k \in 0 .. 11 : DateUTC(x, k, 1) = end /\ end < DateUTC(x, k + 1, 1)
    BY <2>1
  <2> HIDE DEF y, m, start, end
  <2>3. UTCFullYear(d + 1) = x /\ UTCMonth(d + 1) = k
    BY <1>1, <1>3, <1>5, <2>2, MonthIs
  <2>4. UTCDate(d + 1) = 1
    BY <1>1, <1>3, <1>5, <2>2, <2>3 DEF UTCDate
  <2>5. PICK last \in Int : monthOf(d + 1) = end .. last
    <3>1. LET s == DateUTC(x, k, 1)
              e == DateUTC(x, k + 1, 1)
          IN  s \in Int /\ e \in Int /\ monthOf(d + 1) = s .. e - 1
      BY <1>1, <2>3, MonthSpans
    <3> QED
      BY <2>2, <3>1
  <2>6. monthOf(d + 1) \cap monthOf(d) = {}
    BY <1>3, <2>5
  <2> QED
    BY <2>4, <2>6
<1> QED
  <2> HIDE DEF start, end
  <2> QED
    BY <1>1, <1>3, <1>4, <1>5

\* Of a year's months a day is in one.
LEMMA OneMonth ==
  ASSUME NEW d \in Day, NEW n \in 1 .. 12, d \in monthRange(UTCFullYear(d), n)
  PROVE  n = UTCMonth(d) + 1
<1>1. n - 1 \in 0 .. 11 /\ n - 1 + 1 = n /\ n \in 0 .. 12
  OBVIOUS
<1>2. DateUTC(UTCFullYear(d), n - 1, 1) \in Int /\ DateUTC(UTCFullYear(d), n, 1) \in Int
  <2>1. UTCFullYear(d) \in Int /\ n - 1 \in 0 .. 12
    BY <1>1, YearOf
  <2> QED
    BY <1>1, <2>1, DateIsInt
<1>3. DateUTC(UTCFullYear(d), n - 1, 1) <= d /\ d < DateUTC(UTCFullYear(d), n - 1 + 1, 1)
  BY <1>1, <1>2 DEF monthRange, Day
<1>4. UTCMonth(d) = n - 1
  <2>1. UTCFullYear(d) \in Int
    BY YearOf
  <2> QED
    BY <1>1, <1>3, <2>1, MonthIs
<1> QED
  BY <1>4, MonthOf

\* All of it, of one day.
LEMMA DayTiles ==
  ASSUME NEW d \in Nat \ {0}
  PROVE  LET week   == weekRange(d)
             monday == d - ((d + 3) % 7)
             y == UTCFullYear(d)
             m == UTCMonth(d) + 1
             n == UTCDate(d)
         IN  /\ week = monday .. monday + 6
             /\ \A other \in week : weekRange(other) = week
             /\ d \in monthRange(y, m) /\ dayRange(y, m, n) = {d}
             /\ \A k \in 1 .. 12 : d \in monthRange(y, k) => k = m
             /\ IF UTCDate(d + 1) > 1 THEN monthOf(d + 1) = monthOf(d)
                                      ELSE monthOf(d + 1) \cap monthOf(d) = {}
             /\ d + 1 \in monthOf(d + 1) /\ d + 1 - n \in monthOf(d)
<1>1. d \in Day /\ d >= -300 /\ d + 1 \in Day
  BY DEF Day
<1>2. PICK monday \in Int : monday = d - ((d + 3) % 7)
  OBVIOUS
<1>3. weekRange(d) = monday .. monday + 6
  BY <1>1, <1>2, WeekIs
<1>4. ASSUME NEW other \in weekRange(d) PROVE weekRange(other) = weekRange(d)
  <2>1. other \in Day /\ other >= -300 /\ other - ((other + 3) % 7) = monday
    BY <1>2, <1>3 DEF Day
  <2> QED
    BY <1>3, <2>1, WeekIs
<1>5. \A e \in Day : e \in monthOf(e) /\ e + 1 - UTCDate(e) \in monthOf(e)
  <2> TAKE e \in Day
  <2>1. PICK start \in Int, end \in Int :
          /\ start <= e /\ e < end /\ monthOf(e) = start .. end - 1 /\ UTCDate(e) = e - start + 1
    BY MonthSpans
  <2> QED
    BY <2>1 DEF Day
<1>6. d \in monthRange(UTCFullYear(d), UTCMonth(d) + 1)
  BY <1>1, <1>5 DEF monthOf
<1>7. dayRange(UTCFullYear(d), UTCMonth(d) + 1, UTCDate(d)) = {d}
  BY <1>1, DayRangeIs
<1>8. \A k \in 1 .. 12 : d \in monthRange(UTCFullYear(d), k) => k = UTCMonth(d) + 1
  BY <1>1, OneMonth
<1>9. IF UTCDate(d + 1) > 1 THEN monthOf(d + 1) = monthOf(d)
                            ELSE monthOf(d + 1) \cap monthOf(d) = {}
  BY <1>1, NextMonth
<1> QED
  BY <1>1, <1>2, <1>3, <1>4, <1>5, <1>6, <1>7, <1>8, <1>9

--------------------------------------------------------------------------------
(* Money: binades, powers of two, and whole quarters of a rupee.              *)

\* The powers of two the binades need.
LEMMA Powers ==
  /\ 2 ^ 0 = 1     /\ 2 ^ 1 = 2     /\ 2 ^ 2 = 4      /\ 2 ^ 3 = 8      /\ 2 ^ 4 = 16
  /\ 2 ^ 5 = 32    /\ 2 ^ 6 = 64    /\ 2 ^ 7 = 128    /\ 2 ^ 8 = 256    /\ 2 ^ 9 = 512
  /\ 2 ^ 10 = 1024 /\ 2 ^ 11 = 2048 /\ 2 ^ 12 = 4096  /\ 2 ^ 13 = 8192  /\ 2 ^ 14 = 16384
  /\ 2 ^ 15 = 32768 /\ 2 ^ 16 = 65536 /\ 2 ^ 17 = 131072 /\ 2 ^ 18 = 262144
  /\ 2 ^ 19 = 524288 /\ 2 ^ 20 = 1048576 /\ 2 ^ 21 = 2097152
BY SMT

LEMMA Hundred == 10 ^ 8 = 100000000
BY SMT

\* The binades of amounts from a rupee up, in paise,
LEMMA Rupees ==
  ASSUME NEW p \in Nat
  PROVE  /\ InBinade(p, 0) <=> 100 <= p /\ p < 200
         /\ InBinade(p, 1) <=> 200 <= p /\ p < 400
         /\ InBinade(p, 2) <=> 400 <= p /\ p < 800
         /\ InBinade(p, 3) <=> 800 <= p /\ p < 1600
         /\ InBinade(p, 4) <=> 1600 <= p /\ p < 3200
         /\ InBinade(p, 5) <=> 3200 <= p /\ p < 6400
         /\ InBinade(p, 6) <=> 6400 <= p /\ p < 12800
         /\ InBinade(p, 7) <=> 12800 <= p /\ p < 25600
         /\ InBinade(p, 8) <=> 25600 <= p /\ p < 51200
         /\ InBinade(p, 9) <=> 51200 <= p /\ p < 102400
         /\ InBinade(p, 10) <=> 102400 <= p /\ p < 204800
         /\ InBinade(p, 11) <=> 204800 <= p /\ p < 409600
         /\ InBinade(p, 12) <=> 409600 <= p /\ p < 819200
         /\ InBinade(p, 13) <=> 819200 <= p /\ p < 1638400
         /\ InBinade(p, 14) <=> 1638400 <= p /\ p < 3276800
         /\ InBinade(p, 15) <=> 3276800 <= p /\ p < 6553600
         /\ InBinade(p, 16) <=> 6553600 <= p /\ p < 13107200
         /\ InBinade(p, 17) <=> 13107200 <= p /\ p < 26214400
         /\ InBinade(p, 18) <=> 26214400 <= p /\ p < 52428800
         /\ InBinade(p, 19) <=> 52428800 <= p /\ p < 104857600
         /\ InBinade(p, 20) <=> 104857600 <= p /\ p < 209715200
BY Powers, SMT DEF InBinade

LEMMA Fraction ==
  ASSUME NEW p, NEW k \in -7 .. -1, NEW j \in 1 .. 7, k = -j
  PROVE  InBinade(p, k) <=> 100 <= p * 2 ^ j /\ p * 2 ^ j < 200
<1>1. -k = j /\ ~(k >= 0)
  BY SMT
<1> QED
  BY <1>1, SMT DEF InBinade

\* and of those below.
LEMMA Fractions ==
  ASSUME NEW p \in Nat
  PROVE  /\ InBinade(p, -1) <=> 100 <= p * 2 /\ p * 2 < 200
         /\ InBinade(p, -2) <=> 100 <= p * 4 /\ p * 4 < 200
         /\ InBinade(p, -3) <=> 100 <= p * 8 /\ p * 8 < 200
         /\ InBinade(p, -4) <=> 100 <= p * 16 /\ p * 16 < 200
         /\ InBinade(p, -5) <=> 100 <= p * 32 /\ p * 32 < 200
         /\ InBinade(p, -6) <=> 100 <= p * 64 /\ p * 64 < 200
         /\ InBinade(p, -7) <=> 100 <= p * 128 /\ p * 128 < 200
<1>1. -1 = -(1) /\ -1 \in -7 .. -1 /\ 1 \in 1 .. 7
  BY SMT
<1>2. -2 = -(2) /\ -2 \in -7 .. -1 /\ 2 \in 1 .. 7
  BY SMT
<1>3. -3 = -(3) /\ -3 \in -7 .. -1 /\ 3 \in 1 .. 7
  BY SMT
<1>4. -4 = -(4) /\ -4 \in -7 .. -1 /\ 4 \in 1 .. 7
  BY SMT
<1>5. -5 = -(5) /\ -5 \in -7 .. -1 /\ 5 \in 1 .. 7
  BY SMT
<1>6. -6 = -(6) /\ -6 \in -7 .. -1 /\ 6 \in 1 .. 7
  BY SMT
<1>7. -7 = -(7) /\ -7 \in -7 .. -1 /\ 7 \in 1 .. 7
  BY SMT
<1> QED
  BY Powers, Fraction, SMT

\* GST of at most 100 % and its rounding at most triple a subtotal.
LEMMA GstBounds ==
  ASSUME NEW p \in Nat, NEW r \in Nat, r <= 100
  PROVE  TotalPaise(p, r) \in Nat /\ p <= TotalPaise(p, r)
         /\ (p > 0 => TotalPaise(p, r) <= 3 * p) /\ TotalPaise(p, r) <= 2 * p + 50
<1>1. PICK x \in Nat : x = p * r
  BY SMT
<1>2. x <= 100 * p
  BY <1>1, SMT
<1>3. Gst(p, r) = (x + 5000) \div 10000
  BY <1>1, SMT DEF Gst
<1> QED
  BY <1>2, <1>3, SMT DEF TotalPaise
\* Every amount up to two million rupees is in a binade.
LEMMA InSomeBinade ==
  ASSUME NEW p \in Nat, 0 < p, p < 209715200
  PROVE  Binade(p) \in -7 .. 20 /\ InBinade(p, Binade(p))
<1>1. CASE p < 100
  <2>1. \/ InBinade(p, -7) \/ InBinade(p, -6) \/ InBinade(p, -5) \/ InBinade(p, -4)
        \/ InBinade(p, -3) \/ InBinade(p, -2) \/ InBinade(p, -1)
    BY <1>1, Fractions, SMT
  <2>2. \E k \in -7 .. -1 : InBinade(p, k)
    BY <2>1, SMT
  <2> QED
    BY <2>2, SMT DEF Binade
<1>2. CASE p >= 100
  <2>1. \/ InBinade(p, 0) \/ InBinade(p, 1) \/ InBinade(p, 2) \/ InBinade(p, 3)
        \/ InBinade(p, 4) \/ InBinade(p, 5) \/ InBinade(p, 6) \/ InBinade(p, 7)
        \/ InBinade(p, 8) \/ InBinade(p, 9) \/ InBinade(p, 10) \/ InBinade(p, 11)
        \/ InBinade(p, 12) \/ InBinade(p, 13) \/ InBinade(p, 14) \/ InBinade(p, 15)
        \/ InBinade(p, 16) \/ InBinade(p, 17) \/ InBinade(p, 18) \/ InBinade(p, 19)
        \/ InBinade(p, 20)
    BY <1>2, Rupees, SMT
  <2>2. \E k \in 0 .. 20 : InBinade(p, k)
    BY <2>1, SMT
  <2> QED
    BY <2>2, SMT DEF Binade
<1> QED
  BY <1>1, <1>2, SMT

\* A total of at most thrice the subtotal is at most two binades higher.
LEMMA LiftBetween ==
  ASSUME NEW p \in Nat, NEW t \in Nat, 0 < p, t < 209715200, p <= t, t <= 3 * p
  PROVE  Binade(p) \in -7 .. 20 /\ Binade(t) - Binade(p) \in 0 .. 2
<1>1. Binade(p) \in -7 .. 20 /\ InBinade(p, Binade(p))
  BY InSomeBinade, SMT
<1>2. Binade(t) \in -7 .. 20 /\ InBinade(t, Binade(t))
  BY InSomeBinade, SMT
<1> QED
  BY <1>1, <1>2, Rupees, Fractions, SMT

\* GST lifts a subtotal by two binades at most.
LEMMA LiftIs ==
  ASSUME NEW p \in Nat, 0 < p, p <= 10 ^ 8, NEW r \in Nat, r <= 100
  PROVE  Binade(p) \in -7 .. 20 /\ Lift(p, r) \in 0 .. 2
<1>1. /\ TotalPaise(p, r) \in Nat /\ p <= TotalPaise(p, r)
      /\ TotalPaise(p, r) <= 3 * p /\ TotalPaise(p, r) < 209715200
  <2>1. TotalPaise(p, r) \in Nat /\ p <= TotalPaise(p, r)
        /\ TotalPaise(p, r) <= 3 * p /\ TotalPaise(p, r) <= 2 * p + 50
    BY GstBounds, SMT
  <2> QED
    BY <2>1, Hundred, SMT
<1> QED
  BY <1>1, LiftBetween, SMT DEF Lift

--------------------------------------------------------------------------------
\* pow2mod exists, and is what its equation says.
Doubled(i, before) == [n \in Nat \ {0} |-> IF i = 0 THEN 1 % n ELSE (2 * before[n]) % n]

Doubling(f) == [i \in 0 .. 60 |-> Doubled(i, f[i - 1])]

PowUpTo(f, m) == \A i \in 0 .. 60 : i <= m => f[i] = Doubled(i, f[i - 1])

LEMMA DoubledFirst == \A f, g : Doubled(0, f) = Doubled(0, g)
BY DEF Doubled

LEMMA PowExists == \E f : f = Doubling(f)
<1> DEFINE T == {m \in Nat : \E f : PowUpTo(f, m)}
<1>1. 0 \in T
  <2> DEFINE f == [i \in 0 .. 60 |-> Doubled(0, 0)]
  <2>1. f[0] = Doubled(0, 0)
    OBVIOUS
  <2> HIDE DEF f
  <2>2. f[0] = Doubled(0, f[0 - 1])
    BY <2>1, DoubledFirst
  <2>3. PowUpTo(f, 0)
    BY <2>2 DEF PowUpTo
  <2> QED
    BY <2>3
<1>2. ASSUME NEW m \in Nat, m \in T PROVE m + 1 \in T
  <2>1. PICK f : PowUpTo(f, m)
    BY <1>2
  <2> DEFINE g == [i \in 0 .. 60 |-> IF i <= m THEN f[i] ELSE Doubled(i, f[i - 1])]
  <2>2. \A i \in 0 .. 60 : g[i] = IF i <= m THEN f[i] ELSE Doubled(i, f[i - 1])
    OBVIOUS
  <2> HIDE DEF g
  <2>3. ASSUME NEW i \in 0 .. 60, i <= m + 1 PROVE g[i] = Doubled(i, g[i - 1])
    <3>1. g[i] = Doubled(i, f[i - 1])
      BY <2>1, <2>2 DEF PowUpTo
    <3>2. CASE i = 0
      BY <3>1, <3>2, DoubledFirst
    <3>3. CASE i > 0
      <4>1. g[i - 1] = f[i - 1]
        BY <2>2, <2>3, <3>3
      <4> QED
        BY <3>1, <4>1
    <3> QED
      BY <3>2, <3>3
  <2>4. PowUpTo(g, m + 1)
    BY <2>3 DEF PowUpTo
  <2> QED
    BY <2>4
<1>3. 60 \in T
  <2> HIDE DEF T
  <2> QED
    BY <1>1, <1>2, NatInduct
<1>4. PICK f : PowUpTo(f, 60)
  BY <1>3
<1>5. \A i \in 0 .. 60 : f[i] = Doubled(i, f[i - 1])
  BY <1>4 DEF PowUpTo
<1> DEFINE g == [i \in 0 .. 60 |-> f[i]]
<1>6. \A i \in 0 .. 60 : g[i] = f[i]
  OBVIOUS
<1>7. \A i \in 0 .. 60 : g[i] = Doubled(i, g[i - 1])
  <2> SUFFICES ASSUME NEW i \in 0 .. 60 PROVE g[i] = Doubled(i, g[i - 1])
    OBVIOUS
  <2> HIDE DEF g
  <2>1. CASE i = 0
    BY <1>5, <1>6, <2>1, DoubledFirst
  <2>2. CASE i > 0
    <3>1. g[i - 1] = f[i - 1]
      BY <1>6, <2>2
    <3> QED
      BY <1>5, <1>6, <3>1
  <2> QED
    BY <2>1, <2>2
<1>8. g = [i \in 0 .. 60 |-> g[i]]
  OBVIOUS
<1>9. g = Doubling(g)
  <2> HIDE DEF g
  <2> QED
    BY <1>7, <1>8 DEF Doubling
<1> QED
  BY <1>9

LEMMA PowIs ==
  ASSUME NEW i \in Nat, i <= 60, NEW n \in Nat, n > 0
  PROVE  pow2mod[i][n] = IF i = 0 THEN 1 % n ELSE (2 * pow2mod[i - 1][n]) % n
<1>1. pow2mod = Doubling(pow2mod)
  BY PowExists, Zenon DEF pow2mod, Doubling, Doubled
<1>0. i \in 0 .. 60 /\ n \in Nat \ {0}
  OBVIOUS
<1>2. pow2mod[i] = Doubled(i, pow2mod[i - 1])
  <2>1. Doubling(pow2mod)[i] = Doubled(i, pow2mod[i - 1])
    BY <1>0 DEF Doubling
  <2> QED
    BY <1>1, <2>1, Zenon
<1> QED
  BY <1>0, <1>2 DEF Doubled

\* From some power on, all are multiples.
LEMMA PowDivides ==
  ASSUME NEW i \in Nat, 5 <= i, i <= 60
  PROVE  /\ pow2mod[i][200] \in Nat /\ pow2mod[i][200] % 8 = 0
         /\ pow2mod[i][400] \in Nat /\ pow2mod[i][400] % 16 = 0
         /\ pow2mod[i][800] \in Nat /\ pow2mod[i][800] % 32 = 0
<1> DEFINE Good(k) == /\ pow2mod[k][200] \in Nat /\ pow2mod[k][200] % 8 = 0
                      /\ pow2mod[k][400] \in Nat /\ pow2mod[k][400] % 16 = 0
                      /\ pow2mod[k][800] \in Nat /\ pow2mod[k][800] % 32 = 0
           T == {k \in Nat : k <= 55 => Good(k + 5)}
<1>1. \A n \in {200, 400, 800} : n \in Nat /\ n > 0
  OBVIOUS
<1>2. 0 \in T
  <2>1. \A n \in {200, 400, 800} : pow2mod[0][n] = 1
    <3> TAKE n \in {200, 400, 800}
    <3>1. pow2mod[0][n] = 1 % n
      BY <1>1, 0 <= 60, PowIs
    <3> QED
      BY <3>1
  <2>2. \A n \in {200, 400, 800} : pow2mod[1][n] = 2
    BY <1>1, <2>1, PowIs
  <2>3. \A n \in {200, 400, 800} : pow2mod[2][n] = 4
    BY <1>1, <2>2, PowIs
  <2>4. \A n \in {200, 400, 800} : pow2mod[3][n] = 8
    BY <1>1, <2>3, PowIs
  <2>5. \A n \in {200, 400, 800} : pow2mod[4][n] = 16
    BY <1>1, <2>4, PowIs
  <2>6. \A n \in {200, 400, 800} : pow2mod[5][n] = 32
    BY <1>1, <2>5, PowIs
  <2>7. Good(5)
    BY <2>6
  <2> QED
    BY <2>7
<1>3. ASSUME NEW k \in Nat, k \in T PROVE k + 1 \in T
  <2> SUFFICES ASSUME k + 1 <= 55 PROVE Good(k + 1 + 5)
    OBVIOUS
  <2>1. Good(k + 5)
    BY <1>3
  <2>2. PICK j \in Nat : j > 0 /\ j <= 60 /\ j = k + 1 + 5 /\ j - 1 = k + 5
    OBVIOUS
  <2>3. \A n \in {200, 400, 800} : pow2mod[j][n] = (2 * pow2mod[j - 1][n]) % n
    <3> TAKE n \in {200, 400, 800}
    <3>1. j <= 60 /\ j # 0 /\ n \in Nat /\ n > 0
      BY <1>1, <2>2
    <3> HIDE DEF Good, T
    <3> QED
      BY <3>1, PowIs
  <2>4. Good(j - 1)
    BY <2>1, <2>2
  <2>5. Good(j)
    BY <2>3, <2>4
  <2> QED
    BY <2>2, <2>5
<1>4. Nat \subseteq T
  <2> HIDE DEF T
  <2> QED
    BY <1>2, <1>3, NatInduct
<1>5. i - 5 \in T /\ i - 5 <= 55 /\ i - 5 + 5 = i
  <2> HIDE DEF T
  <2> QED
    BY <1>4
<1>6. Good(i)
  BY <1>5
<1> QED
  BY <1>6

\* Whole quarters are multiples of the last bit: scaled comes out as 0.
Exact(p, w) ==
  /\ w % 8 = 0  => (p * w) % 200 = 0
  /\ w % 16 = 0 => (p * w) % 400 = 0
  /\ w % 32 = 0 => (p * w) % 800 = 0

LEMMA QuartersExact ==
  ASSUME NEW p \in Nat, p % 25 = 0, NEW w \in Nat
  PROVE  Exact(p, w)
<1>1. PICK q \in Nat : p = 25 * q
  <2>1. p \div 25 \in Nat /\ p - 25 * (p \div 25) = 0
    OBVIOUS
  <2> QED
    BY <2>1
<1>2. w % 8 = 0 => (p * w) % 200 = 0
  <2> SUFFICES ASSUME w % 8 = 0 PROVE (p * w) % 200 = 0
    OBVIOUS
  <2>1. PICK v \in Nat : w = 8 * v
    <3>1. w \div 8 \in Nat /\ w - 8 * (w \div 8) = 0
      OBVIOUS
    <3> QED
      BY <3>1
  <2>2. p * w = 200 * (q * v) /\ q * v \in Nat
    BY <1>1, <2>1
  <2> QED
    BY <2>2
<1>3. w % 16 = 0 => (p * w) % 400 = 0
  <2> SUFFICES ASSUME w % 16 = 0 PROVE (p * w) % 400 = 0
    OBVIOUS
  <2>1. PICK v \in Nat : w = 16 * v
    <3>1. w \div 16 \in Nat /\ w - 16 * (w \div 16) = 0
      OBVIOUS
    <3> QED
      BY <3>1
  <2>2. p * w = 400 * (q * v) /\ q * v \in Nat
    BY <1>1, <2>1
  <2> QED
    BY <2>2
<1>4. w % 32 = 0 => (p * w) % 800 = 0
  <2> SUFFICES ASSUME w % 32 = 0 PROVE (p * w) % 800 = 0
    OBVIOUS
  <2>1. PICK v \in Nat : w = 32 * v
    <3>1. w \div 32 \in Nat /\ w - 32 * (w \div 32) = 0
      OBVIOUS
    <3> QED
      BY <3>1
  <2>2. p * w = 800 * (q * v) /\ q * v \in Nat
    BY <1>1, <2>1
  <2> QED
    BY <2>2
<1> QED
  BY <1>2, <1>3, <1>4 DEF Exact

LEMMA NothingRounds ==
  /\ RoundEven(0, 100) = 0 /\ RoundEven(0, 200) = 0 /\ RoundEven(0, 400) = 0
  /\ RoundEven(0, 1) = 0 /\ RoundEven(0, 2) = 0 /\ RoundEven(0, 4) = 0
BY DEF RoundEven

\* No sum of whole quarters and its GST comes out above the total.
LEMMA QuartersDoNotExceed ==
  ASSUME NEW p \in Nat, p <= 10 ^ 8, p % 25 = 0, NEW r \in Nat, r <= 100
  PROVE  ~SumExceeds(p, r)
<1>1. CASE p = 0
  BY <1>1, SMT DEF SumExceeds
<1>2. CASE p > 0
  <2>1. Binade(p) \in -7 .. 20 /\ Lift(p, r) \in 0 .. 2
    BY <1>2, LiftIs, SMT
  <2>2. PICK i \in Nat : 5 <= i /\ i <= 60 /\ i = 52 - Binade(p)
    BY <2>1, SMT
  <2>3. PICK step \in {1, 2, 4} : step = 2 ^ Lift(p, r)
    <3>1. 2 ^ 0 \in {1, 2, 4} /\ 2 ^ 1 \in {1, 2, 4} /\ 2 ^ 2 \in {1, 2, 4}
      BY Powers, SMT
    <3>2. Lift(p, r) = 0 \/ Lift(p, r) = 1 \/ Lift(p, r) = 2
      BY <2>1, SMT
    <3>3. 2 ^ Lift(p, r) \in {1, 2, 4}
      <4>1. \A l : l = 0 \/ l = 1 \/ l = 2 => 2 ^ l \in {1, 2, 4}
        BY <3>1, Zenon
      <4> QED
        BY <3>2, <4>1, Zenon
    <3> QED
      BY <3>3, SMT
  <2>4. pow2mod[i][200 * step] \in Nat /\ pow2mod[i][200 * step] % (8 * step) = 0
    <3>1. /\ pow2mod[i][200] \in Nat /\ pow2mod[i][200] % 8 = 0
          /\ pow2mod[i][400] \in Nat /\ pow2mod[i][400] % 16 = 0
          /\ pow2mod[i][800] \in Nat /\ pow2mod[i][800] % 32 = 0
      BY <2>2, PowDivides, SMT
    <3> QED
      BY <3>1, SMT
  <2>5. (p * pow2mod[i][200 * step]) % (200 * step) = 0
    <3>1. PICK w \in Nat : w = pow2mod[i][200 * step] /\ w % (8 * step) = 0
      BY <2>4, SMT
    <3>2. Exact(p, w)
      BY QuartersExact, SMT
    <3>3. (p * w) % (200 * step) = 0
      BY <3>1, <3>2, SMT DEF Exact
    <3> QED
      BY <3>1, <3>3, SMT
  <2>6. ~(RoundEven(RoundEven(0, 100), step) > RoundEven(0, 100 * step))
    BY NothingRounds, SMT
  <2> QED
    BY <2>2, <2>3, <2>5, <2>6, SMT DEF SumExceeds
<1> QED
  BY <1>1, <1>2, SMT

LEMMA QuartersAreSettled ==
  ASSUME NEW p \in Nat, p <= 10 ^ 8, p % 25 = 0, NEW r \in Nat, r <= 100
  PROVE  Settles(TotalPaise(p, r), p, r)
BY QuartersDoNotExceed, SMT DEF Settles

--------------------------------------------------------------------------------
\* The walk stays within its bounds.
Walk ==
  /\ paise \in Nat /\ paise <= 10 ^ 8 /\ rate \in Nat /\ rate <= 100 /\ day \in Nat

LEMMA WalkInit == FiguresInit => Walk
<1>1. \A r \in Rates : r \in Nat /\ r <= 100
  BY FiguresAssumption, SMT
<1> QED
  <2>1. FirstDay \in Nat /\ 0 <= 10 ^ 8
    BY Hundred, FiguresAssumption, SMT
  <2> QED
    BY <1>1, <2>1, SMT DEF FiguresInit, Walk

LEMMA WalkStep == Walk /\ [FiguresNext]_figureVars => Walk'
BY FiguresAssumption, Hundred, SMT DEF Walk, FiguresNext, NextPaise, NextDay, figureVars

LEMMA WalkHolds == FiguresSpec => []Walk
BY WalkInit, WalkStep, PTL DEF FiguresSpec

(* toRupees, computeTotals, noteIfSettled: a payment of exactly the total    *)
(* settles an invoice whose subtotal is in whole quarters of a rupee,        *)
(* whatever its GST rate and up to ten lakh rupees.                          *)
THEOREM QuartersAlwaysSettle == FiguresSpec => []QuartersSettle
<1>1. Walk => QuartersSettle
  BY QuartersAreSettled, SMT DEF Walk, QuartersSettle
<1> QED
  BY <1>1, WalkHolds, PTL

(* weekRange, monthRange, dayRange: weeks, months and days of the reports    *)
(* partition the calendar, for every day after the first of 1970.            *)
THEOREM PeriodsAlwaysTile == FiguresSpec => []PeriodsTile
<1>1. ASSUME Walk, day > 0 PROVE PeriodsTile
  <2>1. day \in Nat \ {0}
    BY <1>1, SMT DEF Walk
  <2> QED
    BY <2>1, DayTiles, Zenon DEF PeriodsTile
<1>2. Walk => PeriodsTile
  BY <1>1, Zenon DEF PeriodsTile
<1> QED
  BY <1>2, WalkHolds, PTL
================================================================================
