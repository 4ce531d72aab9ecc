---------------------------------- MODULE Reports -------------------------------
(***************************************************************************)
(* finance.service.ts: figures derived from one workshop's invoices and    *)
(* payments while both change.  Whether an invoice is covered is decided   *)
(* as the code does (Money); sums over invoices and payments are of exact  *)
(* paise, where the code adds up binary64 rupees and may be a fraction of  *)
(* a paisa off.  Time is in ticks, a day is [n * DayTicks, (n + 1) *       *)
(* DayTicks), a month likewise; the database dates an invoice and a        *)
(* payment when it stores them.                                            *)
(***************************************************************************)
EXTENDS Money, FiniteSets, Functions

CONSTANTS
  Invoices, Payments,  \* ids, in the order their rows come back
  Customers, Sums, Amounts, Rate,
  Offered,             \* the names of methods clients use
  DayTicks, MonthTicks,
  LastTick             \* bound: when the model's time ends

ASSUME BookAssumption ==
  /\ Invoices \subseteq Nat \ {0} /\ Payments \subseteq Nat \ {0}
  /\ Sums \subseteq Nat /\ Amounts \subseteq Nat \ {0} /\ Rate \in Nat
  /\ IsFiniteSet(Customers)
  /\ Offered \subseteq {"Cash", "UPI", "Card"}
  /\ DayTicks \in Nat \ {0} /\ MonthTicks \in Nat \ {0} /\ LastTick \in Nat

VARIABLES
  now,
  invoices,   \* rows, the lines as their sum
  payments,   \* rows
  step,       \* of a summary: 0 not asked, 1 and 2 about to read, 3 answered
  asked,      \* when it was asked
  outstanding, collectedToday,  \* what it answers
  billed      \* history: the sum of the invoices it read

summary  == <<step, asked, outstanding, collectedToday, billed>>
bookVars == <<now, invoices, payments, summary>>

Methods == {"CASH", "UPI", "CARD"}
Invoice == [id : Invoices, customer : Customers, sum : Sums, at : 0 .. LastTick]
Payment == [id : Payments, of : Invoices, amount : Amounts, method : Methods, at : 0 .. LastTick]

BooksTypeOK ==
  /\ now \in 0 .. LastTick /\ asked \in 0 .. LastTick
  /\ invoices \subseteq Invoice /\ payments \subseteq Payment
  /\ outstanding \in Nat /\ collectedToday \in Nat /\ billed \in Nat
  /\ step \in 0 .. 3

BooksInit ==
  /\ now = 0 /\ asked = 0 /\ step = 0
  /\ invoices = {} /\ payments = {}
  /\ outstanding = 0 /\ collectedToday = 0 /\ billed = 0

--------------------------------------------------------------------------------
(* What the reports are derived from, and how.                               *)

Total(i)      == TotalPaise(i.sum, Rate)
Of(i, P)      == {p \in P : p.of = i.id}
Sum(P)        == SumFunction([p \in P |-> p.amount])
Bill(I)       == SumFunction([i \in I |-> Total(i)])
Balance(i, P) == Total(i) - Sum(Of(i, P))
Owed(I, P)    == {i \in I : ~Settles(Sum(Of(i, P)), i.sum, Rate)}

\* summary: what is outstanding (in exact paise; the code adds the balances in
\* rupees); receivables are the rows it is the sum of.
Outstanding(I, P) == SumFunction([i \in Owed(I, P) |-> Balance(i, P)])
Overpaid(I, P)    == SumFunction([i \in I \ Owed(I, P) |-> -Balance(i, P)])

\* dayRange
DayOf(tick) == LET d == tick \div DayTicks IN d * DayTicks .. (d + 1) * DayTicks - 1

DayBook(tick, P)  == {p \in P : p.at \in DayOf(tick)}
By(method, P)     == {p \in P : p.method = method}

\* Variant: both halves are rounded.
GstReportRounded(month, I) ==
  LET due == {i \in I : i.at \div MonthTicks = month}
      gst == SumFunction([i \in due |-> Gst(i.sum, Rate)])
  IN  [taxable |-> SumFunction([i \in due |-> i.sum]),
       cgst |-> (gst + 1) \div 2, sgst |-> (gst + 1) \div 2, count |-> Cardinality(due)]

\* gst: of the invoices issued in a month; Math.round(gst / 2) rupees
GstReport(month, I) ==
  LET due  == {i \in I : i.at \div MonthTicks = month}
      gst  == SumFunction([i \in due |-> Gst(i.sum, Rate)])
      cgst == (gst + 1) \div 2
  IN  [taxable |-> SumFunction([i \in due |-> i.sum]),
       cgst |-> cgst, sgst |-> gst - cgst, count |-> Cardinality(due)]

LedgerRow(inv, pay, at, debit, credit) ==
  [inv |-> inv, pay |-> pay, at |-> at, debit |-> debit, credit |-> credit]

Midnight(tick) == (tick \div DayTicks) * DayTicks

\* Variant: it is the payments that are dated by their day.
RowsOfPaidDays(c, I, P) == UNION {
  {LedgerRow(i.id, 0, i.at, Total(i), 0)}
    \cup {LedgerRow(i.id, p.id, Midnight(p.at), 0, p.amount) : p \in Of(i, P)} : i \in {j \in I : j.customer = c}}

\* ledger: an invoice at the midnight of its day, its payments when they came.
\* The code takes every invoice of the customer, of whatever workshop, where the
\* summary takes the invoices of a workshop, of whatever customer.
Rows(c, I, P) == UNION {
  {LedgerRow(i.id, 0, Midnight(i.at), Total(i), 0)}
    \cup {LedgerRow(i.id, p.id, p.at, 0, p.amount) : p \in Of(i, P)} : i \in {j \in I : j.customer = c}}

\* rows.sort is stable: rows of one time stay as they were pushed.
UpTo(row, rows) == {r \in rows :
  \/ r.at < row.at
  \/ r.at = row.at /\ (r.inv < row.inv \/ (r.inv = row.inv /\ r.pay <= row.pay))}

\* ledger: the running balance (in exact paise; the code adds up in rupees)
Running(row, rows) == SumFunction([r \in UpTo(row, rows) |-> r.debit - r.credit])

--------------------------------------------------------------------------------
Issue(n, c, s) ==
  /\ \A i \in invoices : i.id # n
  /\ invoices' = invoices \cup {[id |-> n, customer |-> c, sum |-> s, at |-> now]}
  /\ UNCHANGED <<now, payments, summary>>

EditLines(i, s) ==
  /\ invoices' = (invoices \ {i}) \cup {[i EXCEPT !.sum = s]}
  /\ UNCHANGED <<now, payments, summary>>

\* Variant: the method is stored as the client names it.
PayRaw(n, i, a, m) ==
  /\ \A p \in payments : p.id # n
  /\ payments' = payments \cup {[id |-> n, of |-> i.id, amount |-> a, method |-> m, at |-> now]}
  /\ UNCHANGED <<now, invoices, summary>>

apiToPaymentMethod == [Cash |-> "CASH", UPI |-> "UPI", Card |-> "CARD"]

Pay(n, i, a, m) ==
  /\ \A p \in payments : p.id # n
  /\ payments' = payments \cup
       {[id |-> n, of |-> i.id, amount |-> a, method |-> apiToPaymentMethod[m], at |-> now]}
  /\ UNCHANGED <<now, invoices, summary>>

Tick == now < LastTick /\ now' = now + 1 /\ UNCHANGED <<invoices, payments, summary>>

Ask ==
  /\ step = 0
  /\ step' = 1 /\ asked' = now
  /\ UNCHANGED <<now, invoices, payments, outstanding, collectedToday, billed>>

\* Variant: the day's payments first.
Backwards == <<"payments", "invoices">>
Order     == <<"invoices", "payments">>

ReadInvoices ==
  /\ step \in {1, 2} /\ Order[step] = "invoices"
  /\ step' = step + 1
  /\ outstanding' = Outstanding(invoices, payments) /\ billed' = Bill(invoices)
  /\ UNCHANGED <<now, invoices, payments, asked, collectedToday>>

ReadPayments ==
  /\ step \in {1, 2} /\ Order[step] = "payments"
  /\ step' = step + 1 /\ collectedToday' = Sum(DayBook(asked, payments))
  /\ UNCHANGED <<now, invoices, payments, asked, outstanding, billed>>

Answer ==
  /\ step = 3
  /\ step' = 0 /\ asked' = 0 /\ outstanding' = 0 /\ collectedToday' = 0 /\ billed' = 0
  /\ UNCHANGED <<now, invoices, payments>>

BooksNext ==
  \/ \E n \in Invoices, c \in Customers, s \in Sums : Issue(n, c, s)
  \/ \E i \in invoices, s \in Sums : EditLines(i, s)
  \/ \E n \in Payments, i \in invoices, a \in Amounts, m \in Offered : Pay(n, i, a, m)
  \/ Tick \/ Ask \/ ReadInvoices \/ ReadPayments \/ Answer

BooksSpec == BooksInit /\ [][BooksNext]_bookVars

--------------------------------------------------------------------------------
(***************************************************************************)
(* summary: what was billed is outstanding, collected today or paid on     *)
(* another day, whatever comes in between its two reads.  A payment may    *)
(* then be in two of these, never in none.                                 *)
(***************************************************************************)
SummaryNeverShort ==
  step = 3 => LET otherDays == {p \in payments : p.at \notin DayOf(asked)}
              IN  billed <= outstanding + collectedToday + Sum(otherDays)

\* The tables are the same with and without a summary under way, which only reads
\* them: what is said of the tables alone is asked between two summaries.
NoSummary == step = 0

(***************************************************************************)
(* ledger: a bill comes before its payments, so that no running balance    *)
(* falls below what the customer overpaid in the end.                      *)
(***************************************************************************)
DebitsFirst == NoSummary => \A c \in Customers :
  LET mine == {i \in invoices : i.customer = c}
      rows == Rows(c, invoices, payments)
  IN  \A row \in rows : Running(row, rows) >= -Overpaid(mine, payments)

(***************************************************************************)
(* collections: every payment is in the book of one day, under one method. *)
(* gst: every invoice is in the return of one month, and the halves of the *)
(* tax add up to what the invoices charge, odd sums and edits included.    *)
(***************************************************************************)
PeriodsComplete == NoSummary =>
  LET days   == 0 .. LastTick \div DayTicks
      months == 0 .. LastTick \div MonthTicks
      day(n) == DayBook(n * DayTicks, payments)
      report == [n \in months |-> GstReport(n, invoices)]
      billedIn(r) == r.taxable + 100 * (r.cgst + r.sgst)
  IN  /\ SumFunction([n \in days |-> Sum(day(n))]) = Sum(payments)
      /\ \A n \in days : SumFunction([m \in Methods |-> Sum(By(m, day(n)))]) = Sum(day(n))
      /\ SumFunction([n \in months |-> report[n].count]) = Cardinality(invoices)
      /\ SumFunction([n \in months |-> billedIn(report[n])]) = Bill(invoices)

================================================================================
