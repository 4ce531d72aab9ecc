-------------------------------- MODULE Figures -------------------------------
(***************************************************************************)
(* Money over every subtotal up to MaxPaise for the GST rates in use, and  *)
(* the reports' periods of every day from FirstDay to LastDay.             *)
(***************************************************************************)
EXTENDS Money, Periods

CONSTANTS MaxPaise, Rates, FirstDay, LastDay

ASSUME FiguresAssumption ==
  /\ MaxPaise \in Nat /\ MaxPaise <= 10 ^ 8
  /\ Rates \subseteq 0 .. 100
  /\ FirstDay \in Nat \ {0}

VARIABLES paise, rate, day

figureVars == <<paise, rate, day>>

FiguresInit ==
  /\ paise = 0
  /\ \/ rate \in Rates /\ day = 0
     \/ rate = 0 /\ day = FirstDay

NextPaise == day = 0 /\ paise < MaxPaise /\ paise' = paise + 1 /\ UNCHANGED <<rate, day>>
NextDay   == day > 0 /\ day < LastDay /\ day' = day + 1 /\ UNCHANGED <<paise, rate>>

FiguresNext == NextPaise \/ NextDay
FiguresSpec == FiguresInit /\ [][FiguresNext]_figureVars

(***************************************************************************)
(* noteIfSettled, invoiceStatus: subtotals of whole quarters of a rupee    *)
(* are exact in binary64, a payment of just the total settles them.        *)
(***************************************************************************)
QuartersSettle ==
  paise % 25 = 0 => Settles(TotalPaise(paise, rate), paise, rate)

(***************************************************************************)
(* weekRange: the week of a day, anchored anywhere in it, is the seven     *)
(* days from its Monday, through the ends of months and years.             *)
(* monthRange, dayRange: the months of the GST and profit reports follow   *)
(* each other without a gap or an overlap, and the twelve "y-m" and the    *)
(* "y-m-d" a client may ask for name just the days of the calendar.        *)
(***************************************************************************)
PeriodsTile == day > 0 =>
  LET week   == weekRange(day)
      monday == day - ((day + 3) % 7)
      y == UTCFullYear(day)
      m == UTCMonth(day) + 1
      d == UTCDate(day)
  IN  /\ week = monday .. monday + 6
      /\ \A other \in week : weekRange(other) = week
      /\ day \in monthRange(y, m) /\ dayRange(y, m, d) = {day}
      /\ \A n \in 1 .. 12 : day \in monthRange(y, n) => n = m
      /\ IF UTCDate(day + 1) > 1 THEN monthOf(day + 1) = monthOf(day)
                                 ELSE monthOf(day + 1) \cap monthOf(day) = {}
      /\ day + 1 \in monthOf(day + 1) /\ day + 1 - d \in monthOf(day)
================================================================================
