SPECIFICATION BooksSpec
CONSTANTS
  a = a
  b = b
  Invoices <- TwoIds
  Payments <- TwoIds
  Customers <- TwoCustomers
  Sums <- FewSums
  Amounts <- OneAmount
  Rate = 18
  Offered <- CashAndUPI
  DayTicks = 2
  MonthTicks = 2
  LastTick = 2
SYMMETRY Symmetry
INVARIANTS
  BooksTypeOK
  SummaryNeverShort
  DebitsFirst
  PeriodsComplete
CHECK_DEADLOCK FALSE
