SPECIFICATION Spec
CONSTANTS
  e1 = e1
  e2 = e2
  p1 = p1
  p2 = p2
  Edits <- TwoEdits
  Payments <- TwoPayments
  Issued = Issued
  NoPayment = NoPayment
  Sums <- FewSums
  Amounts <- FewAmounts
  Rate = 18
  Crashes = TRUE
INVARIANTS
  PaidIsNoted
CHECK_DEADLOCK FALSE
