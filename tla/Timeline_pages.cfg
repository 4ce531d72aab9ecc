SPECIFICATION Spec
CONSTANTS
  l1 = l1
  l2 = l2
  l3 = l3
  l4 = l4
  c1 = c1
  Lines <- FourLines
  Clients <- OneClient
  Limit = 1
  Failures = TRUE
SYMMETRY TimelineSymmetry
INVARIANTS
  NoRowTwice
  HistoryComplete
  NothingBetween
CHECK_DEADLOCK FALSE
