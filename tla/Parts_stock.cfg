SPECIFICATION Spec
CONSTANTS
  r1 = r1
  r2 = r2
  x = x
  y = y
  j1 = j1
  Missing = Missing
  Untracked = Untracked
  Requests <- TwoRequests
  Items <- TwoItems
  Jobs <- OneJob
  Bodies <- AllBodies
  Levels <- AllLevels
  Crashes = TRUE
SYMMETRY PartsSymmetry
INVARIANTS
  StockExact
  TimelineMatchesStock
CHECK_DEADLOCK FALSE
