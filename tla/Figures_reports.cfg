SPECIFICATION FiguresSpec
CONSTANTS
  MaxPaise = 30000
  Rates = {0, 5, 12, 18, 28}
  FirstDay = 10900
  LastDay = 21914
INVARIANTS
  QuartersSettle
  PeriodsTile
CHECK_DEADLOCK FALSE
