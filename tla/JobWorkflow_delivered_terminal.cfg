SPECIFICATION Spec
CONSTANTS
  r1 = r1
  r2 = r2
  r3 = r3
  seed = seed
  Jobs = {j1}
  Requests = {r1, r2}
  Seed = seed
  Sides <- OneSide
  Techs <- None
  Office = {manager}
  Assignees <- None
  Stages <- Shop
  Overlap <- Everything
  StampOf <- DistinctStamps
  Crashes = FALSE
PROPERTIES
  DeliveredIsTerminal
CHECK_DEADLOCK FALSE
