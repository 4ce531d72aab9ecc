SPECIFICATION FairSpec
CONSTANTS
  r1 = r1
  r2 = r2
  r3 = r3
  seed = seed
  Jobs = {j1}
  Requests = {r1, r2, r3}
  Seed = seed
  Sides <- OneSide
  Techs <- None
  Office = {manager}
  Assignees <- None
  Stages <- AllStages
  Overlap <- Alike
  StampOf <- DistinctStamps
  Crashes = FALSE
INVARIANTS
  InvoiceFollowsApproval
PROPERTIES
  ImplementsLifecycle
  DecisionTakesEffect
CHECK_DEADLOCK FALSE
