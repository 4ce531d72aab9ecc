SPECIFICATION Spec
CONSTANTS
  r1 = r1
  r2 = r2
  r3 = r3
  seed = seed
  Jobs = {j1}
  Requests = {r1, r2, r3}
  Seed = seed
  Sides <- TwoSides
  Techs = {tech}
  Office = {manager}
  Assignees = {tech}
  Stages <- AllStages
  Overlap <- Everything
  StampOf <- SharedStamps
  Crashes = TRUE
SYMMETRY PairSymmetry
INVARIANTS
  TypeOK
  WorkImpliesStarted
  HandoverDocumented
  ResumesToOpenStage
  DecidedOnce
  RuledAsRead
  BillsOnlyApproved
  AnnouncedIsStored
CHECK_DEADLOCK FALSE
