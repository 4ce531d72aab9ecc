SPECIFICATION FairSpec
CONSTANTS
  i1 = i1
  i2 = i2
  i3 = i3
  Intakes <- Three
  Existing = 1
  Attempts = 2
  Crashes = TRUE
INVARIANTS
  CodesDense
  FailsOnlyInCrowd
PROPERTIES
  IntakeCompletes
CHECK_DEADLOCK FALSE
