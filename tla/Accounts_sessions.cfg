SPECIFICATION Spec
CONSTANTS
  r1 = r1
  r2 = r2
  r3 = r3
  a = a
  b = b
  c = c
  d = d
  h = h
  w = w
  x = x
  y = y
  z = z
  Requests <- ThreeRequests
  Users <- FourUsers
  Workshops <- TwoShops
  Emails <- ThreeEmails
  Home = h
  Seeded <- TwoSeeded
  Founder = a
  SeedEmail <- Emailed
  Nobody = Nobody
SYMMETRY Symmetry
INVARIANTS
  EndedStaysEnded
  StaysWhereSwitched
  TokensWithinAccess
  EmailsUnique
CHECK_DEADLOCK FALSE
