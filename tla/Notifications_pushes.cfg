SPECIFICATION DaySpec
CONSTANTS
  p1 = p1
  m = m
  t = t
  d = d
  e = e
  Pushes <- OnePush
  Users <- TwoUsers
  Devices <- TwoDevices
  NoUser = NoUser
  Chunk = 1
  TakeRows = 1
  Changes = 2
INVARIANTS
  TypeOK
  StaffTold
  KeptTokens
  EveryChunkTried
  BadgeFits
PROPERTIES
  ReadsCurrentUser
  PushEnds
CHECK_DEADLOCK FALSE
