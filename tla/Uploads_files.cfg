SPECIFICATION Spec
CONSTANTS
  r1 = r1
  r2 = r2
  r3 = r3
  t1 = t1
  t2 = t2
  logo = logo
  car = car
  side = side
  Requests <- ThreeRequests
  Tokens <- TwoTokens
  Logos <- OneLogo
  VehiclePhotos <- OneCar
  SidePhotos <- OneSide
  NoFile = NoFile
SYMMETRY Symmetry
INVARIANTS
  ShownIsWhole
  OneWriter
  GoneMeansSpent
CHECK_DEADLOCK FALSE
