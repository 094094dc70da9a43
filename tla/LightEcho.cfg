SPECIFICATION LightSpec
CONSTANTS
  Calls = {c1, c2}
  Requests <- OffBrightWhite
  MaxTouches = 1
  MaxWire = 2
SYMMETRY CallSymmetry
INVARIANTS OnlyRedundantSkipped
CHECK_DEADLOCK FALSE
