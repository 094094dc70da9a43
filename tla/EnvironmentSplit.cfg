SPECIFICATION SensorSpec
CONSTANTS
  Pollers = {p1, p2}
  Names = {n1, n2}
  Rooms = {r1, r2}
  MaxEdits = 3
  MaxDrops = 1
  MaxReloads = 1
SYMMETRY AnySymmetry
INVARIANTS PrimaryNames
CHECK_DEADLOCK FALSE
