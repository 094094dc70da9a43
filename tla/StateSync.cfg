SPECIFICATION PathFairSpec
CONSTANTS
  d1 = d1
  d2 = d2
  Devices = {d1, d2}
  MaxChanges = 2
  MaxOpens = 3
INVARIANT
  StaleIsExcused
PROPERTY
  ShownCatchesUp
CHECK_DEADLOCK FALSE
