SPECIFICATION PathSpec
CONSTANTS
  d1 = d1
  d2 = d2
  Devices = {d1, d2}
  MaxChanges = 2
  MaxOpens = 3
INVARIANT
  NeverSilentlyStale
