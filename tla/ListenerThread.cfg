SPECIFICATION ThreadFairSpec
CONSTANTS
  Timers = {1, 2, 3, 4, 5, 6, 7}
  None = 0
  MaxChains = 2
INVARIANTS
  KeepaliveServes
  OneKeepalive
  ResyncScheduled
PROPERTIES
  KeepaliveDies
  StopReturns
