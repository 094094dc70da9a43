SPECIFICATION Spec
CONSTANTS
  c1 = c1
  c2 = c2
  Calls = {c1, c2}
  Shut = 2
  Stop = Stop
  MaxCalls = 2
  MaxOthers = 1
  MaxReports = 1
INVARIANTS
  TypeOK
  StopStays
  MovementShown
PROPERTY RestIsShown
