\* Outside the runs: StopSurvivesRefresh is violated.
SPECIFICATION Spec
CONSTANTS
  c1 = c1
  c2 = c2
  Calls = {c1, c2}
  Shut = 2
  Stop = Stop
  MaxCalls = 1
  MaxOthers = 1
  MaxReports = 1
PROPERTY StopSurvivesRefresh
