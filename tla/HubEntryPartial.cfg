SPECIFICATION Spec
CONSTANTS
  Devices = {"plug", "remote"}
  TypeOf <- MCPlugRemote
  Selected = {"switch", "sensor"}
  Incomplete = {}
  MaxSetups = 2
INVARIANT
  CompleteOrRetried
