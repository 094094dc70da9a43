SPECIFICATION FairSpec
CONSTANTS
  Devices = {"plug", "remote"}
  TypeOf <- MCPlugRemote
  Selected = {"switch", "sensor"}
  Incomplete = {}
  MaxSetups = 2
INVARIANTS
  TypeOK
  UpdatesReachEntity
  AddedOnce
  Coordinated
  CompanionsToo
PROPERTY
  NewDeviceAppears
