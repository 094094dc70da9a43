SPECIFICATION Spec
CONSTANTS
  Devices <- MCDevices
  Entities <- MCEntities
  Domains <- MCDomains
  Parts <- MCParts
  Carries <- MCCarries
  PlatformOf <- MCPlatformOf
  MadeFrom <- MCMadeFrom
  DeviceOf <- MCDeviceOf
  DomainOf <- MCDomainOf
  DefaultOff <- MCDefaultOff
  AtSetup <- MCAtSetup
  Matter <- MCMatter
  DryRun = FALSE
  MaxMoves = 2
  MaxHand = 0
INVARIANTS FilterHides
CHECK_DEADLOCK FALSE
