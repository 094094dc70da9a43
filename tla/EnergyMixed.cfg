SPECIFICATION Spec
CONSTANTS
  totalEnergyConsumed = totalEnergyConsumed
  energyConsumedAtLastReset = energyConsumedAtLastReset
  NoValue = NoValue
  Attrs <- MCAttrs
  Total = totalEnergyConsumed
  AcceptAfter = 3
  Styles = {"mixed"}
  MaxUsed = 4
  MaxResets = 2
  MaxOther = 2
INVARIANT
  NoInflation
