------------------------- MODULE MCEnergyStatistics -------------------------
(* One plug with both cumulative attributes. *)
EXTENDS EnergyStatistics
CONSTANTS totalEnergyConsumed, energyConsumedAtLastReset
MCAttrs == {totalEnergyConsumed, energyConsumedAtLastReset}
=============================================================================
