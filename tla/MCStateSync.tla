----------------------------- MODULE MCStateSync -----------------------------
(* Two devices that change independently, each with an entity.             *)
EXTENDS SensorPath

CONSTANTS d1, d2
=============================================================================
