------------------------- MODULE MCEnvironmentSensor -------------------------
EXTENDS EnvironmentSensor, TLC
\* Names and rooms are compared, and pollers queue, but nothing tells them apart.
AnySymmetry == Permutations(Pollers) \cup Permutations(Names) \cup Permutations(Rooms)
=============================================================================
