--------------------------- MODULE MCConfigEntries ---------------------------
(* Two addresses, two entries and two dialogs.                             *)
EXTENDS ConfigEntries, TLC
CONSTANTS h1, h2, a1, a2, e1, e2, f1, f2
MCSymmetry == Permutations({a1, a2}) \cup Permutations({e1, e2}) \cup Permutations({f1, f2})
=============================================================================
