----------------------------- MODULE EnergyGuard -----------------------------
(***************************************************************************)
(* The guard that keeps spurious dips out of an outlet's cumulative energy *)
(* attributes (hub_event_listener.py, issue #45): a decreasing total is    *)
(* held back unless its payload carries a newer timeOfLastEnergyReset, it  *)
(* drops to zero, or it is the third decrease in a row.                    *)
(*                                                                         *)
(* This module is the code's part: the attributes a payload writes.        *)
(* EnergyStatistics adds the meter, the hub and Home Assistant.            *)
(***************************************************************************)
EXTENDS Integers

CONSTANTS
  Attrs,        \* ENERGY_TOTAL_ATTRS
  AcceptAfter,  \* ENERGY_DECREASE_ACCEPT_AFTER
  NoValue       \* what is not a number: None, or an attribute that is not there yet

ASSUME AcceptAssumption == AcceptAfter \in Nat \ {0}
ASSUME NoValueAssumption == NoValue \notin Int

VARIABLES
  stored,   \* entity._json_data.attributes, the cumulative ones
  resetAt,  \* ... and time_of_last_energy_reset; NoTime when it is None
  held      \* entity._energy_decrease_held

guardVars == <<stored, resetAt, held>>

NoTime == 0

\* A payload's attributes: totals for some of Attrs, each a number or not, and a reset time,
\* or NoTime when the key is missing or holds None.
Payloads(values, times) ==
  [vals : UNION {[as -> values \cup {NoValue}] : as \in SUBSET Attrs}, reset : times]

\* _energy_reset_advanced, evaluated before anything of the payload is written.
ResetAdvanced(p) ==
  /\ p.reset # NoTime
  /\ resetAt = NoTime \/ p.reset > resetAt

\* _hold_back_energy_decrease only compares two numbers: what is none is written, and so is
\* whatever follows it.
Compares(a, v) == stored[a] # NoValue /\ v # NoValue

\* It looks for a decrease to a number above zero.
IsDip(a, v) == Compares(a, v) /\ v < stored[a] /\ v > 0

\* Mutants of HeldBack and of HeldAfter.
HeldBackAlways(p, a) == ~ResetAdvanced(p) /\ IsDip(a, p.vals[a])
HeldAfterKeeps(p, a) ==
  IF ~ResetAdvanced(p) /\ IsDip(a, p.vals[a])
  THEN IF held[a] + 1 >= AcceptAfter THEN 0 ELSE held[a] + 1
  ELSE held[a]

\* The write is skipped: a dip without a newer reset, and not yet AcceptAfter in a row.
HeldBack(p, a) ==
  ~ResetAdvanced(p) /\ IsDip(a, p.vals[a]) /\ held[a] + 1 < AcceptAfter

\* The counter of consecutive dips.  A newer reset bypasses the guard, counter and all, and
\* what is not a number leaves the counter as it is.
HeldAfter(p, a) ==
  IF ResetAdvanced(p) \/ ~Compares(a, p.vals[a]) THEN held[a]
  ELSE IF IsDip(a, p.vals[a]) /\ held[a] + 1 < AcceptAfter THEN held[a] + 1
  ELSE 0

\* The attribute loop of on_message.  The reset time is written whatever it is.
OnAttributes(p) ==
  /\ stored' = [a \in Attrs |-> IF a \in DOMAIN p.vals /\ ~HeldBack(p, a)
                                THEN p.vals[a] ELSE stored[a]]
  /\ held' = [a \in Attrs |-> IF a \in DOMAIN p.vals THEN HeldAfter(p, a) ELSE held[a]]
  /\ resetAt' = IF p.reset # NoTime THEN p.reset ELSE resetAt
=============================================================================
