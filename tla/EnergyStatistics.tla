--------------------------- MODULE EnergyStatistics ---------------------------
(***************************************************************************)
(* What the guard of EnergyGuard is for: Home Assistant's long-term        *)
(* statistics.  A metering plug counts energy and can be reset; the hub    *)
(* reports the counter, now and then a value that is too low, or one that  *)
(* is no number; HA adds up the numbers a TOTAL_INCREASING sensor shows,   *)
(* taking any decrease for a reset, after which it counts the whole new    *)
(* total again.                                                            *)
(***************************************************************************)
EXTENDS EnergyGuard

CONSTANTS
  Total,      \* the attribute of Attrs that the statistics are made of
  Styles,     \* how plugs report a reset: "announced", "silent", or "mixed"
  MaxUsed,    \* bounds: the energy used, also by the statistics before the last dip,
  MaxResets,  \* the resets of the meter,
  MaxOther    \* and the values of the other attributes

ASSUME TotalAssumption == Total \in Attrs
ASSUME StylesAssumption == Styles \subseteq {"announced", "silent", "mixed"}
ASSUME BoundsAssumption == MaxUsed \in Nat /\ MaxResets \in Nat /\ MaxOther \in Nat

VARIABLES
  style,     \* how this plug reports its resets
  meter,     \* energy since the last reset, what the plug shows
  used,      \* all energy used
  resets,    \* resets of the meter; also the time of the last one
  dipped,    \* a dip has been reported and no plain correct reading since
  reported,  \* history: the last correct reading sent
  streak,    \* history: correct readings in a row since a dip or a reset
  unguarded, \* history: a total that was no number has left the guard blind (Blank, Glitch)
  counted,   \* HA's statistics: the last number seen, ...
  sum        \* ... and what they add up to

plug == <<style, meter, used, resets>>
statistics == <<counted, sum>>
vars == <<guardVars, plug, dipped, reported, streak, unguarded, statistics>>
others == Attrs \ {Total}

TypeOK ==
  /\ stored \in [Attrs -> Nat \cup {NoValue}]
  /\ held \in [Attrs -> 0 .. (AcceptAfter - 1)]
  /\ resetAt \in Nat /\ resets \in Nat
  /\ style \in Styles
  /\ meter \in Nat /\ used \in Nat /\ sum \in Nat /\ counted \in Nat
  /\ reported \in Nat
  /\ streak \in 0 .. AcceptAfter
  /\ {dipped, unguarded} \subseteq BOOLEAN

Init ==
  /\ style \in Styles
  /\ meter \in 0 .. MaxUsed /\ used = 0 /\ reported = meter
  /\ sum = 0 /\ counted = meter
  /\ stored \in [Attrs -> {NoValue, meter}]
  /\ held = [a \in Attrs |-> 0]
  /\ resets = 0 /\ resetAt = NoTime
  /\ dipped = FALSE /\ streak = 0 /\ unguarded = FALSE

-----------------------------------------------------------------------------
(* The plug.                                                               *)

Consume ==
  /\ used < MaxUsed
  /\ meter' = meter + 1 /\ used' = used + 1
  /\ UNCHANGED <<guardVars, style, resets, dipped, reported, streak, unguarded, statistics>>

\* A silent plug does not move the time of its last reset.
Reset ==
  /\ resets < MaxResets
  /\ meter' = 0 /\ resets' = resets + 1 /\ streak' = 0
  /\ UNCHANGED <<guardVars, style, used, dipped, reported, unguarded, statistics>>

\* The reset time a payload may carry: an announcing plug sends a new one together with
\* the first total that follows the reset; a mixed one may send totals before it.
Stamps ==
  CASE style = "announced" -> IF resetAt = resets THEN {NoTime, resets} ELSE {resets}
    [] style = "silent"    -> {NoTime}
    [] style = "mixed"     -> {NoTime, resets}

-----------------------------------------------------------------------------
(* Home Assistant adds the increase, or the whole new total after a drop.  *)
(* What the sensor shows without a number does not count.                  *)

Counted ==
  IF stored'[Total] = NoValue THEN UNCHANGED statistics
  ELSE /\ sum' = sum + (IF stored'[Total] < counted THEN stored'[Total]
                        ELSE stored'[Total] - counted)
       /\ counted' = stored'[Total]

\* One payload with v for Total, and anything for some of the other attributes.
OthersValues == 0 .. MaxOther \cup {NoValue}
Payload(v, stamp) ==
  /\ \E as \in SUBSET others : \E f \in [as -> OthersValues] :
       OnAttributes([vals |-> [a \in as \cup {Total} |-> IF a = Total THEN v ELSE f[a]],
                     reset |-> stamp])
  /\ Counted
  /\ UNCHANGED plug

\* The hub reports the meter.  A reading is plain when it brings no newer reset time.
Reading ==
  \E stamp \in Stamps :
    /\ Payload(meter, stamp)
    /\ reported' = meter
    /\ streak' = IF streak < AcceptAfter THEN streak + 1 ELSE streak
    /\ dipped' = (dipped /\ style # "mixed" /\ stamp > resetAt)
    /\ UNCHANGED unguarded

\* The hub reports a total that is no number.  The counter of dips is left as it is.
Blank ==
  /\ \E stamp \in Stamps : Payload(NoValue, stamp)
  /\ streak' = 0 /\ unguarded' = (unguarded \/ held[Total] # 0)
  /\ UNCHANGED <<dipped, reported>>

\* The hub reports too low a value, but not zero, which is how a reset is reported.  Dips
\* are isolated: a correct reading follows before the next one (for the first two styles
\* a plain one).  It may come in a full device dump, with the reset time of the hub.
GlitchStamps == IF style = "announced" THEN {NoTime, resets} ELSE {NoTime}

Glitch ==
  /\ ~dipped /\ sum <= MaxUsed
  /\ \E v \in 1 .. (meter - 1) : \E stamp \in GlitchStamps : Payload(v, stamp)
  /\ dipped' = TRUE /\ streak' = 0 /\ unguarded' = (unguarded \/ stored[Total] = NoValue)
  /\ UNCHANGED reported

Next == Consume \/ Reset \/ Reading \/ Blank \/ Glitch
Spec == Init /\ [][Next]_vars

-----------------------------------------------------------------------------
(* Properties.                                                             *)

\* A dip that the next reading corrects never inflates the statistics: what HA adds up
\* never exceeds the energy used.  ENERGY_DECREASE_ACCEPT_AFTER's comment says so: "An
\* isolated glitch never gets here".  The exceptions are a dip that follows a total that is
\* no number, with which there is nothing to compare, and such a total while dips are being
\* counted, whose counter the next correct reading then does not clear.
NoInflation == unguarded \/ sum <= used

\* A reset the hub failed to timestamp does not "freeze the sensor for good": after
\* AcceptAfter correct readings in a row the entity shows the last of them, whatever totals
\* without a number came before.
NotFrozen == streak >= AcceptAfter => stored[Total] = reported
=============================================================================
