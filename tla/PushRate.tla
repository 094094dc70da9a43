------------------------------ MODULE PushRate ------------------------------
(***************************************************************************)
(* How often the push throttle lets a write through.  OneWritePerInterval  *)
(* is what _arm_trailing_flush's docstring promises and not what the code  *)
(* keeps: a flush armed for the end of a window fires although another     *)
(* push came first, two threads may pass the clock together, and two       *)
(* threads that both find the flag clear arm a flush each; from then on    *)
(* every window can end in one flush more.  What it does keep needs a      *)
(* memory of the last writes, and handlers that do not stall for the       *)
(* length of a tick.                                                       *)
(***************************************************************************)
EXTENDS PushThrottle

ASSUME SetsAssumption == IsFiniteSet(Handlers) /\ IsFiniteSet(Handles) /\ Handles # {}

VARIABLES
  recent,  \* history: the ages of the last writes, the youngest first; empty once a
           \* handler has stalled
  most     \* history: the most flushes that have been outstanding at once

rateVars == <<vars, recent, most>>

Remembered == Cardinality(Handlers) + Cardinality(Handles)
Outstanding == Cardinality({h \in Handles : flush[h] # Free})

RateTypeOK ==
  /\ TypeOK
  /\ recent \in [1 .. Remembered -> 0 .. Throttle] \cup {<<>>}
  /\ most \in 1 .. Cardinality(Handles)

LetThrough == FlushWrite \/ \E t \in Handlers : Grant(t)

\* A tick is long for a fan-out or a flush: the code runs for microseconds, the clock
\* counts seconds.  A thread still inside one has stalled.
Stalls == Tick /\ FanOutUnderway

RateInit == Init /\ recent = [n \in 1 .. Remembered |-> Throttle] /\ most = 1

RateNext ==
  /\ Next
  /\ recent' =
       IF Stalls \/ recent = <<>> THEN <<>>
       ELSE [n \in 1 .. Remembered |->
               IF LetThrough THEN IF n = 1 THEN 0 ELSE recent[n - 1]
               ELSE IF Tick THEN AtMostThrottle(recent[n] + 1) ELSE recent[n]]
  /\ most' = IF most < Outstanding' THEN Outstanding' ELSE most

RateSpec == RateInit /\ [][RateNext]_rateVars /\ Fairness

-----------------------------------------------------------------------------
\* The write rate stays bounded (issue #40): within one throttle interval each thread
\* that handles events gets at most one push through, and on top of them come at most
\* as many trailing flushes as have ever been outstanding at once (one, unless two
\* threads armed a flush together), as long as no handler stalls.
WritesCapped ==
  [][LetThrough /\ recent # <<>>
       => recent[Cardinality(Handlers) + most] = Throttle]_rateVars

\* The cap of _arm_trailing_flush's docstring, "the write rate stays capped at one write
\* per configured interval".
OneWritePerInterval ==
  [][LetThrough /\ recent # <<>> => recent[1] = Throttle]_rateVars
=============================================================================
