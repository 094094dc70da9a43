---------------------------- MODULE SensorProofs ----------------------------
(***************************************************************************)
(* Theorems about the sensors.  First, that no reading is lost by the push *)
(* throttle, for every set of threads, readings and timers and every       *)
(* throttle interval, and how many writes the throttle lets through in     *)
(* one.  Second, that Home Assistant's device registry follows the name    *)
(* and the room of an environment sensor on the hub, for every set of      *)
(* names, rooms and polling entities.                                      *)
(***************************************************************************)
EXTENDS PushRate, EnvironmentSensor, FiniteSetTheorems, TLAPS

\* Until the entity has been added nobody gets past the hass check.
NothingBeforeAttach ==
  hass = "unset" => ~pending /\ \A t \in Threads : pc[t] \in {"idle", "check"}

\* NoLostValue alone is not inductive: a thread leaves the fan-out at ArmCheck because
\* the flag is set, so the flag must stand for a flush.
IInv == TypeOK /\ NothingBeforeAttach /\ PendingMeansFlush /\ NoLostValue

LEMMA LoopIsAThread == Loop \in Threads
BY DEF Threads

LEMMA ClampsInRange ==
  /\ \A n \in Nat : AtMostThrottle(n) \in 0 .. Throttle
  /\ \A n \in 0 .. Throttle : AtLeastMinDelay(n) \in Ticks
BY TimesAssumption DEF AtMostThrottle, AtLeastMinDelay, Ticks

LEMMA WindowEnds == 0 \in 0 .. Throttle /\ Throttle \in 0 .. Throttle
BY TimesAssumption

LEMMA FreeIsAFlush == Free \in [st : {"free", "called", "timer"}, left : Ticks]
BY TimesAssumption DEF Free, Ticks

\* Every field keeps its type: clocks stay inside the window, timers inside the longest
\* delay call_later is given.
LEMMA TypeStep == TypeOK /\ [Next]_vars => TypeOK'
<1> SUFFICES ASSUME TypeOK, [Next]_vars PROVE TypeOK'
  OBVIOUS
<1> USE DEF TypeOK
<1>1. CASE Attach
  BY <1>1 DEF Attach
<1>2. CASE Abort
  BY <1>2 DEF Abort
<1>3. CASE CloseLoop
  BY <1>3 DEF CloseLoop
<1>4. CASE RunWrite
  BY <1>4 DEF RunWrite
<1>5. CASE Tick
  <2>1. elapsed' \in 0 .. Throttle
    BY <1>5, ClampsInRange, TimesAssumption DEF Tick
  <2>2. flush' \in [Handles -> [st : {"free", "called", "timer"}, left : Ticks]]
    BY <1>5, TimesAssumption DEF Tick, Ticks
  <2>3. mark' \in [Threads -> 0 .. Throttle]
    BY <1>5, ClampsInRange, TimesAssumption DEF Tick
  <2> QED
    BY <1>5, <2>1, <2>2, <2>3 DEF Tick
<1>6. CASE FlushWrite
  <2>1. pc' \in [Threads -> {"idle", "check", "grant", "arm", "set", "flush"}]
    BY <1>6 DEF FlushWrite, Goto
  <2>2. elapsed' \in 0 .. Throttle
    BY <1>6, TimesAssumption DEF FlushWrite
  <2> QED
    BY <1>6, <2>1, <2>2 DEF FlushWrite
<1>7. ASSUME NEW t \in Handlers, Event(t) PROVE TypeOK'
  BY <1>7 DEF Event, Goto
<1>8. ASSUME NEW t \in Handlers, Check(t) PROVE TypeOK'
  <2>1. mark' \in [Threads -> 0 .. Throttle]
    BY <1>8, TimesAssumption DEF Check
  <2> QED
    BY <1>8, <2>1 DEF Check, Goto
<1>9. ASSUME NEW t \in Handlers, Grant(t) PROVE TypeOK'
  <2>1. t \in Threads
    BY DEF Threads
  <2>2. elapsed' \in 0 .. Throttle /\ mark' \in [Threads -> 0 .. Throttle]
    BY <1>9, <2>1, TimesAssumption DEF Grant
  <2>3. queued' \in BOOLEAN
    BY <1>9 DEF Grant
  <2> QED
    BY <1>9, <2>2, <2>3 DEF Grant, Goto
<1>10. ASSUME NEW t \in Handlers, ArmCheck(t) PROVE TypeOK'
  <2>1. mark' \in [Threads -> 0 .. Throttle]
    BY <1>10, WindowEnds DEF ArmCheck
  <2>2. pc' \in [Threads -> {"idle", "check", "grant", "arm", "set", "flush"}]
    BY <1>10 DEF ArmCheck, Goto
  <2> QED
    BY <1>10, <2>1, <2>2 DEF ArmCheck
<1>11. ASSUME NEW t \in Handlers, ArmSet(t) PROVE TypeOK'
  <2>1. mark[t] \in 0 .. Throttle
    BY DEF Threads
  <2>2. flush' \in [Handles -> [st : {"free", "called", "timer"}, left : Ticks]]
    BY <1>11, <2>1, ClampsInRange DEF ArmSet
  <2>3. mark' \in [Threads -> 0 .. Throttle]
    BY <1>11, WindowEnds DEF ArmSet
  <2>4. pending' \in BOOLEAN
    BY <1>11 DEF ArmSet
  <2> QED
    BY <1>11, <2>2, <2>3, <2>4 DEF ArmSet, Goto
<1>12. ASSUME NEW h \in Handles, RunArm(h) PROVE TypeOK'
  BY <1>12 DEF RunArm
<1>13. ASSUME NEW h \in Handles, FlushBegin(h) PROVE TypeOK'
  BY <1>13, FreeIsAFlush DEF FlushBegin, Goto
<1>14. CASE UNCHANGED vars
  BY <1>14 DEF vars
<1> QED
  BY <1>1, <1>2, <1>3, <1>4, <1>5, <1>6, <1>7, <1>8, <1>9, <1>10, <1>11, <1>12, <1>13,
     <1>14 DEF Next, Step, FlushStep

\* The invariant of the flag and of the last reading, one action at a time.
LEMMA FlagStep == IInv /\ [Next]_vars => NothingBeforeAttach' /\ PendingMeansFlush'
<1> SUFFICES ASSUME IInv, [Next]_vars PROVE NothingBeforeAttach' /\ PendingMeansFlush'
  OBVIOUS
<1> USE DEF IInv, NothingBeforeAttach, PendingMeansFlush, FlushOutstanding, Shown
<1>1. CASE Attach
  BY <1>1 DEF Attach
<1>2. CASE Abort
  BY <1>2 DEF Abort
<1>3. CASE CloseLoop
  BY <1>3 DEF CloseLoop
<1>4. CASE RunWrite
  BY <1>4 DEF RunWrite
<1>5. CASE Tick
  BY <1>5 DEF Tick, Free, TypeOK
<1>6. CASE FlushWrite
  BY <1>6 DEF FlushWrite, Goto, TypeOK
<1>7. ASSUME NEW t \in Handlers, Event(t)
      PROVE  NothingBeforeAttach' /\ PendingMeansFlush'
  BY <1>7 DEF Event, Goto, TypeOK
<1>8. ASSUME NEW t \in Handlers, Check(t)
      PROVE  NothingBeforeAttach' /\ PendingMeansFlush'
  BY <1>8 DEF Check, Goto, TypeOK
<1>9. ASSUME NEW t \in Handlers, Grant(t)
      PROVE  NothingBeforeAttach' /\ PendingMeansFlush'
  BY <1>9 DEF Grant, Goto, TypeOK, Threads
<1>10. ASSUME NEW t \in Handlers, ArmCheck(t)
       PROVE  NothingBeforeAttach' /\ PendingMeansFlush'
  BY <1>10 DEF ArmCheck, Goto, TypeOK, Threads
<1>11. ASSUME NEW t \in Handlers, ArmSet(t)
       PROVE  NothingBeforeAttach' /\ PendingMeansFlush'
  <2>1. hass # "unset"
    BY <1>11 DEF ArmSet, Threads
  <2>2. CASE hass = "set" /\ loopOpen
    <3>1. PICK h \in Handles : flush'[h].st = "called"
      BY <1>11, <2>2 DEF ArmSet, TypeOK
    <3> QED
      BY <1>11, <2>1, <3>1 DEF ArmSet, Free
  <2>3. CASE ~(hass = "set" /\ loopOpen)
    BY <1>11, <2>1, <2>3 DEF ArmSet
  <2> QED
    BY <2>2, <2>3
<1>12. ASSUME NEW h \in Handles, RunArm(h)
       PROVE  NothingBeforeAttach' /\ PendingMeansFlush'
  BY <1>12 DEF RunArm, Free, TypeOK
<1>13. ASSUME NEW h \in Handles, FlushBegin(h)
       PROVE  NothingBeforeAttach' /\ PendingMeansFlush'
  BY <1>13, LoopIsAThread DEF FlushBegin, Goto, TypeOK
<1>14. CASE UNCHANGED vars
  BY <1>14 DEF vars
<1> QED
  BY <1>1, <1>2, <1>3, <1>4, <1>5, <1>6, <1>7, <1>8, <1>9, <1>10, <1>11, <1>12, <1>13,
     <1>14 DEF Next, Step, FlushStep

LEMMA ValueStep == IInv /\ [Next]_vars => NoLostValue'
<1> SUFFICES ASSUME IInv, [Next]_vars PROVE NoLostValue'
  OBVIOUS
<1> USE DEF IInv, NoLostValue, FlushOutstanding, FanOutUnderway, Shown
<1>1. CASE Attach
  BY <1>1 DEF Attach
<1>2. CASE Abort
  BY <1>2 DEF Abort
<1>3. CASE CloseLoop
  BY <1>3 DEF CloseLoop
<1>4. CASE RunWrite
  BY <1>4 DEF RunWrite
<1>5. CASE Tick
  BY <1>5 DEF Tick, Free, TypeOK
<1>6. CASE FlushWrite
  BY <1>6 DEF FlushWrite
<1>7. ASSUME NEW t \in Handlers, Event(t) PROVE NoLostValue'
  BY <1>7 DEF Event, Goto, TypeOK, Threads
<1>8. ASSUME NEW t \in Handlers, Check(t) PROVE NoLostValue'
  BY <1>8 DEF Check, Goto, TypeOK, Threads
<1>9. ASSUME NEW t \in Handlers, Grant(t) PROVE NoLostValue'
  BY <1>9 DEF Grant
<1>10. ASSUME NEW t \in Handlers, ArmCheck(t) PROVE NoLostValue'
  <2>1. CASE pending
    BY <1>10, <2>1 DEF ArmCheck, PendingMeansFlush
  <2>2. CASE ~pending
    BY <1>10, <2>2 DEF ArmCheck, Goto, TypeOK, Threads
  <2> QED
    BY <2>1, <2>2
<1>11. ASSUME NEW t \in Handlers, ArmSet(t) PROVE NoLostValue'
  <2>1. CASE hass = "set" /\ loopOpen
    <3>1. PICK h \in Handles : flush'[h].st = "called"
      BY <1>11, <2>1 DEF ArmSet, TypeOK
    <3> QED
      BY <3>1 DEF Free
  <2>2. CASE ~(hass = "set" /\ loopOpen)
    BY <1>11, <2>2 DEF ArmSet
  <2> QED
    BY <2>1, <2>2
<1>12. ASSUME NEW h \in Handles, RunArm(h) PROVE NoLostValue'
  BY <1>12 DEF RunArm, Free, TypeOK
<1>13. ASSUME NEW h \in Handles, FlushBegin(h) PROVE NoLostValue'
  BY <1>13, LoopIsAThread DEF FlushBegin, Goto, TypeOK
<1>14. CASE UNCHANGED vars
  BY <1>14 DEF vars
<1> QED
  BY <1>1, <1>2, <1>3, <1>4, <1>5, <1>6, <1>7, <1>8, <1>9, <1>10, <1>11, <1>12, <1>13,
     <1>14 DEF Next, Step, FlushStep

LEMMA InvHolds == Spec => []IInv
<1>1. Init => IInv
  <2>1. Init => TypeOK
    BY WindowEnds, FreeIsAFlush DEF Init, TypeOK
  <2>2. Init => NothingBeforeAttach /\ PendingMeansFlush /\ NoLostValue
    BY DEF Init, NothingBeforeAttach, PendingMeansFlush, NoLostValue, Shown
  <2> QED
    BY <2>1, <2>2 DEF IInv
<1>2. IInv /\ [Next]_vars => IInv'
  BY TypeStep, FlagStep, ValueStep DEF IInv
<1> QED
  BY <1>1, <1>2, PTL DEF Spec

\* Type correctness of the throttle's fields.
THEOREM TypeCorrect == Spec => []TypeOK
<1>1. IInv => TypeOK
  BY DEF IInv
<1> QED
  BY <1>1, InvHolds, PTL

\* A set flag always stands for a requested or running flush.
THEOREM FlagStandsForFlush == Spec => []PendingMeansFlush
<1>1. IInv => PendingMeansFlush
  BY DEF IInv
<1> QED
  BY <1>1, InvHolds, PTL

\* The last reading before a quiet period is always still on its way to HA.
THEOREM NothingIsLost == Spec => []NoLostValue
<1>1. IInv => NoLostValue
  BY DEF IInv
<1> QED
  BY <1>1, InvHolds, PTL

\* A thread of the event loop inside a callback keeps the loop open, and a flush past its
\* hass check keeps the entity: giving up an add and the shutdown are callbacks as well.
LoopBusy ==
  /\ pc[Loop] # "idle" => loopOpen
  /\ pc[Loop] = "flush" => hass = "set"

LEMMA LoopBusyStep == TypeOK /\ LoopBusy /\ [Next]_vars => LoopBusy'
<1> SUFFICES ASSUME TypeOK, LoopBusy, [Next]_vars PROVE LoopBusy'
  OBVIOUS
<1> USE LoopIsAThread DEF TypeOK, LoopBusy, LoopIdle
<1>1. CASE Attach \/ Abort \/ CloseLoop \/ RunWrite \/ Tick
  BY <1>1 DEF Attach, Abort, CloseLoop, RunWrite, Tick
<1>2. CASE FlushWrite
  BY <1>2 DEF FlushWrite, Goto
<1>3. ASSUME NEW t \in Handlers, Event(t) \/ Step(t) PROVE LoopBusy'
  <2>1. CASE Event(t)
    BY <2>1 DEF Event, Goto
  <2>2. CASE Check(t)
    BY <2>2 DEF Check, Goto, Threads
  <2>3. CASE Grant(t)
    BY <2>3 DEF Grant, Goto, Threads
  <2>4. CASE ArmCheck(t)
    BY <2>4 DEF ArmCheck, Goto, Threads
  <2>5. CASE ArmSet(t)
    BY <2>5 DEF ArmSet, Goto, Threads
  <2> QED
    BY <1>3, <2>1, <2>2, <2>3, <2>4, <2>5 DEF Step
<1>4. ASSUME NEW h \in Handles, FlushStep(h) PROVE LoopBusy'
  BY <1>4 DEF FlushStep, RunArm, FlushBegin, Goto
<1>5. CASE UNCHANGED vars
  BY <1>5 DEF vars
<1> QED
  BY <1>1, <1>2, <1>3, <1>4, <1>5 DEF Next

\* Each step of the throttle is a step of the write-behind cache, or none.
LEMMA StepSimulation == TypeOK /\ LoopBusy /\ [Next]_vars => [Promise!Next]_(Promise!vars)
<1> SUFFICES ASSUME TypeOK, LoopBusy, [Next]_vars PROVE [Promise!Next]_(Promise!vars)
  OBVIOUS
<1> USE DEF Promise!Next, Promise!vars, LoopBusy, LoopIdle
<1>1. CASE Attach
  BY <1>1 DEF Attach, Promise!Open
<1>2. CASE Abort
  BY <1>2 DEF Abort, Promise!GiveUp
<1>3. CASE CloseLoop
  BY <1>3 DEF CloseLoop, Promise!Stop
<1>4. CASE RunWrite
  BY <1>4 DEF RunWrite, Promise!Show
<1>5. CASE Tick
  BY <1>5 DEF Tick
<1>6. CASE FlushWrite
  BY <1>6 DEF FlushWrite, Promise!Show
<1>7. ASSUME NEW t \in Handlers, Event(t) PROVE Promise!Put
  BY <1>7 DEF Event, Promise!Put
<1>8. ASSUME NEW t \in Handlers, Grant(t) PROVE [Promise!Next]_(Promise!vars)
  BY <1>8 DEF Grant, Promise!Show
<1>9. ASSUME NEW t \in Handlers, Check(t) \/ ArmCheck(t) \/ ArmSet(t)
      PROVE  UNCHANGED Promise!vars
  BY <1>9 DEF Check, ArmCheck, ArmSet
<1>10. ASSUME NEW h \in Handles, FlushStep(h) PROVE UNCHANGED Promise!vars
  BY <1>10 DEF FlushStep, RunArm, FlushBegin
<1>11. CASE UNCHANGED vars
  BY <1>11 DEF vars
<1> QED
  BY <1>1, <1>2, <1>3, <1>4, <1>5, <1>6, <1>7, <1>8, <1>9, <1>10, <1>11 DEF Next, Step

\* The throttle implements the write-behind cache: what it lets through always shows the
\* reading of that moment, and never after the entity is given up or the loop is closed.
THEOREM ImplementsWriteBehind == Spec => KeepsPromiseSafely
<1>1. Init => Promise!Init
  BY DEF Init, Promise!Init
<1>2. Init => LoopBusy
  BY LoopIsAThread DEF Init, LoopBusy
<1>3. IInv => TypeOK
  BY DEF IInv
<1> QED
  BY <1>1, <1>2, <1>3, InvHolds, LoopBusyStep, StepSimulation, PTL
     DEF Spec, KeepsPromiseSafely, Promise!SafeSpec

-----------------------------------------------------------------------------
(* The rate of the writes, as PushRate remembers it.                       *)

\* Who may still write before a write of age a leaves the window: a thread about to, one
\* about to arm a flush that ends before, and such a flush.
Writers(at, m, a) ==
  {t \in Handlers : \/ at[t] \in {"grant", "flush"}
                    \/ at[t] \in {"arm", "set"} /\ AtLeastMinDelay(m[t]) < Throttle - a}
Due(f, a) == {h \in Handles : f[h] # Free /\ f[h].left < Throttle - a}
ToCome(at, m, f, a) == Cardinality(Writers(at, m, a)) + Cardinality(Due(f, a))

\* Each write in the window, with those after it and those that may still come, counts a
\* thread or one of the flushes that were outstanding.  Whoever has passed the clock did so
\* at the present tick, and the window was stamped by the last write.
WindowFits ==
  recent # <<>> =>
    /\ \A t \in Handlers : pc[t] = "grant" => mark[t] = 0
    /\ \A n \in 1 .. Remembered : elapsed <= recent[n]
    /\ \A n \in 1 .. Remembered : recent[n] < Throttle =>
         n + ToCome(pc, mark, flush, recent[n]) <= Cardinality(Handlers) + most

RateInv == RateTypeOK /\ Outstanding <= most /\ WindowFits

\* The sets are finite, and no more threads than there are can write.
LEMMA Sizes ==
  /\ Cardinality(Handlers) \in Nat /\ Cardinality(Handles) \in Nat \ {0}
  /\ Remembered \in Nat
  /\ \A at, m, a : /\ IsFiniteSet(Writers(at, m, a)) /\ Cardinality(Writers(at, m, a)) \in Nat
                   /\ Cardinality(Writers(at, m, a)) <= Cardinality(Handlers)
  /\ \A f, a : IsFiniteSet(Due(f, a)) /\ Cardinality(Due(f, a)) \in Nat
<1>1. Cardinality(Handlers) \in Nat /\ Cardinality(Handles) \in Nat
  BY SetsAssumption, FS_CardinalityType
<1>2. Cardinality(Handles) # 0
  BY SetsAssumption, FS_EmptySet
<1>3. ASSUME NEW at, NEW m, NEW a
      PROVE  /\ IsFiniteSet(Writers(at, m, a)) /\ Cardinality(Writers(at, m, a)) \in Nat
             /\ Cardinality(Writers(at, m, a)) <= Cardinality(Handlers)
  <2>1. Writers(at, m, a) \in SUBSET Handlers
    BY DEF Writers
  <2> QED
    BY <2>1, SetsAssumption, FS_Subset, FS_CardinalityType
<1>4. ASSUME NEW f, NEW a
      PROVE  IsFiniteSet(Due(f, a)) /\ Cardinality(Due(f, a)) \in Nat
  <2>1. Due(f, a) \in SUBSET Handles
    BY DEF Due
  <2> QED
    BY <2>1, SetsAssumption, FS_Subset, FS_CardinalityType
<1> QED
  BY <1>1, <1>2, <1>3, <1>4 DEF Remembered

\* Flushes outstanding are some of the handles, before and after a step.
LEMMA OutstandingFits ==
  /\ Outstanding \in Nat /\ Outstanding <= Cardinality(Handles)
  /\ Outstanding' \in Nat /\ Outstanding' <= Cardinality(Handles)
<1>1. \A f : {h \in Handles : f[h] # Free} \in SUBSET Handles
  OBVIOUS
<1>2. \A f : /\ Cardinality({h \in Handles : f[h] # Free}) \in Nat
             /\ Cardinality({h \in Handles : f[h] # Free}) <= Cardinality(Handles)
  BY <1>1, SetsAssumption, FS_Subset, FS_CardinalityType
<1> QED
  BY <1>2 DEF Outstanding, Free

\* Sets that shrink, or lose an element, bring fewer writes.
LEMMA FewerWriters ==
  ASSUME NEW at, NEW m, NEW at2, NEW m2, NEW a, NEW b,
         Writers(at2, m2, b) \subseteq Writers(at, m, a)
  PROVE  /\ Cardinality(Writers(at2, m2, b)) <= Cardinality(Writers(at, m, a))
         /\ \A t \in Writers(at, m, a) \ Writers(at2, m2, b) :
              Cardinality(Writers(at2, m2, b)) <= Cardinality(Writers(at, m, a)) - 1
<1>1. Cardinality(Writers(at2, m2, b)) <= Cardinality(Writers(at, m, a))
  BY Sizes, FS_Subset
<1>2. ASSUME NEW t \in Writers(at, m, a) \ Writers(at2, m2, b)
      PROVE  Cardinality(Writers(at2, m2, b)) <= Cardinality(Writers(at, m, a)) - 1
  <2>1. Writers(at, m, a) # Writers(at2, m2, b)
    BY <1>2
  <2>2. Cardinality(Writers(at2, m2, b)) # Cardinality(Writers(at, m, a))
    BY <2>1, Sizes, FS_Subset
  <2> QED
    BY <1>1, <2>2, Sizes
<1> QED
  BY <1>1, <1>2

LEMMA FewerDue ==
  ASSUME NEW f, NEW g, NEW a, NEW b, Due(g, b) \subseteq Due(f, a)
  PROVE  /\ Cardinality(Due(g, b)) <= Cardinality(Due(f, a))
         /\ \A h \in Due(f, a) \ Due(g, b) :
              Cardinality(Due(g, b)) <= Cardinality(Due(f, a)) - 1
<1>1. Cardinality(Due(g, b)) <= Cardinality(Due(f, a))
  BY Sizes, FS_Subset
<1>2. ASSUME NEW h \in Due(f, a) \ Due(g, b)
      PROVE  Cardinality(Due(g, b)) <= Cardinality(Due(f, a)) - 1
  <2>1. Due(f, a) # Due(g, b)
    BY <1>2
  <2>2. Cardinality(Due(g, b)) # Cardinality(Due(f, a))
    BY <2>1, Sizes, FS_Subset
  <2> QED
    BY <1>1, <2>2, Sizes
<1> QED
  BY <1>1, <1>2

LEMMA OneWriterMore ==
  ASSUME NEW at, NEW m, NEW at2, NEW m2, NEW a, NEW t,
         Writers(at2, m2, a) \subseteq Writers(at, m, a) \cup {t}
  PROVE  Cardinality(Writers(at2, m2, a)) <= Cardinality(Writers(at, m, a)) + 1
<1>1. /\ IsFiniteSet(Writers(at, m, a) \cup {t})
      /\ Cardinality(Writers(at, m, a) \cup {t}) <= Cardinality(Writers(at, m, a)) + 1
  BY Sizes, FS_AddElement
<1>2. /\ Cardinality(Writers(at2, m2, a)) <= Cardinality(Writers(at, m, a) \cup {t})
      /\ Cardinality(Writers(at, m, a) \cup {t}) \in Nat
  BY <1>1, FS_Subset, FS_CardinalityType
<1> QED
  BY <1>1, <1>2, Sizes

LEMMA OneDueMore ==
  ASSUME NEW f, NEW g, NEW a, NEW h, Due(g, a) \subseteq Due(f, a) \cup {h}
  PROVE  Cardinality(Due(g, a)) <= Cardinality(Due(f, a)) + 1
<1>1. /\ IsFiniteSet(Due(f, a) \cup {h})
      /\ Cardinality(Due(f, a) \cup {h}) <= Cardinality(Due(f, a)) + 1
  BY Sizes, FS_AddElement
<1>2. /\ Cardinality(Due(g, a)) <= Cardinality(Due(f, a) \cup {h})
      /\ Cardinality(Due(f, a) \cup {h}) \in Nat
  BY <1>1, FS_Subset, FS_CardinalityType
<1> QED
  BY <1>1, <1>2, Sizes

\* A step of a thread, of the loop or of Home Assistant brings no more writes into a window
\* that the last write stamped; a thread that finds the window closed arms for its end.
LEMMA NoMoreToCome ==
  ASSUME Loop \in Handlers, TypeOK, NEW a \in 0 .. Throttle, a < Throttle, elapsed <= a,
         \/ Attach \/ Abort \/ CloseLoop \/ RunWrite \/ UNCHANGED vars
         \/ \E t \in Handlers : Event(t) \/ Check(t) \/ ArmCheck(t) \/ ArmSet(t)
         \/ \E h \in Handles : FlushStep(h)
  PROVE  ToCome(pc', mark', flush', a) <= ToCome(pc, mark, flush, a)
<1> DEFINE W == Writers(pc, mark, a)
           V == Writers(pc', mark', a)
           D == Due(flush, a)
           E == Due(flush', a)
<1>0. Cardinality(W) \in Nat /\ Cardinality(V) \in Nat /\ Cardinality(D) \in Nat
      /\ Cardinality(E) \in Nat
  BY Sizes
<1>t. Throttle \in Nat /\ MinDelay \in Nat /\ a \in Nat /\ Handlers \subseteq Threads
  BY TimesAssumption DEF Threads
<1>s. SUFFICES \/ V \subseteq W /\ E \subseteq D
               \/ \E t \in W \ V : \E h : V \subseteq W /\ E \subseteq D \cup {h}
               \/ \E h \in D \ E : \E t : E \subseteq D /\ V \subseteq W \cup {t}
  <2>1. CASE V \subseteq W /\ E \subseteq D
    BY <2>1, <1>0, FewerWriters, FewerDue DEF ToCome
  <2>2. ASSUME NEW t \in W \ V, NEW h, V \subseteq W, E \subseteq D \cup {h}
        PROVE  Cardinality(V) + Cardinality(E) <= Cardinality(W) + Cardinality(D)
    <3>1. Cardinality(V) <= Cardinality(W) - 1
      BY <2>2, FewerWriters
    <3>2. Cardinality(E) <= Cardinality(D) + 1
      BY <2>2, OneDueMore
    <3> HIDE DEF W, V, D, E
    <3> QED
      BY <1>0, <3>1, <3>2
  <2>3. ASSUME NEW h \in D \ E, NEW t, E \subseteq D, V \subseteq W \cup {t}
        PROVE  Cardinality(V) + Cardinality(E) <= Cardinality(W) + Cardinality(D)
    <3>1. Cardinality(E) <= Cardinality(D) - 1
      BY <2>3, FewerDue
    <3>2. Cardinality(V) <= Cardinality(W) + 1
      BY <2>3, OneWriterMore
    <3> HIDE DEF W, V, D, E
    <3> QED
      BY <1>0, <3>1, <3>2
  <2> QED
    BY <1>s, <2>1, <2>2, <2>3 DEF ToCome
<1>1. CASE Attach \/ Abort \/ CloseLoop \/ RunWrite \/ UNCHANGED vars
  BY <1>1 DEF Attach, Abort, CloseLoop, RunWrite, vars
<1>2. ASSUME NEW t \in Handlers, Event(t) PROVE V \subseteq W /\ E \subseteq D
  BY <1>2, <1>t DEF Event, Goto, TypeOK, Writers
<1>3. ASSUME NEW t \in Handlers, Check(t) PROVE V \subseteq W /\ E \subseteq D
  <2>1. /\ flush' = flush /\ pc[t] = "check"
        /\ \A u \in Handlers \ {t} : pc'[u] = pc[u] /\ mark'[u] = mark[u]
    BY <1>3, <1>t DEF Check, Goto, TypeOK
  <2>2. pc'[t] = "idle" \/ (pc'[t] = "arm" /\ mark'[t] = Throttle - elapsed)
    BY <1>3, <1>t DEF Check, Goto, TypeOK
  <2>3. pc'[t] = "arm" => ~(AtLeastMinDelay(mark'[t]) < Throttle - a)
    <3>1. elapsed \in Nat
      BY <1>t DEF TypeOK
    <3> QED
      BY <1>t, <2>2, <3>1 DEF AtLeastMinDelay
  <2>4. t \notin V
    BY <2>2, <2>3 DEF Writers
  <2> QED
    BY <2>1, <2>4 DEF Writers
<1>4. ASSUME NEW t \in Handlers, ArmCheck(t) PROVE V \subseteq W /\ E \subseteq D
  <2>1. /\ flush' = flush /\ pc[t] = "arm"
        /\ \A u \in Handlers \ {t} : pc'[u] = pc[u] /\ mark'[u] = mark[u]
    BY <1>4, <1>t DEF ArmCheck, Goto, TypeOK
  <2>2. pc'[t] = "idle" \/ (pc'[t] = "set" /\ mark'[t] = mark[t])
    BY <1>4, <1>t DEF ArmCheck, Goto, TypeOK
  <2> QED
    BY <2>1, <2>2 DEF Writers
<1>5. ASSUME NEW t \in Handlers, ArmSet(t)
      PROVE  \/ V \subseteq W /\ E \subseteq D
             \/ \E u \in W \ V : \E h : V \subseteq W /\ E \subseteq D \cup {h}
  <2>1. /\ pc[t] = "set" /\ pc'[t] = "idle"
        /\ \A u \in Handlers \ {t} : pc'[u] = pc[u] /\ mark'[u] = mark[u]
    BY <1>5, <1>t DEF ArmSet, Goto, TypeOK
  <2>2. V \subseteq W /\ t \notin V
    BY <2>1 DEF Writers
  <2>3. CASE UNCHANGED flush
    BY <2>2, <2>3
  <2>4. ASSUME NEW h \in Handles,
               flush' = [flush EXCEPT ![h] =
                           [st |-> "called", left |-> AtLeastMinDelay(mark[t])]]
        PROVE  \/ V \subseteq W /\ E \subseteq D
               \/ \E u \in W \ V : \E x : V \subseteq W /\ E \subseteq D \cup {x}
    <3>1. E \subseteq D \cup {h} /\ flush'[h].left = AtLeastMinDelay(mark[t])
      BY <2>4 DEF TypeOK, Due
    <3>2. CASE h \in E
      <4>1. AtLeastMinDelay(mark[t]) < Throttle - a
        BY <3>1, <3>2 DEF Due
      <4>2. t \in W
        BY <2>1, <4>1 DEF Writers
      <4> QED
        BY <2>2, <3>1, <4>2
    <3>3. CASE h \notin E
      BY <2>2, <3>1, <3>3
    <3> QED
      BY <3>2, <3>3
  <2> QED
    BY <1>5, <2>3, <2>4 DEF ArmSet
<1>6. ASSUME NEW h \in Handles, RunArm(h) PROVE V \subseteq W /\ E \subseteq D
  <2>1. /\ pc' = pc /\ mark' = mark /\ flush[h] # Free /\ flush'[h].left = flush[h].left
        /\ \A g \in Handles \ {h} : flush'[g] = flush[g]
    BY <1>6 DEF RunArm, TypeOK, Free
  <2> QED
    BY <2>1 DEF Due
<1>7. ASSUME NEW h \in Handles, FlushBegin(h)
      PROVE  \E g \in D \ E : \E t : E \subseteq D /\ V \subseteq W \cup {t}
  <2>1. /\ flush[h].st = "timer" /\ flush[h].left = 0 /\ flush'[h] = Free
        /\ \A g \in Handles \ {h} : flush'[g] = flush[g]
    BY <1>7 DEF FlushBegin, TypeOK
  <2>2. h \in D /\ h \notin E /\ E \subseteq D
    BY <1>t, <2>1 DEF Due, Free
  <2>3. mark' = mark /\ \A t \in Handlers \ {Loop} : pc'[t] = pc[t]
    BY <1>7, <1>t DEF FlushBegin, Goto, TypeOK
  <2>4. V \subseteq W \cup {Loop}
    BY <2>3 DEF Writers
  <2> QED
    BY <2>2, <2>4
<1> HIDE DEF W, V, D, E
<1> QED
  BY <1>1, <1>2, <1>3, <1>4, <1>5, <1>6, <1>7 DEF FlushStep

\* Who writes is then no longer among those who may.
LEMMA WriterIsDone ==
  ASSUME Loop \in Handlers, TypeOK, LetThrough
  PROVE  /\ \A a : ToCome(pc', mark', flush', a) + 1 <= ToCome(pc, mark, flush, a)
         /\ \A a : Cardinality(Writers(pc', mark', a)) + 1 <= Cardinality(Handlers)
         /\ flush' = flush
<1>1. PICK t \in Handlers :
        /\ pc[t] \in {"grant", "flush"} /\ pc'[t] = "idle" /\ flush' = flush
        /\ \A u \in Handlers \ {t} : pc'[u] = pc[u] /\ mark'[u] = mark[u]
  <2>1. CASE FlushWrite
    BY <2>1 DEF FlushWrite, Goto, TypeOK, Threads
  <2>2. ASSUME NEW t \in Handlers, Grant(t)
        PROVE  /\ pc[t] \in {"grant", "flush"} /\ pc'[t] = "idle" /\ flush' = flush
               /\ \A u \in Handlers \ {t} : pc'[u] = pc[u] /\ mark'[u] = mark[u]
    BY <2>2 DEF Grant, Goto, TypeOK, Threads
  <2> QED
    BY <2>1, <2>2 DEF LetThrough
<1>2. ASSUME NEW a
      PROVE  Cardinality(Writers(pc', mark', a)) <= Cardinality(Writers(pc, mark, a)) - 1
  <2>1. /\ Writers(pc', mark', a) \subseteq Writers(pc, mark, a)
        /\ t \in Writers(pc, mark, a) \ Writers(pc', mark', a)
    BY <1>1 DEF Writers
  <2> QED
    BY <2>1, FewerWriters
<1>3. \A a : ToCome(pc', mark', flush', a) + 1 <= ToCome(pc, mark, flush, a)
  BY <1>1, <1>2, Sizes DEF ToCome
<1>4. \A a : Cardinality(Writers(pc', mark', a)) + 1 <= Cardinality(Handlers)
  BY <1>2, Sizes
<1> QED
  BY <1>1, <1>3, <1>4

\* A tick finds nobody inside a fan-out, unless one has stalled, and a flush has one tick
\* less to go, as the window has.
LEMMA TickToCome ==
  ASSUME TypeOK, Tick, ~FanOutUnderway, NEW a \in 0 .. Throttle
  PROVE  ToCome(pc', mark', flush', a + 1) <= ToCome(pc, mark, flush, a)
<1>1. Writers(pc', mark', a + 1) \subseteq Writers(pc, mark, a)
  BY DEF Tick, FanOutUnderway, Threads, Writers
<1>2. Due(flush', a + 1) \subseteq Due(flush, a)
  <2> SUFFICES ASSUME NEW h \in Handles, flush'[h] # Free, flush'[h].left < Throttle - (a + 1)
               PROVE  flush[h] # Free /\ flush[h].left < Throttle - a
    BY DEF Due
  <2>1. flush[h].left \in Nat /\ Throttle \in Nat /\ a \in Nat
    BY TimesAssumption DEF TypeOK, Ticks
  <2>2. CASE flush[h].st = "timer" /\ flush[h].left > 0
    <3>1. flush'[h].left = flush[h].left - 1 /\ flush[h] # Free
      BY <2>1, <2>2 DEF Tick, Free, TypeOK
    <3> QED
      BY <2>1, <3>1
  <2>3. CASE ~(flush[h].st = "timer" /\ flush[h].left > 0)
    <3>1. flush'[h] = flush[h]
      BY <2>3 DEF Tick, TypeOK
    <3> QED
      BY <2>1, <3>1
  <2> QED
    BY <2>2, <2>3
<1>3. /\ Cardinality(Writers(pc', mark', a + 1)) <= Cardinality(Writers(pc, mark, a))
      /\ Cardinality(Due(flush', a + 1)) <= Cardinality(Due(flush, a))
  BY <1>1, <1>2, FewerWriters, FewerDue
<1> QED
  BY <1>3, Sizes DEF ToCome

\* At any time no more flushes are due than are outstanding.
LEMMA DueIsOutstanding ==
  ASSUME NEW a
  PROVE  /\ Cardinality(Due(flush, a)) <= Outstanding
         /\ Cardinality(Due(flush', a)) <= Outstanding'
<1>1. ASSUME NEW f
      PROVE  Cardinality(Due(f, a)) <= Cardinality({h \in Handles : f[h] # Free})
  <2>1. {h \in Handles : f[h] # Free} \in SUBSET Handles
    OBVIOUS
  <2>2. IsFiniteSet({h \in Handles : f[h] # Free})
    BY <2>1, SetsAssumption, FS_Subset
  <2>3. Due(f, a) \in SUBSET {h \in Handles : f[h] # Free}
    BY DEF Due
  <2> QED
    BY <2>2, <2>3, FS_Subset
<1> QED
  BY <1>1 DEF Outstanding, Free

\* The memory keeps its type.
LEMMA RateTypeStep ==
  ASSUME RateTypeOK, Outstanding <= most, [RateNext]_rateVars
  PROVE  RateTypeOK' /\ Outstanding' <= most' /\ most <= most'
<1>1. TypeOK'
  BY TypeStep DEF RateTypeOK, RateNext, rateVars
<1>2. most \in Nat /\ 1 <= most /\ most <= Cardinality(Handles)
  BY Sizes DEF RateTypeOK
<1>3. CASE RateNext
  <2>1. /\ most' \in 1 .. Cardinality(Handles)
        /\ Outstanding' <= most' /\ most <= most'
    BY <1>2, <1>3, OutstandingFits, Sizes DEF RateNext
  <2>2. recent' \in [1 .. Remembered -> 0 .. Throttle] \cup {<<>>}
    <3>1. CASE Stalls \/ recent = <<>>
      BY <1>3, <3>1 DEF RateNext
    <3>2. CASE ~(Stalls \/ recent = <<>>)
      <4>1. recent \in [1 .. Remembered -> 0 .. Throttle]
        BY <3>2 DEF RateTypeOK
      <4>2. /\ \A n \in 1 .. Remembered : n # 1 => n - 1 \in 1 .. Remembered
            /\ \A n \in 1 .. Remembered : AtMostThrottle(recent[n] + 1) \in 0 .. Throttle
            /\ 0 \in 0 .. Throttle
        <5>1. \A n \in 1 .. Remembered : n # 1 => n - 1 \in 1 .. Remembered
          BY Sizes
        <5>2. \A n \in 1 .. Remembered : AtMostThrottle(recent[n] + 1) \in 0 .. Throttle
          <6>1. \A n \in 1 .. Remembered : recent[n] \in 0 .. Throttle
            BY <4>1
          <6> QED
            BY <6>1, TimesAssumption DEF AtMostThrottle
        <5> QED
          BY <5>1, <5>2, TimesAssumption
      <4>3. \A n \in 1 .. Remembered :
              (IF LetThrough THEN IF n = 1 THEN 0 ELSE recent[n - 1]
               ELSE IF Tick THEN AtMostThrottle(recent[n] + 1) ELSE recent[n])
                \in 0 .. Throttle
        BY <4>1, <4>2
      <4> QED
        BY <1>3, <3>2, <4>3 DEF RateNext
    <3> QED
      BY <3>1, <3>2
  <2> QED
    BY <1>1, <2>1, <2>2 DEF RateTypeOK
<1>4. CASE UNCHANGED rateVars
  <2>1. UNCHANGED <<flush, recent, most>>
    BY <1>4 DEF rateVars, vars
  <2>2. Outstanding' = Outstanding
    BY <2>1 DEF Outstanding
  <2> QED
    BY <1>1, <1>2, <2>1, <2>2 DEF RateTypeOK
<1> QED
  BY <1>3, <1>4

\* The window, for a write, a tick and any other step.
LEMMA WindowStep ==
  ASSUME Loop \in Handlers, RateInv, RateNext PROVE WindowFits'
<1> SUFFICES ASSUME recent' # <<>>
             PROVE  /\ \A t \in Handlers : pc'[t] = "grant" => mark'[t] = 0
                    /\ \A n \in 1 .. Remembered : elapsed' <= recent'[n]
                    /\ \A n \in 1 .. Remembered : recent'[n] < Throttle =>
                         n + ToCome(pc', mark', flush', recent'[n])
                           <= Cardinality(Handlers) + most'
  BY DEF WindowFits, ToCome, Writers, Due, Remembered, Free
<1>1. ~Stalls /\ recent # <<>>
  BY DEF RateNext
<1>2. /\ recent' = [n \in 1 .. Remembered |->
                      IF LetThrough THEN IF n = 1 THEN 0 ELSE recent[n - 1]
                      ELSE IF Tick THEN AtMostThrottle(recent[n] + 1) ELSE recent[n]]
      /\ recent \in [1 .. Remembered -> 0 .. Throttle]
  BY <1>1 DEF RateNext, RateInv, RateTypeOK
<1>3. /\ \A t \in Handlers : pc[t] = "grant" => mark[t] = 0
      /\ \A n \in 1 .. Remembered : elapsed <= recent[n]
      /\ \A n \in 1 .. Remembered : recent[n] < Throttle =>
           n + ToCome(pc, mark, flush, recent[n]) <= Cardinality(Handlers) + most
  BY <1>1 DEF RateInv, WindowFits
<1>4. /\ most \in Nat /\ most' \in Nat /\ most <= most' /\ Outstanding <= most
      /\ TypeOK /\ Next
  BY RateTypeStep, Sizes DEF RateInv, RateTypeOK, RateNext
<1>5. /\ \A at, m, f, a : ToCome(at, m, f, a) \in Nat
      /\ Cardinality(Handlers) \in Nat /\ Remembered \in Nat /\ Throttle \in Nat
  BY Sizes, TimesAssumption DEF ToCome
<1>6. CASE LetThrough
  <2>1. /\ \A n \in 1 .. Remembered : recent'[n] = IF n = 1 THEN 0 ELSE recent[n - 1]
        /\ \A n \in 1 .. Remembered : n # 1 => n - 1 \in 1 .. Remembered
    BY <1>2, <1>5, <1>6
  <2>2. /\ \A a : ToCome(pc', mark', flush', a) + 1 <= ToCome(pc, mark, flush, a)
        /\ \A a : Cardinality(Writers(pc', mark', a)) + 1 <= Cardinality(Handlers)
        /\ flush' = flush
    BY <1>4, <1>6, WriterIsDone
  <2>3. /\ elapsed' = 0
        /\ \A t \in Handlers : pc'[t] = "grant" => mark'[t] = 0
    <3>1. CASE FlushWrite
      BY <1>3, <1>4, <3>1 DEF FlushWrite, Goto, TypeOK
    <3>2. ASSUME NEW t \in Handlers, Grant(t)
          PROVE  /\ elapsed' = 0
                 /\ \A u \in Handlers : pc'[u] = "grant" => mark'[u] = 0
      BY <1>3, <1>4, <3>2 DEF Grant, Goto, TypeOK, Threads
    <3> QED
      BY <1>6, <3>1, <3>2 DEF LetThrough
  <2>4. \A n \in 1 .. Remembered : elapsed' <= recent'[n]
    BY <1>2, <1>5, <2>1, <2>3
  <2>5. ASSUME NEW n \in 1 .. Remembered, recent'[n] < Throttle
        PROVE  n + ToCome(pc', mark', flush', recent'[n]) <= Cardinality(Handlers) + most'
    <3>1. CASE n = 1
      <4>1. /\ Cardinality(Writers(pc', mark', 0)) + 1 <= Cardinality(Handlers)
            /\ Cardinality(Due(flush, 0)) <= most
        BY <1>4, <2>2, DueIsOutstanding, OutstandingFits, Sizes
      <4>2. recent'[n] = 0
        BY <2>1, <3>1
      <4> QED
        <5>1. Cardinality(Due(flush', 0)) = Cardinality(Due(flush, 0))
          BY <2>2
        <5>2. /\ Cardinality(Writers(pc', mark', 0)) \in Nat
              /\ Cardinality(Due(flush', 0)) \in Nat
          BY Sizes
        <5>3. ToCome(pc', mark', flush', 0) + 1 <= Cardinality(Handlers) + most'
          BY <1>4, <1>5, <4>1, <5>1, <5>2 DEF ToCome
        <5> QED
          BY <1>5, <3>1, <4>2, <5>3
    <3>2. CASE n # 1
      <4>1. recent'[n] = recent[n - 1] /\ n - 1 \in 1 .. Remembered
        BY <2>1, <3>2
      <4>2. n - 1 + ToCome(pc, mark, flush, recent[n - 1]) <= Cardinality(Handlers) + most
        BY <1>3, <2>5, <4>1
      <4>3. ToCome(pc', mark', flush', recent'[n]) + 1
              <= ToCome(pc, mark, flush, recent[n - 1])
        BY <2>2, <4>1
      <4>4. \A i \in Int, before, after \in Nat :
              i - 1 + before <= Cardinality(Handlers) + most /\ after + 1 <= before
                => i + after <= Cardinality(Handlers) + most'
        BY <1>4, <1>5
      <4>5. /\ n \in Int
            /\ ToCome(pc, mark, flush, recent[n - 1]) \in Nat
            /\ ToCome(pc', mark', flush', recent'[n]) \in Nat
        BY <1>5
      <4> QED
        BY <4>2, <4>3, <4>4, <4>5
    <3> QED
      BY <3>1, <3>2
  <2> QED
    BY <2>3, <2>4, <2>5
<1>7. CASE Tick /\ ~LetThrough
  <2>1. ~FanOutUnderway
    BY <1>1, <1>7 DEF Stalls
  <2>2. \A t \in Handlers : pc'[t] = "idle"
    BY <1>7, <2>1 DEF Tick, FanOutUnderway, Threads
  <2>3. \A n \in 1 .. Remembered : recent'[n] = AtMostThrottle(recent[n] + 1)
    BY <1>2, <1>7
  <2>4. elapsed \in Nat /\ elapsed' = AtMostThrottle(elapsed + 1)
    BY <1>4, <1>5, <1>7 DEF Tick, TypeOK
  <2>5. \A n \in 1 .. Remembered : elapsed' <= recent'[n]
    BY <1>2, <1>3, <1>5, <2>3, <2>4 DEF AtMostThrottle
  <2>6. ASSUME NEW n \in 1 .. Remembered, recent'[n] < Throttle
        PROVE  n + ToCome(pc', mark', flush', recent'[n]) <= Cardinality(Handlers) + most'
    <3>1. recent'[n] = recent[n] + 1 /\ recent[n] < Throttle /\ recent[n] \in 0 .. Throttle
      BY <1>2, <1>5, <2>3, <2>6 DEF AtMostThrottle
    <3>2. ToCome(pc', mark', flush', recent[n] + 1) <= ToCome(pc, mark, flush, recent[n])
      BY <1>4, <1>7, <2>1, <3>1, TickToCome
    <3>3. n + ToCome(pc, mark, flush, recent[n]) <= Cardinality(Handlers) + most
      BY <1>3, <3>1
    <3> QED
      BY <1>4, <1>5, <3>1, <3>2, <3>3
  <2> QED
    BY <2>2, <2>5, <2>6
<1>8. CASE ~Tick /\ ~LetThrough
  <2>1. \/ Attach \/ Abort \/ CloseLoop \/ RunWrite
        \/ \E t \in Handlers : Event(t) \/ Check(t) \/ ArmCheck(t) \/ ArmSet(t)
        \/ \E h \in Handles : FlushStep(h)
    BY <1>4, <1>8 DEF Next, Step, LetThrough
  <2>2. \A n \in 1 .. Remembered : recent'[n] = recent[n] /\ recent[n] \in 0 .. Throttle
    BY <1>2, <1>8
  <2>3. elapsed' = elapsed
    BY <2>1 DEF Attach, Abort, CloseLoop, RunWrite, Event, Check, ArmCheck, ArmSet, FlushStep,
                RunArm, FlushBegin
  <2>4. \A t \in Handlers : pc'[t] = "grant" => mark'[t] = 0
    <3>1. CASE Attach \/ Abort \/ CloseLoop \/ RunWrite
      BY <1>3, <3>1 DEF Attach, Abort, CloseLoop, RunWrite
    <3>2. ASSUME NEW u \in Handlers, Event(u) \/ Check(u) \/ ArmCheck(u) \/ ArmSet(u)
          PROVE  \A t \in Handlers : pc'[t] = "grant" => mark'[t] = 0
      BY <1>3, <1>4, <3>2 DEF Event, Check, ArmCheck, ArmSet, Goto, TypeOK, Threads
    <3>3. ASSUME NEW h \in Handles, FlushStep(h)
          PROVE  \A t \in Handlers : pc'[t] = "grant" => mark'[t] = 0
      BY <1>3, <1>4, <3>3 DEF FlushStep, RunArm, FlushBegin, Goto, TypeOK, Threads
    <3> QED
      BY <2>1, <3>1, <3>2, <3>3
  <2>5. ASSUME NEW n \in 1 .. Remembered, recent'[n] < Throttle
        PROVE  n + ToCome(pc', mark', flush', recent'[n]) <= Cardinality(Handlers) + most'
    <3>1. ToCome(pc', mark', flush', recent[n]) <= ToCome(pc, mark, flush, recent[n])
      BY <1>3, <1>4, <2>1, <2>2, <2>5, NoMoreToCome
    <3>2. n + ToCome(pc, mark, flush, recent[n]) <= Cardinality(Handlers) + most
      BY <1>3, <2>2, <2>5
    <3> QED
      BY <1>4, <1>5, <2>2, <3>1, <3>2
  <2> QED
    BY <1>3, <2>2, <2>3, <2>4, <2>5
<1> QED
  BY <1>6, <1>7, <1>8

LEMMA RateInvHolds == ASSUME Loop \in Handlers PROVE RateSpec => []RateInv
<1>1. RateInit => RateInv
  <2> SUFFICES ASSUME RateInit PROVE RateInv
    OBVIOUS
  <2>1. TypeOK
    BY WindowEnds, FreeIsAFlush DEF RateInit, Init, TypeOK
  <2>2. recent \in [1 .. Remembered -> 0 .. Throttle] /\ most \in 1 .. Cardinality(Handles)
    BY WindowEnds, Sizes DEF RateInit
  <2>3. Outstanding = 0
    <3>1. {h \in Handles : flush[h] # Free} = {}
      BY DEF RateInit, Init
    <3> QED
      BY <3>1, FS_EmptySet DEF Outstanding
  <2>4. WindowFits
    BY TimesAssumption, Sizes DEF RateInit, Init, WindowFits, Threads
  <2> QED
    BY <2>1, <2>2, <2>3, <2>4 DEF RateInv, RateTypeOK, RateInit
<1>2. RateInv /\ [RateNext]_rateVars => RateInv'
  <2> SUFFICES ASSUME RateInv, [RateNext]_rateVars PROVE RateInv'
    OBVIOUS
  <2>1. RateTypeOK' /\ Outstanding' <= most'
    BY RateTypeStep DEF RateInv
  <2>2. CASE RateNext
    BY <2>1, <2>2, WindowStep DEF RateInv
  <2>3. CASE UNCHANGED rateVars
    <3>1. UNCHANGED <<pc, mark, flush, elapsed, recent, most>>
      BY <2>3 DEF rateVars, vars
    <3>2. WindowFits'
      BY <3>1 DEF RateInv, WindowFits, ToCome, Writers, Due, Remembered, Free
    <3> QED
      BY <2>1, <3>2 DEF RateInv
  <2> QED
    BY <2>2, <2>3
<1> QED
  BY <1>1, <1>2, PTL DEF RateSpec

\* The rate of writes is bounded (_push_throttled, _arm_trailing_flush): in one interval one
\* write per thread, and as many flushes as were ever outstanding at once, unless a thread
\* stalls.  The event loop is one of the threads, as it is when it replays a resync.
THEOREM RateIsBounded == ASSUME Loop \in Handlers PROVE RateSpec => WritesCapped
<1>1. RateInv /\ [RateNext]_rateVars =>
        [LetThrough /\ recent # <<>>
           => recent[Cardinality(Handlers) + most] = Throttle]_rateVars
  <2> SUFFICES ASSUME RateInv, LetThrough, recent # <<>>
               PROVE  recent[Cardinality(Handlers) + most] = Throttle
    OBVIOUS
  <2> DEFINE n == Cardinality(Handlers) + most
  <2>1. n \in 1 .. Remembered
    BY Sizes DEF RateInv, RateTypeOK, Remembered
  <2>2. recent[n] \in 0 .. Throttle
    BY <2>1 DEF RateInv, RateTypeOK
  <2>3. ~(recent[n] < Throttle)
    <3>1. ToCome(pc', mark', flush', recent[n]) + 1 <= ToCome(pc, mark, flush, recent[n])
      BY WriterIsDone DEF RateInv, RateTypeOK
    <3>2. /\ ToCome(pc', mark', flush', recent[n]) \in Nat
          /\ ToCome(pc, mark, flush, recent[n]) \in Nat
      BY Sizes DEF ToCome
    <3>3. recent[n] < Throttle => n + ToCome(pc, mark, flush, recent[n]) <= n
      BY <2>1 DEF RateInv, WindowFits
    <3> QED
      BY <2>1, <3>1, <3>2, <3>3
  <2> QED
    BY <2>2, <2>3, TimesAssumption
<1> QED
  BY <1>1, RateInvHolds, PTL DEF RateSpec, WritesCapped

-----------------------------------------------------------------------------
(* The environment sensor.                                                 *)

\* What a sequence of messages tells last: its last message with a name has n, the last
\* with a room has r.
HasName(s) == \E i \in DOMAIN s : s[i].name # Absent
LastName(s, n) ==
  \A i \in DOMAIN s :
    s[i].name # Absent /\ (\A j \in DOMAIN s : j > i => s[j].name = Absent) => s[i].name = n
HasRoom(s) == \E i \in DOMAIN s : s[i].room # Absent
LastRoom(s, r) ==
  \A i \in DOMAIN s :
    s[i].room # Absent /\ (\A j \in DOMAIN s : j > i => s[j].room = Absent) => s[i].room = r

\* After every message with a room there is one of the removal from the room.
RemovalSent(s) ==
  \A i \in DOMAIN s : s[i].room \in Rooms => \E j \in DOMAIN s : j > i /\ s[j].room = None

HasPrimary(s) == \E i \in DOMAIN s : s[i].half = Primary

\* Likewise of the tasks of one kind: the last of them writes v.
HasTask(s, what) == \E i \in DOMAIN s : s[i].what = what
LastTask(s, what, v) ==
  \A i \in DOMAIN s :
    s[i].what = what /\ (\A j \in DOMAIN s : j > i => s[j].what # what) => s[i].val = v

\* The last events on the connection tell what the hub has; what a resync replays has a
\* name, and no removal from a room.
LinkFits ==
  /\ connected => opened
  /\ ~connected => wire = <<>>
  /\ LastName(wire, hub.name) /\ LastRoom(wire, hub.room)
  /\ hub.room = None => RemovalSent(wire)
  /\ \A i \in DOMAIN replay :
       /\ replay[i].name # Absent /\ replay[i].room # None
       /\ replay[i].half = Secondary => replay[i].room = Absent

\* A resync will replay the hub's present name and room.
OnItsWay == resync \/ HasPrimary(replay) \/ (~connected /\ opened)

\* The model has the hub's name and room or will be told; of a removal only by an event.
ModelFollows ==
  /\ nameOff = {} => HasName(wire) \/ model.name = hub.name \/ OnItsWay
  /\ roomOff = {} => HasRoom(wire) \/ model.room = hub.room \/ OnItsWay
  /\ roomOff = {} /\ hub.room = None => HasRoom(wire) \/ model.room = None

\* The last task of a kind brings the device what the model has, and without one the device
\* has it already, or, until the syncs of the setup have run, gets it from them.
DeviceFollows ==
  /\ nameOff = {} =>
       IF HasTask(tasks, "name") THEN LastTask(tasks, "name", model.name)
       ELSE synced => dev.byUser \/ dev.name = model.name
  /\ roomOff = {} =>
       IF HasTask(tasks, "area") THEN LastTask(tasks, "area", model.room)
       ELSE dev.area = model.room \/ (~synced /\ model.room # None)

SensorInv == SensorTypeOK /\ OneRequest /\ LinkFits /\ ModelFollows /\ DeviceFollows

-----------------------------------------------------------------------------
(* Sequences of messages and of tasks.                                     *)

\* What is left when the first element is taken, as on_message and the event loop take it.
LEMMA TailOf ==
  ASSUME NEW S, NEW s \in Seq(S), s # <<>>
  PROVE  /\ Tail(s) \in Seq(S) /\ Head(s) \in S /\ Head(s) = s[1]
         /\ DOMAIN s = 1 .. Len(s) /\ Len(s) \in Nat \ {0}
         /\ DOMAIN Tail(s) = 1 .. (Len(s) - 1)
         /\ \A i \in 1 .. (Len(s) - 1) : Tail(s)[i] = s[i + 1]
OBVIOUS

\* What is there when one is added at the end.
LEMMA AppendOf ==
  ASSUME NEW S, NEW s \in Seq(S), NEW x \in S
  PROVE  /\ Append(s, x) \in Seq(S) /\ s \o <<x>> = Append(s, x) /\ s \o <<>> = s
         /\ DOMAIN s = 1 .. Len(s) /\ Len(s) \in Nat
         /\ DOMAIN Append(s, x) = 1 .. (Len(s) + 1)
         /\ \A i \in 1 .. Len(s) : Append(s, x)[i] = s[i]
         /\ Append(s, x)[Len(s) + 1] = x
OBVIOUS

\* A task that is added is the last of its kind, and changes nothing for the other kind.
LEMMA TaskAdded ==
  ASSUME NEW s \in Seq(Task), NEW x \in Task
  PROVE  /\ HasTask(Append(s, x), x.what) /\ LastTask(Append(s, x), x.what, x.val)
         /\ \A w : w # x.what =>
              /\ HasTask(Append(s, x), w) <=> HasTask(s, w)
              /\ \A v : LastTask(s, w, v) => LastTask(Append(s, x), w, v)
<1>1. HasTask(Append(s, x), x.what) /\ LastTask(Append(s, x), x.what, x.val)
  BY AppendOf DEF HasTask, LastTask
<1>2. ASSUME NEW w, w # x.what
      PROVE  HasTask(Append(s, x), w) <=> HasTask(s, w)
  BY <1>2, AppendOf DEF HasTask
<1>3. ASSUME NEW w, w # x.what, NEW v, LastTask(s, w, v)
      PROVE  LastTask(Append(s, x), w, v)
  <2> SUFFICES ASSUME NEW i \in DOMAIN Append(s, x), Append(s, x)[i].what = w,
                      \A j \in DOMAIN Append(s, x) : j > i => Append(s, x)[j].what # w
               PROVE  Append(s, x)[i].val = v
    BY DEF LastTask
  <2>1. i \in 1 .. Len(s)
    BY <1>3, AppendOf
  <2>2. \A j \in DOMAIN s : j > i => s[j].what # w
    BY <2>1, AppendOf
  <2> QED
    BY <1>3, <2>1, <2>2, AppendOf DEF LastTask
<1> QED
  BY <1>1, <1>2, <1>3

\* The event loop takes the first task: the last of each kind stays the last, and the first is
\* the last of its kind when no other is left.
LEMMA TaskTaken ==
  ASSUME NEW s \in Seq(Task), s # <<>>
  PROVE  /\ \A w : HasTask(Tail(s), w) => HasTask(s, w)
         /\ \A w : HasTask(s, w) /\ w # Head(s).what => HasTask(Tail(s), w)
         /\ \A w, v : LastTask(s, w, v) => LastTask(Tail(s), w, v)
         /\ \A w, v : LastTask(s, w, v) /\ Head(s).what = w /\ ~HasTask(Tail(s), w)
                      => Head(s).val = v
<1>1. \A w : HasTask(Tail(s), w) => HasTask(s, w)
  BY TailOf DEF HasTask
<1>2. ASSUME NEW w, HasTask(s, w), w # Head(s).what PROVE HasTask(Tail(s), w)
  <2>1. PICK i \in DOMAIN s : s[i].what = w
    BY <1>2 DEF HasTask
  <2>2. i - 1 \in DOMAIN Tail(s) /\ Tail(s)[i - 1] = s[i]
    BY <1>2, <2>1, TailOf
  <2> QED
    BY <2>1, <2>2 DEF HasTask
<1>3. ASSUME NEW w, NEW v, LastTask(s, w, v) PROVE LastTask(Tail(s), w, v)
  <2> SUFFICES ASSUME NEW i \in DOMAIN Tail(s), Tail(s)[i].what = w,
                      \A j \in DOMAIN Tail(s) : j > i => Tail(s)[j].what # w
               PROVE  Tail(s)[i].val = v
    BY DEF LastTask
  <2>1. i + 1 \in DOMAIN s /\ Tail(s)[i] = s[i + 1]
    BY TailOf
  <2>2. \A j \in DOMAIN s : j > i + 1 => s[j].what # w
    <3> SUFFICES ASSUME NEW j \in DOMAIN s, j > i + 1 PROVE s[j].what # w
      OBVIOUS
    <3>1. j - 1 \in DOMAIN Tail(s) /\ j - 1 > i /\ Tail(s)[j - 1] = s[j]
      BY TailOf
    <3> QED
      BY <3>1
  <2> QED
    BY <1>3, <2>1, <2>2 DEF LastTask
<1>4. ASSUME NEW w, NEW v, LastTask(s, w, v), Head(s).what = w, ~HasTask(Tail(s), w)
      PROVE  Head(s).val = v
  <2>1. \A j \in DOMAIN s : j > 1 => s[j].what # w
    <3> SUFFICES ASSUME NEW j \in DOMAIN s, j > 1 PROVE s[j].what # w
      OBVIOUS
    <3>1. j - 1 \in DOMAIN Tail(s) /\ Tail(s)[j - 1] = s[j]
      BY TailOf
    <3> QED
      BY <1>4, <3>1 DEF HasTask
  <2> QED
    BY <1>4, <2>1, TailOf DEF LastTask
<1> QED
  BY <1>1, <1>2, <1>3, <1>4

\* A message that is added is the last with a name if it has one, else changes nothing of it.
LEMMA NameAdded ==
  ASSUME NEW s \in Seq(Message), NEW x \in Message
  PROVE  /\ x.name # Absent => HasName(Append(s, x)) /\ LastName(Append(s, x), x.name)
         /\ x.name = Absent =>
              /\ HasName(s) => HasName(Append(s, x))
              /\ \A v : LastName(s, v) => LastName(Append(s, x), v)
<1>1. x.name # Absent => HasName(Append(s, x)) /\ LastName(Append(s, x), x.name)
  BY AppendOf DEF HasName, LastName
<1>2. HasName(s) => HasName(Append(s, x))
  BY AppendOf DEF HasName
<1>3. ASSUME x.name = Absent, NEW v, LastName(s, v) PROVE LastName(Append(s, x), v)
  <2> SUFFICES ASSUME NEW i \in DOMAIN Append(s, x), Append(s, x)[i].name # Absent,
                      \A j \in DOMAIN Append(s, x) : j > i => Append(s, x)[j].name = Absent
               PROVE  Append(s, x)[i].name = v
    BY DEF LastName
  <2>1. i \in 1 .. Len(s)
    BY <1>3, AppendOf
  <2>2. \A j \in DOMAIN s : j > i => s[j].name = Absent
    BY <2>1, AppendOf
  <2> QED
    BY <1>3, <2>1, <2>2, AppendOf DEF LastName
<1> QED
  BY <1>1, <1>2, <1>3

\* The first message is taken: the last name stays, or it was the first's.
LEMMA NameTaken ==
  ASSUME NEW s \in Seq(Message), s # <<>>
  PROVE  /\ \A v : LastName(s, v) => LastName(Tail(s), v)
         /\ HasName(s) /\ ~HasName(Tail(s)) => Head(s).name # Absent
         /\ \A v : LastName(s, v) /\ ~HasName(Tail(s)) =>
               Head(s).name \in {Absent, v}
<1>1. ASSUME HasName(s), ~HasName(Tail(s)) PROVE Head(s).name # Absent
  <2>1. PICK i \in DOMAIN s : s[i].name # Absent
    BY <1>1 DEF HasName
  <2>2. CASE i = 1
    BY <2>1, <2>2, TailOf
  <2>3. CASE i # 1
    <3>1. i - 1 \in DOMAIN Tail(s) /\ Tail(s)[i - 1] = s[i]
      BY <2>3, TailOf
    <3> QED
      BY <1>1, <2>1, <3>1 DEF HasName
  <2> QED
    BY <2>2, <2>3
<1>2. ASSUME NEW v, LastName(s, v) PROVE LastName(Tail(s), v)
  <2> SUFFICES ASSUME NEW i \in DOMAIN Tail(s), Tail(s)[i].name # Absent,
                      \A j \in DOMAIN Tail(s) : j > i => Tail(s)[j].name = Absent
               PROVE  Tail(s)[i].name = v
    BY DEF LastName
  <2>1. i + 1 \in DOMAIN s /\ Tail(s)[i] = s[i + 1]
    BY TailOf
  <2>2. \A j \in DOMAIN s : j > i + 1 => s[j].name = Absent
    <3> SUFFICES ASSUME NEW j \in DOMAIN s, j > i + 1 PROVE s[j].name = Absent
      OBVIOUS
    <3>1. j - 1 \in DOMAIN Tail(s) /\ j - 1 > i /\ Tail(s)[j - 1] = s[j]
      BY TailOf
    <3> QED
      BY <3>1
  <2> QED
    BY <1>2, <2>1, <2>2 DEF LastName
<1>3. ASSUME NEW v, LastName(s, v), ~HasName(Tail(s)) PROVE Head(s).name \in {Absent, v}
  <2>1. \A j \in DOMAIN s : j > 1 => s[j].name = Absent
    <3> SUFFICES ASSUME NEW j \in DOMAIN s, j > 1 PROVE s[j].name = Absent
      OBVIOUS
    <3>1. j - 1 \in DOMAIN Tail(s) /\ Tail(s)[j - 1] = s[j]
      BY TailOf
    <3> QED
      BY <1>3, <3>1 DEF HasName
  <2> QED
    BY <1>3, <2>1, TailOf DEF LastName
<1> QED
  BY <1>1, <1>2, <1>3

\* The same for the rooms of the messages.
LEMMA RoomAdded ==
  ASSUME NEW s \in Seq(Message), NEW x \in Message
  PROVE  /\ x.room # Absent => HasRoom(Append(s, x)) /\ LastRoom(Append(s, x), x.room)
         /\ x.room = Absent =>
              /\ HasRoom(s) => HasRoom(Append(s, x))
              /\ \A v : LastRoom(s, v) => LastRoom(Append(s, x), v)
<1>1. x.room # Absent => HasRoom(Append(s, x)) /\ LastRoom(Append(s, x), x.room)
  BY AppendOf DEF HasRoom, LastRoom
<1>2. HasRoom(s) => HasRoom(Append(s, x))
  BY AppendOf DEF HasRoom
<1>3. ASSUME x.room = Absent, NEW v, LastRoom(s, v) PROVE LastRoom(Append(s, x), v)
  <2> SUFFICES ASSUME NEW i \in DOMAIN Append(s, x), Append(s, x)[i].room # Absent,
                      \A j \in DOMAIN Append(s, x) : j > i => Append(s, x)[j].room = Absent
               PROVE  Append(s, x)[i].room = v
    BY DEF LastRoom
  <2>1. i \in 1 .. Len(s)
    BY <1>3, AppendOf
  <2>2. \A j \in DOMAIN s : j > i => s[j].room = Absent
    BY <2>1, AppendOf
  <2> QED
    BY <1>3, <2>1, <2>2, AppendOf DEF LastRoom
<1> QED
  BY <1>1, <1>2, <1>3

\* The first message is taken: the last room stays, or it was the first's.
LEMMA RoomTaken ==
  ASSUME NEW s \in Seq(Message), s # <<>>
  PROVE  /\ \A v : LastRoom(s, v) => LastRoom(Tail(s), v)
         /\ HasRoom(s) /\ ~HasRoom(Tail(s)) => Head(s).room # Absent
         /\ \A v : LastRoom(s, v) /\ ~HasRoom(Tail(s)) =>
               Head(s).room \in {Absent, v}
<1>1. ASSUME HasRoom(s), ~HasRoom(Tail(s)) PROVE Head(s).room # Absent
  <2>1. PICK i \in DOMAIN s : s[i].room # Absent
    BY <1>1 DEF HasRoom
  <2>2. CASE i = 1
    BY <2>1, <2>2, TailOf
  <2>3. CASE i # 1
    <3>1. i - 1 \in DOMAIN Tail(s) /\ Tail(s)[i - 1] = s[i]
      BY <2>3, TailOf
    <3> QED
      BY <1>1, <2>1, <3>1 DEF HasRoom
  <2> QED
    BY <2>2, <2>3
<1>2. ASSUME NEW v, LastRoom(s, v) PROVE LastRoom(Tail(s), v)
  <2> SUFFICES ASSUME NEW i \in DOMAIN Tail(s), Tail(s)[i].room # Absent,
                      \A j \in DOMAIN Tail(s) : j > i => Tail(s)[j].room = Absent
               PROVE  Tail(s)[i].room = v
    BY DEF LastRoom
  <2>1. i + 1 \in DOMAIN s /\ Tail(s)[i] = s[i + 1]
    BY TailOf
  <2>2. \A j \in DOMAIN s : j > i + 1 => s[j].room = Absent
    <3> SUFFICES ASSUME NEW j \in DOMAIN s, j > i + 1 PROVE s[j].room = Absent
      OBVIOUS
    <3>1. j - 1 \in DOMAIN Tail(s) /\ j - 1 > i /\ Tail(s)[j - 1] = s[j]
      BY TailOf
    <3> QED
      BY <3>1
  <2> QED
    BY <1>2, <2>1, <2>2 DEF LastRoom
<1>3. ASSUME NEW v, LastRoom(s, v), ~HasRoom(Tail(s)) PROVE Head(s).room \in {Absent, v}
  <2>1. \A j \in DOMAIN s : j > 1 => s[j].room = Absent
    <3> SUFFICES ASSUME NEW j \in DOMAIN s, j > 1 PROVE s[j].room = Absent
      OBVIOUS
    <3>1. j - 1 \in DOMAIN Tail(s) /\ Tail(s)[j - 1] = s[j]
      BY TailOf
    <3> QED
      BY <1>3, <3>1 DEF HasRoom
  <2> QED
    BY <1>3, <2>1, TailOf DEF LastRoom
<1> QED
  BY <1>1, <1>2, <1>3

\* A removal at the end follows every message with a room.
LEMMA RemovalAdded ==
  ASSUME NEW s \in Seq(Message), NEW x \in Message
  PROVE  /\ x.room = None /\ None \notin Rooms => RemovalSent(Append(s, x))
         /\ x.room = Absent /\ Absent \notin Rooms /\ RemovalSent(s)
              => RemovalSent(Append(s, x))
<1>1. ASSUME x.room = None, None \notin Rooms PROVE RemovalSent(Append(s, x))
  <2> SUFFICES ASSUME NEW i \in DOMAIN Append(s, x), Append(s, x)[i].room \in Rooms
               PROVE  \E j \in DOMAIN Append(s, x) : j > i /\ Append(s, x)[j].room = None
    BY DEF RemovalSent
  <2>1. CASE i = Len(s) + 1
    BY <1>1, <2>1, AppendOf
  <2>2. CASE i # Len(s) + 1
    BY <1>1, <2>2, AppendOf
  <2> QED
    BY <2>1, <2>2
<1>2. ASSUME x.room = Absent, Absent \notin Rooms, RemovalSent(s)
      PROVE  RemovalSent(Append(s, x))
  BY <1>2, AppendOf DEF RemovalSent
<1> QED
  BY <1>1, <1>2

\* It stays behind when the first message is taken.
LEMMA RemovalTaken ==
  ASSUME NEW s \in Seq(Message), s # <<>>, RemovalSent(s)
  PROVE  /\ RemovalSent(Tail(s))
         /\ Head(s).room \in Rooms => HasRoom(Tail(s))
<1>1. RemovalSent(Tail(s))
  <2> SUFFICES ASSUME NEW i \in DOMAIN Tail(s), Tail(s)[i].room \in Rooms
               PROVE  \E j \in DOMAIN Tail(s) : j > i /\ Tail(s)[j].room = None
    BY DEF RemovalSent
  <2>1. i + 1 \in DOMAIN s /\ Tail(s)[i] = s[i + 1]
    BY TailOf
  <2>2. PICK j \in DOMAIN s : j > i + 1 /\ s[j].room = None
    BY <2>1 DEF RemovalSent
  <2>3. j - 1 \in DOMAIN Tail(s) /\ j - 1 > i /\ Tail(s)[j - 1] = s[j]
    BY <2>1, <2>2, TailOf
  <2> QED
    BY <2>2, <2>3
<1>2. ASSUME Head(s).room \in Rooms PROVE HasRoom(Tail(s))
  <2>1. PICK j \in DOMAIN s : j > 1 /\ s[j].room = None
    BY <1>2, TailOf DEF RemovalSent
  <2>2. j - 1 \in DOMAIN Tail(s) /\ Tail(s)[j - 1] = s[j]
    BY <2>1, TailOf
  <2> QED
    BY <2>1, <2>2 DEF HasRoom, None, Absent
<1> QED
  BY <1>1, <1>2

\* The first half is still to be replayed after the second one.
LEMMA PrimaryTaken ==
  ASSUME NEW s \in Seq(Message), s # <<>>, HasPrimary(s), Head(s).half # Primary
  PROVE  HasPrimary(Tail(s))
<1>1. PICK i \in DOMAIN s : s[i].half = Primary
  BY DEF HasPrimary
<1>2. i - 1 \in DOMAIN Tail(s) /\ Tail(s)[i - 1] = s[i]
  BY <1>1, TailOf
<1> QED
  BY <1>1, <1>2 DEF HasPrimary

-----------------------------------------------------------------------------
(* The hub's list of devices, and what on_message does.                    *)

\* However the hub orders the halves, the sensor merged from its list has its name and room,
\* and a replayed half has a name, the second no room.
LEMMA ListingsFit ==
  ASSUME SensorTypeOK, NEW list \in Listings
  PROVE  /\ list \in Seq(Message) /\ HasPrimary(list)
         /\ \A i \in DOMAIN list :
              /\ list[i].half = Secondary => list[i].room = Absent
              /\ list[i].name # Absent /\ list[i].room # None
         /\ Merged(list) = hub
<1> DEFINE p == Listed(Primary)
           q == Listed(Secondary)
<1>0. /\ hub.name \in Names \cup {Generic} /\ hub.room \in Rooms \cup {None}
      /\ hub = [name |-> hub.name, room |-> hub.room]
  BY DEF SensorTypeOK, Sensor
<1>1. /\ p \in Message /\ q \in Message
      /\ p.half = Primary /\ p.name = hub.name /\ q.half = Secondary /\ q.room = Absent
      /\ p.room = IF hub.room = None THEN Absent ELSE hub.room
      /\ p.name # Absent /\ q.name # Absent /\ p.room # None
  <2>1. /\ p = [half |-> Primary, name |-> hub.name,
                room |-> IF hub.room = None THEN Absent ELSE hub.room]
        /\ q = [half |-> Secondary, name |-> Generic, room |-> Absent]
    BY DEF Listed, Primary, Secondary
  <2> HIDE DEF p, q
  <2> QED
    BY <1>0, <2>1, BoundsAssumption DEF Message, None, Absent, Generic
<1>2. list \in {<<p, q>>, <<q, p>>, <<p>>}
  BY DEF Listings
<1> HIDE DEF p, q
<1>3. list \in Seq(Message)
  <2>1. <<p, q>> \in Seq(Message) /\ <<q, p>> \in Seq(Message) /\ <<p>> \in Seq(Message)
    BY <1>1
  <2> QED
    BY <1>2, <2>1
<1>4. {list[i] : i \in DOMAIN list} \in {{p}, {p, q}}
  <2>1. CASE list = <<p>>
    <3>1. DOMAIN list = {1} /\ list[1] = p
      BY <2>1
    <3> QED
      BY <3>1
  <2>2. CASE list \in {<<p, q>>, <<q, p>>}
    <3>1. DOMAIN list = {1, 2} /\ {list[1], list[2]} = {p, q}
      BY <2>2
    <3> QED
      BY <3>1
  <2> QED
    BY <1>2, <2>1, <2>2
<1>5. /\ \E i \in DOMAIN list : list[i] = p
      /\ \A i \in DOMAIN list : list[i] \in {p, q}
  BY <1>4
<1>6. p = CHOOSE m \in {list[i] : i \in DOMAIN list} :
            \A i \in DOMAIN list : m.half <= list[i].half
  <2>1. \A m \in {list[i] : i \in DOMAIN list} :
          (\A i \in DOMAIN list : m.half <= list[i].half) <=> m = p
    BY <1>1, <1>4, <1>5 DEF Primary, Secondary
  <2> QED
    BY <1>4, <2>1
<1>7. {list[i].room : i \in DOMAIN list} \ {Absent} = {p.room} \ {Absent}
  BY <1>1, <1>5
<1>8. Merged(list) = [name |-> p.name,
                      room |-> IF p.room # Absent THEN p.room ELSE None]
  BY <1>6, <1>7 DEF Merged, MergedOn
<1>9. Merged(list) = hub
  <2>1. (IF p.room # Absent THEN p.room ELSE None) = hub.room
    BY <1>0, <1>1, BoundsAssumption DEF None, Absent
  <2> QED
    BY <1>0, <1>1, <1>8, <2>1
<1>10. HasPrimary(list)
  BY <1>1, <1>5 DEF HasPrimary
<1>11. \A i \in DOMAIN list :
         /\ list[i].half = Secondary => list[i].room = Absent
         /\ list[i].name # Absent /\ list[i].room # None
  <2>1. q.room # None
    BY <1>1 DEF None, Absent
  <2>2. p.half # Secondary
    BY <1>1 DEF Primary, Secondary
  <2> QED
    BY <1>1, <1>5, <2>1, <2>2
<1> QED
  BY <1>3, <1>9, <1>10, <1>11

\* A message that schedules an update of the area, or of the name.
Tells(m) == m.room \in Rooms \/ (m.room = None /\ model.room # None)
Renames(m) == m.name \notin {Absent, model.name}

\* What on_message schedules is the last task of its kind.
LEMMA MessageEffect ==
  ASSUME SensorTypeOK, NEW m \in Message, OnMessage(m)
  PROVE  /\ tasks' \in Seq(Task) /\ model' \in Sensor
         /\ model'.name = IF m.name = Absent THEN model.name ELSE m.name
         /\ model'.room = IF m.room = Absent THEN model.room ELSE m.room
         /\ IF Renames(m) THEN HasTask(tasks', "name") /\ LastTask(tasks', "name", m.name)
            ELSE /\ HasTask(tasks', "name") <=> HasTask(tasks, "name")
                 /\ \A v : LastTask(tasks, "name", v) => LastTask(tasks', "name", v)
         /\ IF Tells(m) THEN HasTask(tasks', "area") /\ LastTask(tasks', "area", m.room)
            ELSE /\ HasTask(tasks', "area") <=> HasTask(tasks, "area")
                 /\ \A v : LastTask(tasks, "area", v) => LastTask(tasks', "area", v)
<1>1. /\ model' \in Sensor
      /\ model'.name = IF m.name = Absent THEN model.name ELSE m.name
      /\ model'.room = IF m.room = Absent THEN model.room ELSE m.room
  BY DEF OnMessage, SensorTypeOK, Sensor, Message
<1> DEFINE mid == tasks \o RoomTasks(m)
           a == [what |-> "area", val |-> m.room]
           n == [what |-> "name", val |-> m.name]
<1>2. tasks \in Seq(Task)
  BY DEF SensorTypeOK
<1>3. Tells(m) => a \in Task /\ a.what = "area" /\ a.val = m.room /\ RoomTasks(m) = <<a>>
  BY DEF Tells, Task, RoomTasks, Message
<1>4. ~Tells(m) => RoomTasks(m) = <<>>
  BY DEF Tells, RoomTasks
<1>5. Renames(m) => n \in Task /\ n.what = "name" /\ n.val = m.name /\ NameTasks(m) = <<n>>
  BY DEF Renames, Task, NameTasks, Message
<1>6. ~Renames(m) => NameTasks(m) = <<>>
  BY DEF Renames, NameTasks
<1>7. tasks' = mid \o NameTasks(m)
  BY DEF OnMessage
<1> HIDE DEF a, n
<1>8. /\ mid \in Seq(Task)
      /\ HasTask(mid, "name") <=> HasTask(tasks, "name")
      /\ \A v : LastTask(tasks, "name", v) => LastTask(mid, "name", v)
      /\ IF Tells(m) THEN HasTask(mid, "area") /\ LastTask(mid, "area", m.room)
         ELSE mid = tasks
  <2>1. CASE Tells(m)
    <3>1. tasks \o <<a>> = Append(tasks, a) /\ Append(tasks, a) \in Seq(Task)
      BY <1>2, <1>3, <2>1, AppendOf
    <3>2. mid = Append(tasks, a) /\ mid \in Seq(Task)
      BY <1>3, <2>1, <3>1
    <3> HIDE DEF mid
    <3> QED
      BY <1>2, <1>3, <2>1, <3>2, TaskAdded
  <2>2. CASE ~Tells(m)
    <3>1. mid = tasks
      BY <1>2, <1>4, <2>2
    <3> HIDE DEF mid
    <3> QED
      BY <1>2, <2>2, <3>1
  <2> QED
    BY <2>1, <2>2
<1> HIDE DEF mid
<1>9. /\ tasks' \in Seq(Task)
      /\ HasTask(tasks', "area") <=> HasTask(mid, "area")
      /\ \A v : LastTask(mid, "area", v) => LastTask(tasks', "area", v)
      /\ IF Renames(m) THEN HasTask(tasks', "name") /\ LastTask(tasks', "name", m.name)
         ELSE tasks' = mid
  <2>1. CASE Renames(m)
    <3>1. mid \o <<n>> = Append(mid, n) /\ Append(mid, n) \in Seq(Task)
      BY <1>5, <1>8, <2>1, AppendOf
    <3>2. tasks' = Append(mid, n) /\ tasks' \in Seq(Task)
      BY <1>5, <1>7, <2>1, <3>1
    <3> QED
      BY <1>5, <1>8, <2>1, <3>2, TaskAdded
  <2>2. CASE ~Renames(m)
    <3>1. tasks' = mid
      BY <1>6, <1>7, <1>8, <2>2
    <3> QED
      BY <1>8, <2>2, <3>1
  <2> QED
    BY <2>1, <2>2
<1> QED
  BY <1>1, <1>8, <1>9

\* A message alone does not part the device from the model.
LEMMA MessageKeepsDevice ==
  ASSUME SensorTypeOK, NEW m \in Message, OnMessage(m), DeviceFollows,
         UNCHANGED <<dev, synced>>, nameOff \subseteq nameOff', roomOff \subseteq roomOff'
  PROVE  DeviceFollows'
<1>1. nameOff' = {} =>
        IF HasTask(tasks', "name") THEN LastTask(tasks', "name", model'.name)
        ELSE synced => dev.byUser \/ dev.name = model'.name
  BY MessageEffect DEF DeviceFollows, Renames
<1>2. roomOff' = {} =>
        IF HasTask(tasks', "area") THEN LastTask(tasks', "area", model'.room)
        ELSE dev.area = model'.room \/ (~synced /\ model'.room # None)
  <2>1. CASE Tells(m)
    BY <2>1, MessageEffect, BoundsAssumption DEF Tells, None, Absent
  <2>2. CASE ~Tells(m)
    <3>1. m.room \in {Absent, None} /\ (m.room = None => model.room = None)
      BY <2>2 DEF Tells, Message
    <3> QED
      BY <2>2, <3>1, MessageEffect DEF DeviceFollows
  <2> QED
    BY <2>1, <2>2
<1> QED
  BY <1>1, <1>2 DEF DeviceFollows

-----------------------------------------------------------------------------
(* The invariant, action by action.                                       *)

\* What is sent of a change, if there is a connection.
LEMMA TellEffect ==
  ASSUME SensorTypeOK, NEW n \in Names \cup {Generic, Absent},
         NEW r \in Rooms \cup {None, Absent}, Tell(n, r)
  PROVE  /\ wire' \in Seq(Message) /\ edits' \in 0 .. MaxEdits
         /\ IF connected
            THEN /\ n # Absent => HasName(wire') /\ LastName(wire', n)
                 /\ n = Absent => /\ HasName(wire) => HasName(wire')
                                  /\ \A v : LastName(wire, v) => LastName(wire', v)
                 /\ r # Absent => HasRoom(wire') /\ LastRoom(wire', r)
                 /\ r = Absent => /\ HasRoom(wire) => HasRoom(wire')
                                  /\ \A v : LastRoom(wire, v) => LastRoom(wire', v)
                 /\ r = None => RemovalSent(wire')
                 /\ r = Absent /\ RemovalSent(wire) => RemovalSent(wire')
            ELSE wire' = wire
<1> DEFINE m == [half |-> Primary, name |-> n, room |-> r]
<1>1. m \in Message /\ m.name = n /\ m.room = r
  BY DEF Message
<1>2. connected => wire' = Append(wire, m)
  BY DEF Tell
<1> HIDE DEF m
<1>3. edits' \in 0 .. MaxEdits
  BY BoundsAssumption DEF Tell, SensorTypeOK
<1>4. wire \in Seq(Message)
  BY DEF SensorTypeOK
<1>5. CASE connected
  <2>1. wire' = Append(wire, m) /\ wire' \in Seq(Message)
    BY <1>1, <1>2, <1>4, <1>5, AppendOf
  <2>2. /\ n # Absent => HasName(wire') /\ LastName(wire', n)
        /\ n = Absent => /\ HasName(wire) => HasName(wire')
                         /\ \A v : LastName(wire, v) => LastName(wire', v)
    BY <1>1, <1>4, <2>1, NameAdded
  <2>3. /\ r # Absent => HasRoom(wire') /\ LastRoom(wire', r)
        /\ r = Absent => /\ HasRoom(wire) => HasRoom(wire')
                         /\ \A v : LastRoom(wire, v) => LastRoom(wire', v)
    BY <1>1, <1>4, <2>1, RoomAdded
  <2>4. /\ r = None => RemovalSent(wire')
        /\ r = Absent /\ RemovalSent(wire) => RemovalSent(wire')
    BY <1>1, <1>4, <2>1, RemovalAdded, BoundsAssumption
  <2> QED
    BY <1>3, <1>5, <2>1, <2>2, <2>3, <2>4
<1>6. CASE ~connected
  BY <1>3, <1>4, <1>6 DEF Tell
<1> QED
  BY <1>5, <1>6

\* Every field keeps its type.
LEMMA SensorTypeStep ==
  ASSUME SensorTypeOK, OneRequest, [SensorNext]_sensorVars PROVE SensorTypeOK'
<1> USE DEF SensorTypeOK, hubVars, linkVars, resyncVars, pollVars, history
<1>1. CASE Rename
  <2>1. PICK n \in Names \ {hub.name} : hub' = [hub EXCEPT !.name = n] /\ Tell(n, Absent)
    BY <1>1 DEF Rename
  <2>2. hub' \in Sensor
    BY <2>1 DEF Sensor
  <2>3. nameOff' \subseteq Reasons
    BY <1>1 DEF Rename, Reasons
  <2> QED
    BY <1>1, <2>1, <2>2, <2>3, TellEffect DEF Rename
<1>2. CASE Move
  <2>1. PICK r \in (Rooms \cup {None}) \ {hub.room} :
          hub' = [hub EXCEPT !.room = r] /\ Tell(Absent, r)
    BY <1>2 DEF Move
  <2>2. hub' \in Sensor
    BY <2>1 DEF Sensor
  <2>3. roomOff' \subseteq Reasons
    BY <1>2 DEF Move, Reasons
  <2> QED
    BY <1>2, <2>1, <2>2, <2>3, TellEffect DEF Move
<1>3. CASE UserRename
  <2>1. edits' \in 0 .. MaxEdits
    BY <1>3, BoundsAssumption DEF UserRename
  <2>2. dev' = [name |-> dev.name, byUser |-> TRUE, area |-> dev.area]
    BY <1>3 DEF UserRename
  <2>3. dev' \in [name : Names \cup {Generic}, byUser : BOOLEAN, area : Rooms \cup {None}]
    BY <2>2
  <2> QED
    BY <1>3, <2>1, <2>3 DEF UserRename
<1>4. CASE UserMove
  <2>1. edits' \in 0 .. MaxEdits
    BY <1>4, BoundsAssumption DEF UserMove
  <2>2. PICK r \in Rooms \cup {None} : dev' = [dev EXCEPT !.area = r]
    BY <1>4 DEF UserMove
  <2>3. dev' \in [name : Names \cup {Generic}, byUser : BOOLEAN, area : Rooms \cup {None}]
    BY <2>2
  <2>4. roomOff' \subseteq Reasons
    BY <1>4 DEF UserMove, Reasons
  <2> QED
    BY <1>4, <2>1, <2>3, <2>4 DEF UserMove
<1>5. CASE Open
  BY <1>5 DEF Open
<1>6. CASE Drop
  <2>1. drops' \in 0 .. MaxDrops
    BY <1>6, BoundsAssumption DEF Drop
  <2>2. roomOff' \subseteq Reasons
    BY <1>6 DEF Drop, Reasons
  <2>3. wire' \in Seq(Message)
    BY <1>6 DEF Drop
  <2> QED
    BY <1>6, <2>1, <2>2, <2>3 DEF Drop
<1>7. CASE Receive
  BY <1>7, TailOf, MessageEffect DEF Receive
<1>8. CASE ResyncAnswer
  BY <1>8, ListingsFit DEF ResyncAnswer
<1>9. CASE ResyncFails
  BY <1>9 DEF ResyncFails, Reasons
<1>10. CASE Replay
  BY <1>10, TailOf, MessageEffect DEF Replay, Reasons
<1>11. CASE RunTask
  <2>1. tasks' \in Seq(Task) /\ Head(tasks) \in Task
    BY <1>11, TailOf DEF RunTask
  <2>2. dev' \in [name : Names \cup {Generic}, byUser : BOOLEAN, area : Rooms \cup {None}]
    <3>1. CASE Head(tasks).what = "name"
      <4>1. Head(tasks).val \in Names \cup {Generic}
        BY <2>1, <3>1 DEF Task
      <4> QED
        BY <1>11, <3>1, <4>1 DEF RunTask, Named
    <3>2. CASE Head(tasks).what # "name"
      <4>1. Head(tasks).val \in Rooms \cup {None}
        BY <2>1, <3>2 DEF Task
      <4> QED
        BY <1>11, <3>2, <4>1 DEF RunTask
    <3> QED
      BY <3>1, <3>2
  <2>3. nameOff' \subseteq Reasons /\ roomOff' \subseteq Reasons
    BY <1>11 DEF RunTask
  <2> QED
    BY <1>11, <2>1, <2>2, <2>3 DEF RunTask
<1>12. CASE Reload
  <2>1. model' \in Sensor
    BY <1>12, ListingsFit DEF Reload
  <2>2. dev' \in [name : Names \cup {Generic}, byUser : BOOLEAN, area : Rooms \cup {None}]
    BY <1>12, <2>1 DEF Reload, Sensor
  <2>3. reloads' \in 0 .. MaxReloads
    BY <1>12, BoundsAssumption DEF Reload
  <2> QED
    BY <1>12, <2>1, <2>2, <2>3 DEF Reload, Reasons
<1>13. CASE Sync
  BY <1>13 DEF Sync, Named, Sensor
<1>14. ASSUME NEW p \in Pollers, BeginPoll(p) PROVE SensorTypeOK'
  BY <1>14 DEF BeginPoll
<1>15. CASE Recheck
  <2>1. Tail(lock) \in Seq(Pollers)
    BY <1>15, TailOf DEF Recheck
  <2>2. lock' \in Seq(Pollers)
    BY <1>15, <2>1 DEF Recheck, Leave
  <2>3. poll' \in {"check", "fetch", "answered"}
    BY <1>15 DEF Recheck, Leave
  <2> QED
    BY <1>15, <2>2, <2>3 DEF Recheck
<1>16. CASE PollAnswer
  BY <1>16, ListingsFit DEF PollAnswer
<1>17. CASE PollFails
  BY <1>17, TailOf DEF PollFails, Leave, OneRequest
<1>18. CASE EndPoll
  BY <1>18, TailOf DEF EndPoll, Leave, Reasons, OneRequest
<1>19. CASE Expire
  BY <1>19 DEF Expire
<1>20. CASE UNCHANGED sensorVars
  BY <1>20 DEF sensorVars
<1> QED
  BY <1>1, <1>2, <1>3, <1>4, <1>5, <1>6, <1>7, <1>8, <1>9, <1>10, <1>11, <1>12, <1>13,
     <1>14, <1>15, <1>16, <1>17, <1>18, <1>19, <1>20 DEF SensorNext

\* Only the holder of the lock asks the hub, and it has checked the age inside the lock.
LEMMA RequestStep ==
  ASSUME SensorTypeOK, OneRequest, [SensorNext]_sensorVars PROVE OneRequest'
<1> USE DEF OneRequest, hubVars, linkVars, resyncVars, pollVars, history
<1>1. CASE Rename
  BY <1>1 DEF Rename
<1>2. CASE Move
  BY <1>2 DEF Move
<1>3. CASE UserRename
  BY <1>3 DEF UserRename
<1>4. CASE UserMove
  BY <1>4 DEF UserMove
<1>5. CASE Open
  BY <1>5 DEF Open
<1>6. CASE Drop
  BY <1>6 DEF Drop
<1>7. CASE Receive
  BY <1>7 DEF Receive
<1>8. CASE ResyncAnswer
  BY <1>8 DEF ResyncAnswer
<1>9. CASE ResyncFails
  BY <1>9 DEF ResyncFails
<1>10. CASE Replay
  BY <1>10 DEF Replay
<1>11. CASE RunTask
  BY <1>11 DEF RunTask
<1>12. CASE Reload
  BY <1>12 DEF Reload
<1>13. CASE Sync
  BY <1>13 DEF Sync
<1>14. ASSUME NEW p \in Pollers, BeginPoll(p) PROVE OneRequest'
  BY <1>14 DEF BeginPoll, SensorTypeOK
<1>15. CASE Recheck
  BY <1>15 DEF Recheck, Leave
<1>16. CASE PollAnswer
  BY <1>16 DEF PollAnswer
<1>17. CASE PollFails
  BY <1>17 DEF PollFails, Leave
<1>18. CASE EndPoll
  BY <1>18 DEF EndPoll, Leave
<1>19. CASE Expire
  BY <1>19 DEF Expire
<1>20. CASE UNCHANGED sensorVars
  BY <1>20 DEF sensorVars
<1> QED
  BY <1>1, <1>2, <1>3, <1>4, <1>5, <1>6, <1>7, <1>8, <1>9, <1>10, <1>11, <1>12, <1>13,
     <1>14, <1>15, <1>16, <1>17, <1>18, <1>19, <1>20 DEF SensorNext

\* A change on the hub is the last event of its kind; a loss of the connection takes all.
LEMMA LinkStep ==
  ASSUME SensorTypeOK, LinkFits, [SensorNext]_sensorVars PROVE LinkFits'
<1> USE DEF LinkFits, hubVars, linkVars, resyncVars, pollVars, history
<1>1. CASE Rename
  <2>1. PICK n \in Names \ {hub.name} : hub' = [hub EXCEPT !.name = n] /\ Tell(n, Absent)
    BY <1>1 DEF Rename
  <2>2. hub'.name = n /\ hub'.room = hub.room /\ n # Absent
    BY <2>1, BoundsAssumption DEF SensorTypeOK, Sensor
  <2>3. /\ (wire' = wire /\ wire = <<>>) \/ LastName(wire', n)
        /\ wire' = wire \/ (LastRoom(wire, hub.room) => LastRoom(wire', hub.room))
        /\ RemovalSent(wire) => RemovalSent(wire')
        /\ ~connected => wire' = <<>>
    BY <2>1, <2>2, TellEffect DEF SensorTypeOK
  <2>4. LastName(wire', n)
    BY <2>3 DEF LastName
  <2> QED
    BY <1>1, <2>2, <2>3, <2>4 DEF Rename
<1>2. CASE Move
  <2>1. PICK r \in (Rooms \cup {None}) \ {hub.room} :
          hub' = [hub EXCEPT !.room = r] /\ Tell(Absent, r)
    BY <1>2 DEF Move
  <2>2. hub'.room = r /\ hub'.name = hub.name /\ r # Absent
    BY <2>1, BoundsAssumption DEF SensorTypeOK, Sensor, None, Absent
  <2>3. /\ (wire' = wire /\ wire = <<>>) \/ LastRoom(wire', r)
        /\ wire' = wire \/ (LastName(wire, hub.name) => LastName(wire', hub.name))
        /\ r = None => RemovalSent(wire') \/ wire' = <<>>
        /\ ~connected => wire' = <<>>
    BY <2>1, <2>2, TellEffect DEF SensorTypeOK
  <2>4. LastRoom(wire', r) /\ (r = None => RemovalSent(wire'))
    BY <2>3 DEF LastRoom, RemovalSent
  <2> QED
    BY <1>2, <2>2, <2>3, <2>4 DEF Move
<1>3. CASE UserRename
  BY <1>3 DEF UserRename
<1>4. CASE UserMove
  BY <1>4 DEF UserMove
<1>5. CASE Open
  BY <1>5 DEF Open
<1>6. CASE Drop
  BY <1>6 DEF Drop, LastName, LastRoom, RemovalSent
<1>7. CASE Receive
  BY <1>7, NameTaken, RoomTaken, RemovalTaken, TailOf DEF Receive, SensorTypeOK
<1>8. CASE ResyncAnswer
  BY <1>8, ListingsFit DEF ResyncAnswer
<1>9. CASE ResyncFails
  BY <1>9 DEF ResyncFails
<1>10. CASE Replay
  BY <1>10, TailOf DEF Replay, SensorTypeOK
<1>11. CASE RunTask
  BY <1>11 DEF RunTask
<1>12. CASE Reload
  BY <1>12 DEF Reload, LastName, LastRoom, RemovalSent
<1>13. CASE Sync
  BY <1>13 DEF Sync
<1>14. ASSUME NEW p \in Pollers, BeginPoll(p) PROVE LinkFits'
  BY <1>14 DEF BeginPoll
<1>15. CASE Recheck
  BY <1>15 DEF Recheck
<1>16. CASE PollAnswer
  BY <1>16 DEF PollAnswer
<1>17. CASE PollFails
  BY <1>17 DEF PollFails
<1>18. CASE EndPoll
  BY <1>18 DEF EndPoll
<1>19. CASE Expire
  BY <1>19 DEF Expire
<1>20. CASE UNCHANGED sensorVars
  BY <1>20 DEF sensorVars
<1> QED
  BY <1>1, <1>2, <1>3, <1>4, <1>5, <1>6, <1>7, <1>8, <1>9, <1>10, <1>11, <1>12, <1>13,
     <1>14, <1>15, <1>16, <1>17, <1>18, <1>19, <1>20 DEF SensorNext

\* The model takes what an event, a replay, a poll or a reload brings.
LEMMA ModelStep ==
  ASSUME SensorTypeOK, LinkFits, ModelFollows, [SensorNext]_sensorVars PROVE ModelFollows'
<1> USE DEF ModelFollows, OnItsWay, hubVars, linkVars, resyncVars, pollVars, history
<1>1. CASE Rename
  <2>1. PICK n \in Names \ {hub.name} : hub' = [hub EXCEPT !.name = n] /\ Tell(n, Absent)
    BY <1>1 DEF Rename
  <2>2. hub'.name = n /\ hub'.room = hub.room /\ n # Absent
    BY <2>1, BoundsAssumption DEF SensorTypeOK, Sensor
  <2> QED
    BY <1>1, <2>1, <2>2, TellEffect DEF Rename, LinkFits
<1>2. CASE Move
  <2>1. PICK r \in (Rooms \cup {None}) \ {hub.room} :
          hub' = [hub EXCEPT !.room = r] /\ Tell(Absent, r)
    BY <1>2 DEF Move
  <2>2. hub'.room = r /\ hub'.name = hub.name /\ r # Absent
    BY <2>1, BoundsAssumption DEF SensorTypeOK, Sensor, None, Absent
  <2> QED
    BY <1>2, <2>1, <2>2, TellEffect DEF Move, LinkFits
<1>3. CASE UserRename
  BY <1>3 DEF UserRename
<1>4. CASE UserMove
  BY <1>4 DEF UserMove
<1>5. CASE Open
  BY <1>5 DEF Open, LinkFits
<1>6. CASE Drop
  <2>1. ~connected' /\ opened' /\ wire' = <<>> /\ model' = model /\ hub' = hub
    BY <1>6 DEF Drop, LinkFits
  <2>2. ASSUME roomOff' = {}, hub.room = None PROVE model.room = None
    <3>1. roomOff = {} /\ \A i \in DOMAIN wire : wire[i].room # None
      BY <1>6, <2>2 DEF Drop
    <3>2. \A i \in DOMAIN wire : wire[i].room \in Rooms \cup {None, Absent}
      <4> SUFFICES ASSUME NEW i \in DOMAIN wire PROVE wire[i].room \in Rooms \cup {None, Absent}
        OBVIOUS
      <4>1. wire[i] \in Message
        BY DEF SensorTypeOK
      <4> QED
        BY <4>1 DEF Message
    <3>3. ~HasRoom(wire)
      BY <2>2, <3>1, <3>2 DEF HasRoom, LinkFits, RemovalSent
    <3> QED
      BY <2>2, <3>1, <3>3
  <2> QED
    BY <2>1, <2>2
<1>7. CASE Receive
  BY <1>7, NameTaken, RoomTaken, RemovalTaken, TailOf, MessageEffect
     DEF Receive, SensorTypeOK, LinkFits
<1>8. CASE ResyncAnswer
  BY <1>8, ListingsFit DEF ResyncAnswer
<1>9. CASE ResyncFails
  BY <1>9 DEF ResyncFails
<1>10. CASE Replay
  <2> DEFINE m == Head(replay)
  <2>1. m \in Message /\ m.name # Absent /\ m.room # None /\ replay # <<>>
        /\ (m.half = Secondary => m.room = Absent)
    BY <1>10, TailOf DEF Replay, SensorTypeOK, LinkFits
  <2>2. /\ model'.name = m.name
        /\ model'.room = IF m.room = Absent THEN model.room ELSE m.room
    BY <1>10, <2>1, MessageEffect DEF Replay
  <2>3. CASE m.half = Primary
    <3>1. /\ Listed(m.half).name = hub.name
          /\ Listed(m.half).room = IF hub.room = None THEN Absent ELSE hub.room
      BY <2>3 DEF Listed
    <3>2. nameOff' = {} => model'.name = hub.name
      BY <1>10, <2>2, <3>1 DEF Replay, Older
    <3>3. roomOff' = {} => m.room = IF hub.room = None THEN Absent ELSE hub.room
      BY <1>10, <3>1 DEF Replay, Older
    <3>4. roomOff' = {} => roomOff = {} /\ (hub.room # None => model'.room = hub.room)
      BY <1>10, <2>2, <3>3, BoundsAssumption DEF Replay, None, Absent, SensorTypeOK, Sensor
    <3> HIDE DEF m
    <3>5. roomOff' = {} /\ hub.room = None => model'.room = model.room
      BY <2>2, <3>3
    <3> QED
      BY <1>10, <3>2, <3>4, <3>5 DEF Replay
  <2>4. CASE m.half = Secondary
    <3>1. nameOff' # {}
      BY <1>10, <2>4 DEF Replay
    <3>2. model'.room = model.room
      BY <2>1, <2>2, <2>4
    <3>3. HasPrimary(replay) => HasPrimary(replay')
      BY <1>10, <2>1, <2>4, PrimaryTaken DEF Replay, SensorTypeOK, Primary, Secondary
    <3> HIDE DEF m
    <3> QED
      BY <1>10, <3>1, <3>2, <3>3 DEF Replay
  <2> QED
    BY <2>1, <2>3, <2>4 DEF Message
<1>11. CASE RunTask
  BY <1>11 DEF RunTask
<1>12. CASE Reload
  BY <1>12, ListingsFit DEF Reload
<1>13. CASE Sync
  BY <1>13 DEF Sync
<1>14. ASSUME NEW p \in Pollers, BeginPoll(p) PROVE ModelFollows'
  BY <1>14 DEF BeginPoll
<1>15. CASE Recheck
  BY <1>15 DEF Recheck
<1>16. CASE PollAnswer
  BY <1>16 DEF PollAnswer
<1>17. CASE PollFails
  BY <1>17 DEF PollFails
<1>18. CASE EndPoll
  BY <1>18 DEF EndPoll, SensorTypeOK
<1>19. CASE Expire
  BY <1>19 DEF Expire
<1>20. CASE UNCHANGED sensorVars
  BY <1>20 DEF sensorVars
<1> QED
  BY <1>1, <1>2, <1>3, <1>4, <1>5, <1>6, <1>7, <1>8, <1>9, <1>10, <1>11, <1>12, <1>13,
     <1>14, <1>15, <1>16, <1>17, <1>18, <1>19, <1>20 DEF SensorNext

\* The device takes what the tasks and the syncs bring.
LEMMA DeviceStep ==
  ASSUME SensorTypeOK, LinkFits, DeviceFollows, [SensorNext]_sensorVars
  PROVE  DeviceFollows'
<1> USE DEF DeviceFollows, hubVars, linkVars, resyncVars, pollVars, history
<1>1. CASE Rename
  BY <1>1 DEF Rename
<1>2. CASE Move
  BY <1>2 DEF Move
<1>3. CASE UserRename
  BY <1>3 DEF UserRename
<1>4. CASE UserMove
  BY <1>4 DEF UserMove
<1>5. CASE Open
  BY <1>5 DEF Open
<1>6. CASE Drop
  BY <1>6 DEF Drop
<1>7. CASE Receive
  BY <1>7, TailOf, MessageKeepsDevice DEF Receive, SensorTypeOK
<1>8. CASE ResyncAnswer
  BY <1>8 DEF ResyncAnswer
<1>9. CASE ResyncFails
  BY <1>9 DEF ResyncFails
<1>10. CASE Replay
  BY <1>10, TailOf, MessageKeepsDevice DEF Replay, SensorTypeOK
<1>11. CASE RunTask
  <2> DEFINE k == Head(tasks)
  <2>1. /\ tasks # <<>> /\ tasks' = Tail(tasks) /\ tasks \in Seq(Task) /\ k \in Task
        /\ synced /\ synced' /\ model' = model
    BY <1>11, TailOf DEF RunTask, SensorTypeOK
  <2>2. k.what \in {"name", "area"}
    BY <2>1 DEF Task
  <2>3. CASE k.what = "name"
    <3>1. dev' = Named(k.val, FALSE) /\ roomOff' = roomOff
      BY <1>11, <2>3 DEF RunTask
    <3>2. dev'.area = dev.area /\ (dev'.byUser \/ dev'.name = k.val)
      BY <3>1 DEF Named, SensorTypeOK
    <3>3. roomOff = {} => IF HasTask(tasks', "area") THEN LastTask(tasks', "area", model.room)
                          ELSE dev'.area = model.room
      BY <2>1, <2>3, <3>2, TaskTaken
    <3>4. ASSUME nameOff' = {}
          PROVE  IF HasTask(tasks', "name") THEN LastTask(tasks', "name", model.name)
                 ELSE dev'.byUser \/ dev'.name = model.name
      <4>1. CASE nameOff = {}
        <5>1. HasTask(tasks, "name") /\ LastTask(tasks, "name", model.name)
          BY <2>1, <2>3, <4>1, TailOf DEF HasTask
        <5>2. LastTask(tasks', "name", model.name)
          BY <2>1, <5>1, TaskTaken
        <5>3. ~HasTask(tasks', "name") => k.val = model.name
          BY <2>1, <2>3, <5>1, TaskTaken
        <5> HIDE DEF k
        <5> QED
          BY <3>2, <5>2, <5>3
      <4>2. CASE nameOff # {}
        <5>1. Settles("name") /\ hub.name = model.name /\ dev'.name = hub.name
          BY <1>11, <2>3, <3>4, <4>2 DEF RunTask
        <5>2. ~HasTask(tasks', "name")
          BY <2>1, <5>1, TailOf DEF HasTask, Settles
        <5> QED
          BY <5>1, <5>2
      <4> QED
        BY <4>1, <4>2
    <3> QED
      BY <2>1, <3>1, <3>3, <3>4
  <2>4. CASE k.what = "area"
    <3>1. dev' = [dev EXCEPT !.area = k.val] /\ nameOff' = nameOff
      BY <1>11, <2>4 DEF RunTask
    <3>2. dev'.area = k.val /\ dev'.byUser = dev.byUser /\ dev'.name = dev.name
      BY <3>1 DEF SensorTypeOK
    <3>3. nameOff = {} => IF HasTask(tasks', "name") THEN LastTask(tasks', "name", model.name)
                          ELSE dev'.byUser \/ dev'.name = model.name
      BY <2>1, <2>4, <3>2, TaskTaken
    <3>4. ASSUME roomOff' = {}
          PROVE  IF HasTask(tasks', "area") THEN LastTask(tasks', "area", model.room)
                 ELSE dev'.area = model.room
      <4>1. CASE roomOff = {}
        <5>1. HasTask(tasks, "area") /\ LastTask(tasks, "area", model.room)
          BY <2>1, <2>4, <4>1, TailOf DEF HasTask
        <5>2. LastTask(tasks', "area", model.room)
          BY <2>1, <5>1, TaskTaken
        <5>3. ~HasTask(tasks', "area") => k.val = model.room
          BY <2>1, <2>4, <5>1, TaskTaken
        <5> HIDE DEF k
        <5> QED
          BY <3>2, <5>2, <5>3
      <4>2. CASE roomOff # {}
        <5>1. Settles("area") /\ hub.room = model.room /\ dev'.area = hub.room
          BY <1>11, <2>4, <3>4, <4>2 DEF RunTask
        <5>2. ~HasTask(tasks', "area")
          BY <2>1, <5>1, TailOf DEF HasTask, Settles
        <5> QED
          BY <5>1, <5>2
      <4> QED
        BY <4>1, <4>2
    <3> QED
      BY <2>1, <3>1, <3>3, <3>4
  <2> QED
    BY <2>2, <2>3, <2>4
<1>12. CASE Reload
  BY <1>12, ListingsFit DEF Reload, HasTask
<1>13. CASE Sync
  BY <1>13 DEF Sync, Named
<1>14. ASSUME NEW p \in Pollers, BeginPoll(p) PROVE DeviceFollows'
  BY <1>14 DEF BeginPoll
<1>15. CASE Recheck
  BY <1>15 DEF Recheck
<1>16. CASE PollAnswer
  BY <1>16 DEF PollAnswer
<1>17. CASE PollFails
  BY <1>17 DEF PollFails
<1>18. CASE EndPoll
  BY <1>18 DEF EndPoll
<1>19. CASE Expire
  BY <1>19 DEF Expire
<1>20. CASE UNCHANGED sensorVars
  BY <1>20 DEF sensorVars
<1> QED
  BY <1>1, <1>2, <1>3, <1>4, <1>5, <1>6, <1>7, <1>8, <1>9, <1>10, <1>11, <1>12, <1>13,
     <1>14, <1>15, <1>16, <1>17, <1>18, <1>19, <1>20 DEF SensorNext

\* The invariant holds when the devices have just been made.
LEMMA SensorInitHolds ==
  ASSUME SensorInit PROVE SensorInv
<1>1. SensorTypeOK
  <2>1. hub \in Sensor /\ hub.name \in Names \cup {Generic} /\ hub.room \in Rooms \cup {None}
    BY DEF SensorInit, Sensor
  <2>2. dev \in [name : Names \cup {Generic}, byUser : BOOLEAN, area : Rooms \cup {None}]
    BY <2>1 DEF SensorInit
  <2>3. /\ wire \in Seq(Message) /\ replay \in Seq(Message)
        /\ tasks \in Seq(Task) /\ lock \in Seq(Pollers)
    BY DEF SensorInit
  <2>4. edits \in 0 .. MaxEdits /\ drops \in 0 .. MaxDrops /\ reloads \in 0 .. MaxReloads
    BY BoundsAssumption DEF SensorInit
  <2>5. model \in Sensor /\ snap \in Sensor
    BY <2>1 DEF SensorInit
  <2> QED
    BY <2>1, <2>2, <2>3, <2>4, <2>5 DEF SensorInit, SensorTypeOK
<1>2. OneRequest
  BY DEF SensorInit, OneRequest
<1>3. LinkFits
  BY DEF SensorInit, LinkFits, LastName, LastRoom, RemovalSent
<1>4. ModelFollows
  BY DEF SensorInit, ModelFollows
<1>5. DeviceFollows
  BY DEF SensorInit, DeviceFollows, HasTask
<1> QED
  BY <1>1, <1>2, <1>3, <1>4, <1>5 DEF SensorInv

\* And every step keeps it.
LEMMA StepHolds ==
  ASSUME SensorInv, [SensorNext]_sensorVars PROVE SensorInv'
BY SensorTypeStep, RequestStep, LinkStep, ModelStep, DeviceStep DEF SensorInv

\* At rest there is no message and no task left to bring anything.
LEMMA Follows ==
  ASSUME SensorInv PROVE RegistryFollows
<1> SUFFICES ASSUME AtRest
             PROVE  /\ dev.byUser \/ dev.name = hub.name \/ nameOff # {}
                    /\ dev.area = hub.room \/ roomOff # {}
  BY DEF RegistryFollows
<1>1. ~OnItsWay /\ ~HasName(wire) /\ ~HasRoom(wire) /\ synced
  BY DEF AtRest, OnItsWay, HasPrimary, HasName, HasRoom
<1>2. ~HasTask(tasks, "name") /\ ~HasTask(tasks, "area")
  BY DEF AtRest, HasTask
<1> QED
  BY <1>1, <1>2 DEF SensorInv, ModelFollows, DeviceFollows

LEMMA SensorInvHolds == SensorSpec => []SensorInv
<1>1. SensorInit => SensorInv
  BY SensorInitHolds
<1>2. SensorInv /\ [SensorNext]_sensorVars => SensorInv'
  BY StepHolds
<1> QED
  BY <1>1, <1>2, PTL DEF SensorSpec

\* The name, the area and every queue of an environment sensor have their types.
THEOREM SensorTypeCorrect == SensorSpec => []SensorTypeOK
<1>1. SensorInv => SensorTypeOK
  BY DEF SensorInv
<1> QED
  BY <1>1, SensorInvHolds, PTL

\* However many entities poll, only the holder of _update_lock asks the hub, and never while
\* an answer is fresh.
THEOREM OneAsks == SensorSpec => []OneRequest
<1>1. SensorInv => OneRequest
  BY DEF SensorInv
<1> QED
  BY <1>1, SensorInvHolds, PTL

\* With a connection and nothing under way the device in the registry has the hub's name and
\* room, but for what the owner changed in Home Assistant and for the reasons noted.
THEOREM RegistryIsTold == SensorSpec => []RegistryFollows
<1>1. SensorInv => RegistryFollows
  BY Follows
<1> QED
  BY <1>1, SensorInvHolds, PTL
=============================================================================
