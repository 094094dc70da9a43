---------------------------- MODULE PushThrottle ----------------------------
(***************************************************************************)
(* The push throttle of one Home Assistant entity (base_classes.py,        *)
(* ikea_base_device._push_throttled, _arm_trailing_flush and               *)
(* _run_trailing_flush).  Every hub event updates the device cache and     *)
(* then notifies the entity; inside the throttle window the notification   *)
(* is coalesced into one trailing flush.                                   *)
(*                                                                         *)
(* The fan-out runs on whatever thread handled the event: the WebSocket    *)
(* thread, or the event loop while it replays a resync.  The entity's      *)
(* fields are shared without a lock, so each read and each write of them   *)
(* is a step of its own.                                                   *)
(*                                                                         *)
(* Time is relative, so that it needs no bound: elapsed counts the ticks   *)
(* since _ha_last_push_at and stops at Throttle, the only value the code   *)
(* compares it with, and a timer holds the ticks it has left.              *)
(***************************************************************************)
EXTENDS Integers, FiniteSets

CONSTANTS
  Handlers,  \* threads that handle hub events; Loop is one while it replays a resync
  Loop,      \* the event loop's thread
  Values,    \* the readings a device can report
  Handles,   \* flush timers that can be outstanding at once (bounds the model)
  Throttle,  \* _ha_push_throttle_seconds, in ticks
  MinDelay   \* the floor of call_later's delay, in ticks

ASSUME TimesAssumption == Throttle \in Nat /\ MinDelay \in Nat \ {0}

VARIABLES
  cache,     \* the device's data, already updated when the fan-out starts
  ha,        \* the value Home Assistant shows
  hass,      \* listener.hass: not set yet, set, or reset by an aborted add
  loopOpen,  \* the event loop is running
  queued,    \* a state write waits on the loop (from call_soon_threadsafe)
  elapsed,   \* ticks since _ha_last_push_at, at most Throttle
  pending,   \* _ha_flush_pending
  flush,     \* per handle: a requested call_later or a running timer
  pc,        \* where each thread is in the fan-out
  mark       \* per thread: the delay to arm with, or the age of its `now`

vars == <<cache, ha, hass, loopOpen, queued, elapsed, pending, flush, pc, mark>>

AtMostThrottle(n) == IF n < Throttle THEN n ELSE Throttle
AtLeastMinDelay(n) == IF n > MinDelay THEN n ELSE MinDelay

Threads == Handlers \cup {Loop}
Ticks == 0 .. (Throttle + MinDelay)
Free == [st |-> "free", left |-> 0]

TypeOK ==
  /\ cache \in Values /\ ha \in Values
  /\ hass \in {"unset", "set", "aborted"}
  /\ loopOpen \in BOOLEAN /\ queued \in BOOLEAN /\ pending \in BOOLEAN
  /\ elapsed \in 0 .. Throttle
  /\ flush \in [Handles -> [st : {"free", "called", "timer"}, left : Ticks]]
  /\ pc \in [Threads -> {"idle", "check", "grant", "arm", "set", "flush"}]
  /\ mark \in [Threads -> 0 .. Throttle]

Init ==
  /\ cache \in Values /\ ha = cache
  /\ hass = "unset" /\ loopOpen = TRUE
  /\ queued = FALSE /\ pending = FALSE
  /\ elapsed = Throttle
  /\ flush = [h \in Handles |-> Free]
  /\ pc = [t \in Threads |-> "idle"]
  /\ mark = [t \in Threads |-> 0]

Goto(t, label) == pc' = [pc EXCEPT ![t] = label]
LoopIdle == loopOpen /\ pc[Loop] = "idle"

-----------------------------------------------------------------------------
(* Home Assistant.                                                         *)

\* The entity is added: hass is set and its state is written for the first time.
Attach ==
  /\ hass = "unset" /\ LoopIdle
  /\ hass' = "set" /\ ha' = cache
  /\ UNCHANGED <<cache, loopOpen, queued, elapsed, pending, flush, pc, mark>>

\* Adding it is given up (the entity is disabled): hass is None again.
Abort ==
  /\ hass = "set" /\ LoopIdle
  /\ hass' = "aborted"
  /\ UNCHANGED <<cache, ha, loopOpen, queued, elapsed, pending, flush, pc, mark>>

\* Shutdown: nothing runs on the loop any more.
CloseLoop ==
  /\ LoopIdle
  /\ loopOpen' = FALSE
  /\ UNCHANGED <<cache, ha, hass, queued, elapsed, pending, flush, pc, mark>>

\* The loop runs the state write another thread asked for.
RunWrite ==
  /\ LoopIdle /\ queued
  /\ queued' = FALSE
  /\ ha' = IF hass = "set" THEN cache ELSE ha
  /\ UNCHANGED <<cache, hass, loopOpen, elapsed, pending, flush, pc, mark>>

\* Time passes for the window, the running timers and a captured `now`.
Tick ==
  /\ elapsed' = AtMostThrottle(elapsed + 1)
  /\ flush' = [h \in Handles |->
                 IF flush[h].st = "timer" /\ flush[h].left > 0
                 THEN [flush[h] EXCEPT !.left = @ - 1] ELSE flush[h]]
  /\ mark' = [t \in Threads |-> IF pc[t] = "grant" THEN AtMostThrottle(mark[t] + 1)
                                                   ELSE mark[t]]
  /\ UNCHANGED <<cache, ha, hass, loopOpen, queued, pending, pc>>

-----------------------------------------------------------------------------
(* The fan-out of a hub event.                                             *)

\* on_message has stored the new value; schedule_update_ha_state starts unless the loop
\* is closed.  The bound on Handles limits the events in progress.
Event(t) ==
  /\ pc[t] = "idle" /\ loopOpen
  /\ Cardinality({u \in Threads : pc[u] \in {"check", "arm", "set"}})
       < Cardinality({h \in Handles : flush[h] = Free})
  /\ \E v \in Values \ {cache} : cache' = v
  /\ Goto(t, "check")
  /\ UNCHANGED <<ha, hass, loopOpen, queued, elapsed, pending, flush, mark>>

\* Mutant of Check: a throttled push is dropped, not coalesced.
CheckDrops(t) ==
  /\ pc[t] = "check"
  /\ Goto(t, IF hass # "set" \/ elapsed < Throttle THEN "idle" ELSE "grant")
  /\ mark' = [mark EXCEPT ![t] = 0]
  /\ UNCHANGED <<cache, ha, hass, loopOpen, queued, elapsed, pending, flush>>

\* _push_throttled: skip a listener that HA has not added, else compare the clock.
Check(t) ==
  /\ pc[t] = "check"
  /\ IF hass # "set"
     THEN Goto(t, "idle") /\ UNCHANGED mark
     ELSE IF elapsed < Throttle
     THEN Goto(t, "arm") /\ mark' = [mark EXCEPT ![t] = Throttle - elapsed]
     ELSE Goto(t, "grant") /\ mark' = [mark EXCEPT ![t] = 0]
  /\ UNCHANGED <<cache, ha, hass, loopOpen, queued, elapsed, pending, flush>>

\* The window was open: stamp it and write, at once on the loop, else through it.
Grant(t) ==
  /\ pc[t] = "grant"
  /\ elapsed' = mark[t]
  /\ ha' = IF t = Loop /\ hass = "set" THEN cache ELSE ha
  /\ queued' = (queued \/ (t # Loop /\ hass = "set" /\ loopOpen))
  /\ Goto(t, "idle") /\ mark' = [mark EXCEPT ![t] = 0]
  /\ UNCHANGED <<cache, hass, loopOpen, pending, flush>>

\* _arm_trailing_flush: one pending flush is enough ...
ArmCheck(t) ==
  /\ pc[t] = "arm"
  /\ Goto(t, IF pending THEN "idle" ELSE "set")
  /\ mark' = IF pending THEN [mark EXCEPT ![t] = 0] ELSE mark
  /\ UNCHANGED <<cache, ha, hass, loopOpen, queued, elapsed, pending, flush>>

\* ... and otherwise ask the loop for a timer.  A closed loop raises RuntimeError,
\* which clears the flag; hass = None raises AttributeError, which does not.
ArmSet(t) ==
  /\ pc[t] = "set"
  /\ IF hass = "set" /\ loopOpen
     THEN \E h \in Handles :
            /\ flush[h] = Free
            /\ flush' = [flush EXCEPT ![h] =
                           [st |-> "called", left |-> AtLeastMinDelay(mark[t])]]
     ELSE UNCHANGED flush
  /\ pending' = (hass # "set" \/ loopOpen)
  /\ Goto(t, "idle") /\ mark' = [mark EXCEPT ![t] = 0]
  /\ UNCHANGED <<cache, ha, hass, loopOpen, queued, elapsed>>

\* _arm, on the loop: call_later.
RunArm(h) ==
  /\ LoopIdle /\ flush[h].st = "called"
  /\ flush' = [flush EXCEPT ![h].st = "timer"]
  /\ UNCHANGED <<cache, ha, hass, loopOpen, queued, elapsed, pending, pc, mark>>

\* Mutant of FlushBegin: the flag stays set after the flush has fired.
FlushBeginKeepsFlag(h) ==
  /\ LoopIdle /\ flush[h].st = "timer" /\ flush[h].left = 0
  /\ flush' = [flush EXCEPT ![h] = Free]
  /\ Goto(Loop, IF hass = "set" THEN "flush" ELSE "idle")
  /\ UNCHANGED <<cache, ha, hass, loopOpen, queued, elapsed, pending, mark>>

\* _run_trailing_flush fires: the flag is cleared first ...
FlushBegin(h) ==
  /\ LoopIdle /\ flush[h].st = "timer" /\ flush[h].left = 0
  /\ flush' = [flush EXCEPT ![h] = Free]
  /\ pending' = FALSE
  /\ Goto(Loop, IF hass = "set" THEN "flush" ELSE "idle")
  /\ UNCHANGED <<cache, ha, hass, loopOpen, queued, elapsed, mark>>

\* Mutant of FlushWrite: the flush does not stamp the window.
FlushWriteUnstamped ==
  /\ pc[Loop] = "flush"
  /\ ha' = cache
  /\ Goto(Loop, "idle")
  /\ UNCHANGED <<cache, hass, loopOpen, queued, elapsed, pending, flush, mark>>

\* ... then the window is re-opened and whatever the cache holds now is written.
FlushWrite ==
  /\ pc[Loop] = "flush"
  /\ elapsed' = 0 /\ ha' = cache
  /\ Goto(Loop, "idle")
  /\ UNCHANGED <<cache, hass, loopOpen, queued, pending, flush, mark>>

Step(t) == Check(t) \/ Grant(t) \/ ArmCheck(t) \/ ArmSet(t)
FlushStep(h) == RunArm(h) \/ FlushBegin(h)

Next ==
  \/ Attach \/ Abort \/ CloseLoop \/ RunWrite \/ Tick \/ FlushWrite
  \/ \E t \in Handlers : Event(t) \/ Step(t)
  \/ \E h \in Handles : FlushStep(h)

\* A thread inside a fan-out finishes it, time passes, and the event loop runs a callback
\* of each kind that stays ready: its queue is FIFO, so the callback is not overtaken
\* for ever by later ones although each of them disables it while it runs.
Fairness ==
  /\ \A t \in Handlers : WF_vars(Step(t))
  /\ WF_vars(Tick) /\ WF_vars(FlushWrite)
  /\ SF_vars(RunWrite)
  /\ SF_vars(\E h \in Handles : RunArm(h)) /\ SF_vars(\E h \in Handles : FlushBegin(h))

Spec == Init /\ [][Next]_vars
FairSpec == Spec /\ Fairness

-----------------------------------------------------------------------------
(* Properties.                                                             *)

Shown == hass = "set" /\ loopOpen
FlushOutstanding == \E h \in Handles : flush[h] # Free
FanOutUnderway == \E t \in Threads : pc[t] # "idle"

\* The flag never outlives what it stands for: while it is set some flush is requested
\* or running, or it would swallow every later push (_ha_flush_pending).
PendingMeansFlush == Shown /\ pending => FlushOutstanding

\* The last value before a quiet period is never lost (issue #44): whenever HA shows
\* something else than the cache, a fan-out, a queued write or a flush is still to come.
NoLostValue ==
  Shown /\ ha # cache => FanOutUnderway \/ queued \/ FlushOutstanding

\* The throttle is a write-behind cache: each write it lets through shows the reading of
\* that moment, none reaches an entity that is not shown or a loop that is closed, and a
\* shown entity catches up with its device (issue #44).
Promise == INSTANCE WriteBehind WITH value <- cache, shown <- ha,
                                     client <- hass, running <- loopOpen
KeepsPromise == Promise!Spec
KeepsPromiseSafely == Promise!SafeSpec
=============================================================================
