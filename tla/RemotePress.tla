----------------------------- MODULE RemotePress -----------------------------
(***************************************************************************)
(* Presses of remote controls (hub_event_listener.py): the hub reports a   *)
(* press as a remotePressEvent, as sceneUpdated messages, or as both, and  *)
(* _fire_controller_event fires at most one dirigera_platform_event for    *)
(* it.  A key stands for unique_key: one pattern of one button of one      *)
(* remote.  All the scene triggers of the model belong to one scene.       *)
(***************************************************************************)
EXTENDS Integers, Sequences, FiniteSets

CONSTANTS
  Keys,          \* unique_key: remote, button and click pattern
  RemoteOf,      \* the HA device a key belongs to
  Registered,    \* remotes with an entity in the controller registry
  PressSenders,  \* remotes that send remotePressEvent
  SceneKeys,     \* keys that trigger the scene
  FreshScenes,   \* whether none of the scene's triggers may have fired yet
  Debounce,      \* DEBOUNCE_DELTA
  Stale,         \* STALE_TRIGGER_DELTA
  MaxHold,       \* bounds: how long a press is held,
  MaxTime,       \* the clock,
  MaxPresses,    \* the presses
  MaxQueue       \* and the messages on their way

ASSUME KeysAssumption == SceneKeys \subseteq Keys /\ RemoteOf \in [Keys -> STRING]
ASSUME TimesAssumption == Debounce \in Nat \ {0} /\ Stale \in Nat

VARIABLES
  now,            \* the hub's clock
  presses,        \* history: every press, when recognised and when released
  toScene,        \* presses the scene has not been updated for
  toPress,        \* presses whose remotePressEvent has not been sent
  triggeredAt,    \* hub: per trigger of the scene, when it last fired
  lastTriggered,  \* hub: when the scene last ran
  queue,          \* messages on the WebSocket, in order
  lastFired,      \* controller_trigger_last_time_map
  pressRemotes,   \* remotes_with_press_events
  fired,          \* history: per key, the pressed_at of every event fired, in order
  lost            \* history: messages were lost

hubVars == <<presses, toScene, toPress, triggeredAt, lastTriggered>>
vars == <<now, hubVars, queue, lastFired, pressRemotes, fired, lost>>

Never == 0
Start == Stale + 2          \* so that a trigger of time 1 is history from the outset
Cold(k) == RemoteOf[k] \notin pressRemotes

Press == [key : Keys, at : Nat, rel : Nat, cold : BOOLEAN]
Message == [kind : {"press"}, time : Nat, key : Keys] \cup
           [kind : {"scene"}, time : Nat, last : Nat, trig : [SceneKeys -> Nat]]

TypeOK ==
  /\ now \in Nat /\ lastTriggered \in Nat
  /\ presses \subseteq Press /\ toScene \subseteq presses /\ toPress \subseteq presses
  /\ triggeredAt \in [SceneKeys -> Nat]
  /\ queue \in Seq(Message)
  /\ lastFired \in [Keys -> Nat]
  /\ pressRemotes \subseteq PressSenders
  /\ fired \in [Keys -> Seq(Nat)]
  /\ lost \in BOOLEAN

Init ==
  /\ now = Start
  /\ presses = {} /\ toScene = {} /\ toPress = {}
  /\ triggeredAt \in [SceneKeys -> {Never, 1}]
  /\ FreshScenes \/ \E k \in SceneKeys : triggeredAt[k] # Never
  /\ lastTriggered = IF \E k \in SceneKeys : triggeredAt[k] # Never THEN 1 ELSE Never
  /\ queue = <<>>
  /\ lastFired = [k \in Keys |-> Never] /\ pressRemotes = {}
  /\ fired = [k \in Keys |-> <<>>] /\ lost = FALSE

-----------------------------------------------------------------------------
(* The remotes and the hub.                                                *)

Send(messages) ==
  /\ Len(queue) + Len(messages) <= MaxQueue
  /\ queue' = queue \o messages
SceneMessage(trig, last) == [kind |-> "scene", time |-> now, last |-> last, trig |-> trig]

\* A key is pressed, and held for a while; the same key is not pressed again before that.
PressKey(k) ==
  /\ Cardinality(presses) < MaxPresses
  /\ \A p \in presses : p.key = k => p.rel < now
  /\ \E hold \in 0 .. MaxHold :
       LET p == [key |-> k, at |-> now, rel |-> now + hold, cold |-> Cold(k)] IN
       /\ now + hold <= MaxTime
       /\ presses' = presses \cup {p}
       /\ toScene' = IF k \in SceneKeys THEN toScene \cup {p} ELSE toScene
       /\ toPress' = IF RemoteOf[k] \in PressSenders THEN toPress \cup {p} ELSE toPress
  /\ UNCHANGED <<now, triggeredAt, lastTriggered, queue, lastFired, pressRemotes, fired, lost>>

\* The press is recognised: the hub runs the scene and sends sceneUpdated twice, first
\* with the previous lastTriggered.
UpdateScene(p) ==
  /\ toScene' = toScene \ {p}
  /\ triggeredAt' = [triggeredAt EXCEPT ![p.key] = now]
  /\ lastTriggered' = now
  /\ Send(<<SceneMessage(triggeredAt', lastTriggered), SceneMessage(triggeredAt', now)>>)
  /\ UNCHANGED <<now, presses, toPress, lastFired, pressRemotes, fired, lost>>

\* The button is released: remotePressEvent.
Release(p) ==
  /\ p.rel = now
  /\ toPress' = toPress \ {p}
  /\ Send(<<[kind |-> "press", time |-> now, key |-> p.key]>>)
  /\ UNCHANGED <<now, presses, toScene, triggeredAt, lastTriggered, lastFired,
                 pressRemotes, fired, lost>>

\* The scene is edited, or run from the app: no key is involved.
TouchScene ==
  /\ lastTriggered' \in {lastTriggered, now}
  /\ Send(<<SceneMessage(triggeredAt, lastTriggered')>>)
  /\ UNCHANGED <<now, presses, toScene, toPress, triggeredAt, lastFired, pressRemotes,
                 fired, lost>>

\* The hub sends what is due before its clock moves on.
Tick ==
  /\ now < MaxTime
  /\ toScene = {} /\ \A p \in toPress : p.rel > now
  /\ now' = now + 1
  /\ UNCHANGED <<hubVars, queue, lastFired, pressRemotes, fired, lost>>

\* The connection is lost and with it everything on its way.
Disconnect ==
  /\ queue # <<>>
  /\ queue' = <<>> /\ lost' = TRUE
  /\ UNCHANGED <<now, hubVars, lastFired, pressRemotes, fired>>

\* Home Assistant restarts, which takes longer than both windows.  The two globals are
\* lost; a reload of the integration keeps them.
Restart ==
  /\ toScene = {} /\ toPress = {}
  /\ now' = now + Stale + Debounce /\ now' <= MaxTime
  /\ queue' = <<>> /\ lost' = TRUE
  /\ lastFired' = [k \in Keys |-> Never] /\ pressRemotes' = {}
  /\ UNCHANGED <<hubVars, fired>>

-----------------------------------------------------------------------------
(* The integration.                                                        *)

\* Mutants of Fires: no debounce; the scene path does not stand down; a press exactly one
\* window after the last one is dropped.
FiresAlways(k, at, fromScene) ==
  /\ RemoteOf[k] \in Registered
  /\ ~(fromScene /\ RemoteOf[k] \in pressRemotes)
FiresFromScene(k, at, fromScene) ==
  /\ RemoteOf[k] \in Registered
  /\ lastFired[k] = Never \/ at - lastFired[k] >= Debounce
FiresLate(k, at, fromScene) ==
  /\ RemoteOf[k] \in Registered
  /\ ~(fromScene /\ RemoteOf[k] \in pressRemotes)
  /\ lastFired[k] = Never \/ at - lastFired[k] > Debounce

\* _fire_controller_event: the remote is known, the scene path stands down for a remote
\* that sends remotePressEvent, and the press is no duplicate (or older) report.
Fires(k, at, fromScene) ==
  /\ RemoteOf[k] \in Registered
  /\ ~(fromScene /\ RemoteOf[k] \in pressRemotes)
  /\ lastFired[k] = Never \/ at - lastFired[k] >= Debounce

\* The events fired for the keys ks, pressed at at[k].  Each is a call of bus.fire of its own,
\* so one of the same key and time counts again.
Fire(ks, at) ==
  /\ lastFired' = [k \in Keys |-> IF k \in ks THEN at[k] ELSE lastFired[k]]
  /\ fired' = [k \in Keys |-> IF k \in ks THEN Append(fired[k], at[k]) ELSE fired[k]]

\* Mutant of PressesIn: the window for history is not applied.
PressesInAll(m) ==
  LET timed == \E k \in SceneKeys : m.trig[k] # Never
      raw == [k \in SceneKeys |-> IF timed THEN m.trig[k] ELSE m.last]
      current == {k \in SceneKeys : timed => m.trig[k] # Never}
  IN [k \in current |-> IF raw[k] = Never THEN m.time ELSE raw[k]]

\* parse_scene_update: the triggers that count as pressed, with their time.  Once some
\* trigger has a time, one without never fired; else the scene's own time stands in for
\* it, and failing that the message's.  Older than Stale is an earlier press.
PressesIn(m) ==
  LET timed == \E k \in SceneKeys : m.trig[k] # Never
      raw == [k \in SceneKeys |-> IF timed THEN m.trig[k] ELSE m.last]
      current == {k \in SceneKeys :
                    /\ timed => m.trig[k] # Never
                    /\ raw[k] = Never \/ m.time - raw[k] <= Stale}
  IN [k \in current |-> IF raw[k] = Never THEN m.time ELSE raw[k]]

\* on_message: a sceneUpdated.  Every trigger has a key of its own, so their order does
\* not matter.
ReceiveScene ==
  /\ queue # <<>> /\ Head(queue).kind = "scene"
  /\ queue' = Tail(queue)
  /\ LET at == PressesIn(Head(queue))
     IN Fire({k \in DOMAIN at : Fires(k, at[k], TRUE)}, at)
  /\ UNCHANGED <<now, hubVars, pressRemotes, lost>>

\* on_message: a remotePressEvent, which also marks the remote.
ReceivePress ==
  /\ queue # <<>> /\ Head(queue).kind = "press"
  /\ queue' = Tail(queue)
  /\ LET k == Head(queue).key
     IN /\ pressRemotes' = IF RemoteOf[k] \in Registered
                           THEN pressRemotes \cup {RemoteOf[k]} ELSE pressRemotes
        /\ Fire({j \in {k} : Fires(j, Head(queue).time, FALSE)},
                [j \in {k} |-> Head(queue).time])
  /\ UNCHANGED <<now, hubVars, lost>>

Next ==
  \/ \E k \in Keys : PressKey(k)
  \/ \E p \in toScene : UpdateScene(p)
  \/ \E p \in toPress : Release(p)
  \/ TouchScene \/ Tick \/ Disconnect \/ Restart
  \/ ReceiveScene \/ ReceivePress

Spec == Init /\ [][Next]_vars

-----------------------------------------------------------------------------
(* Properties.                                                             *)

\* The events that report the press p: each call of bus.fire counts, so one index per call.
Reports(p) == {i \in DOMAIN fired[p.key] : fired[p.key][i] \in {p.at, p.rel}}

\* Every event stands for a press of exactly that key: "Only a trigger that fired for this
\* message is a press" (parse_scene_update).  History of other remotes never fires.
NoGhostPress ==
  \A k \in Keys : \A i \in DOMAIN fired[k] : \E p \in presses : p.key = k /\ i \in Reports(p)

\* "Fire one dirigera_platform_event per physical press" (_fire_controller_event): however
\* often the hub reports a press, over the scene, over remotePressEvent or both, with the
\* same time or another, and in whatever order.  The exception is a long press that is the
\* first one a remote reports after a restart: nothing merges its two reports, but neither
\* fires twice.
OncePerPress ==
  \A p \in presses :
    Cardinality(Reports(p)) <= IF p.cold /\ p.rel - p.at >= Debounce THEN 2 ELSE 1

\* ... and at least one, unless a message was lost, the remote is unknown, or the key was
\* let go less than Debounce before.
Isolated(p) == \A q \in presses : q.key = p.key /\ q.at < p.at => p.at - q.rel >= Debounce
NoMissedPress ==
  queue = <<>> /\ ~lost =>
    \A p \in presses \ (toScene \cup toPress) :
      /\ p.key \in SceneKeys \/ RemoteOf[p.key] \in PressSenders
      /\ RemoteOf[p.key] \in Registered
      /\ Isolated(p)
      => Reports(p) # {}

\* Each event of a key is at least Debounce later than every earlier one of that key,
\* whichever path reported them and across restarts: "the map never moves back in time", and
\* a duplicate with the same time is none later.
EventsSpaced ==
  \A k \in Keys : \A i, j \in DOMAIN fired[k] :
    i < j => fired[k][j] - fired[k][i] >= Debounce
=============================================================================
