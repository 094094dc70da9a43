---------------------------- MODULE LightCommands ----------------------------
(***************************************************************************)
(* A bulb with white and colour, and a device set whose first bulb it is   *)
(* (light.py).  Services called on either, on the event loop, send their   *)
(* PATCHes from the executor; the hub's events of the bulb come in on the  *)
(* listener's thread, which may leave out the state push of an echo        *)
(* (_ignore_update).  "hub" is the bulb, "held" the model of it in Home    *)
(* Assistant, "shown" the states Home Assistant has written.               *)
(***************************************************************************)
EXTENDS Integers, Sequences

CONSTANTS
  Calls,       \* bound: the service calls ever made
  Requests,    \* bound: what they may ask for, each the PATCHes it takes
  MaxTouches,  \* bound: changes made from the app or a remote
  MaxWire      \* bound: events sent and not received yet

\* A brightness stands for all that round to its hub level (brightness_to_hub_level).
Values == [isOn       |-> {"on", "off"},
           lightLevel |-> {"dim", "bright"},
           colorMode  |-> {"temperature", "color"}]
Attrs == DOMAIN Values
Light == [isOn : Values.isOn, lightLevel : Values.lightLevel, colorMode : Values.colorMode]
Patch == UNION {[attr : {a}, val : Values[a]] : a \in Attrs}
Entities == {"bulb", "set"}

VARIABLES
  hub,      \* the bulb
  wire,     \* its events not received yet
  got,      \* the attribute of the event on_message is handling, or "none"
  held,     \* the attributes of _json_data, and _color_mode
  obj,      \* which _json_data it is: async_update replaces it
  ignore,   \* _ignore_update
  call,     \* the service calls
  pending,  \* the entities with a state write scheduled on the event loop
  shown,    \* the state of each entity in Home Assistant
  touches,  \* changes made from the app so far
  late,     \* history: attributes a call wrote with a value the hub did not have
  unpushed  \* history: why held may have changed since the last write of the bulb's state

history == <<late, unpushed>>
lightVars == <<hub, wire, got, held, obj, ignore, call, pending, shown, touches, history>>

\* What a service call may send, in order: turn_off, or turn_on with brightness and colour.
TurnOn == <<[attr |-> "isOn", val |-> "on"]>>
TurnOff == <<[attr |-> "isOn", val |-> "off"]>>
Optional(a) == {<<>>} \cup {<<[attr |-> a, val |-> v]>> : v \in Values[a]}
ASSUME RequestsAssumption ==
  /\ MaxTouches \in Nat /\ MaxWire \in Nat \ {0, 1}
  /\ Requests \subseteq {TurnOff} \cup
       {TurnOn \o l \o c : l \in Optional("lightLevel"), c \in Optional("colorMode")}

Idle == [to |-> "none", todo |-> <<>>, at |-> "idle", obj |-> 0, snap |-> <<>>]
Done(c) == call' = [call EXCEPT ![c] = [Idle EXCEPT !.at = "done", !.to = call[c].to]]

LightTypeOK ==
  /\ hub \in Light /\ held \in Light
  /\ wire \in Seq(Patch) /\ got \in Attrs \cup {"none"}
  /\ obj \in Nat /\ ignore \in BOOLEAN
  /\ call \in [Calls -> [to : {"none", "bulb", "set", "update"}, todo : Seq(Patch),
                         at : {"idle", "ask", "sent", "back", "done"}, obj : 0 .. obj,
                         snap : Light \cup {<<>>}]]
  /\ pending \subseteq Entities /\ shown \in [Entities -> Light]
  /\ touches \in 0 .. MaxTouches
  /\ late \subseteq Attrs /\ unpushed \subseteq {"skip", "fail"}

LightInit ==
  /\ hub = [isOn |-> "off", lightLevel |-> "dim", colorMode |-> "color"]
  /\ held = hub /\ shown = [e \in Entities |-> hub]
  /\ wire = <<>> /\ got = "none"
  /\ obj = 0 /\ ignore = FALSE /\ call = [c \in Calls |-> Idle] /\ pending = {}
  /\ touches = 0 /\ late = {} /\ unpushed = {}

-----------------------------------------------------------------------------
(* The hub.                                                                *)

\* The events of a change of p.attr to p.val: none when nothing changes, and for what is
\* not isOn possibly one with the old value first ("a random update", light.py).
Echoes(p) ==
  {<<p>>} \cup (IF hub[p.attr] = p.val THEN {<<>>} ELSE {})
          \cup (IF p.attr = "isOn" THEN {} ELSE {<<[p EXCEPT !.val = hub[p.attr]], p>>})

Apply(p) ==
  /\ hub' = [hub EXCEPT ![p.attr] = p.val]
  /\ \E echo \in Echoes(p) : Len(wire \o echo) <= MaxWire /\ wire' = wire \o echo

\* Someone uses the app or a remote.
Touch ==
  /\ touches < MaxTouches /\ touches' = touches + 1 /\ Len(wire) < MaxWire
  /\ \E p \in Patch :
       /\ hub[p.attr] # p.val
       /\ hub' = [hub EXCEPT ![p.attr] = p.val] /\ wire' = Append(wire, p)
  /\ UNCHANGED <<got, held, obj, ignore, call, pending, shown, history>>

-----------------------------------------------------------------------------
(* The service calls: on the event loop up to each await, then the         *)
(* executor, then the event loop again.                                    *)

\* The next PATCH of c goes to the executor.  The bulb writes the brightness to its model
\* first (the light_level setter).
Submit(c, to, todo, model) ==
  /\ call' = [call EXCEPT ![c] = [to |-> to, todo |-> todo, at |-> "ask", obj |-> obj, snap |-> <<>>]]
  /\ held' = IF to = "bulb" /\ todo[1].attr = "lightLevel"
             THEN [model EXCEPT !.lightLevel = todo[1].val] ELSE model

ResetIgnoreUpdate == ignore' = FALSE

\* Mutant of Begin: a set's call marks its bulb, as it once did.
BeginMarks(c, to, todo) ==
  /\ call[c].at = "idle" /\ Submit(c, to, todo, held)
  /\ ignore' = (to = "set")
  /\ UNCHANGED <<hub, wire, got, obj, pending, shown, touches, history>>

\* async_turn_on and async_turn_off, of the bulb and of the set.
Begin(c, to, todo) ==
  /\ call[c].at = "idle" /\ Submit(c, to, todo, held)
  /\ ResetIgnoreUpdate
  /\ UNCHANGED <<hub, wire, got, obj, pending, shown, touches, history>>

\* The hub carries the PATCH out.
Answer(c) ==
  /\ call[c].at = "ask" /\ call[c].to \in Entities
  /\ Apply(call[c].todo[1])
  /\ call' = [call EXCEPT ![c].at = "sent"]
  /\ UNCHANGED <<got, held, obj, ignore, pending, shown, touches, history>>

\* The setters of the library (set_light, set_light_level, ...) write the value to the
\* model the PATCH was sent for; a set's patch_command writes nothing.
Write(c) ==
  /\ call[c].at = "sent"
  /\ call' = [call EXCEPT ![c].at = "back"]
  /\ LET p == call[c].todo[1] IN
       IF call[c].to = "bulb" /\ call[c].obj = obj /\ p.attr # "colorMode"
       THEN /\ held' = [held EXCEPT ![p.attr] = p.val]
            /\ late' = IF hub[p.attr] # p.val THEN late \cup {p.attr} ELSE late
       ELSE UNCHANGED <<held, late>>
  /\ UNCHANGED <<hub, wire, got, obj, ignore, pending, shown, touches, unpushed>>

\* The answer is an error, or does not come: the call ends there, nothing is pushed.
Fail(c) ==
  /\ call[c].at \in {"ask", "sent"}
  /\ Done(c)
  /\ IF call[c].to = "bulb"
     THEN late' = late \cup {call[c].todo[1].attr} /\ unpushed' = unpushed \cup {"fail"}
     ELSE UNCHANGED <<late, unpushed>>
  /\ UNCHANGED <<hub, wire, got, held, obj, ignore, pending, shown, touches>>

\* async_schedule_update_ha_state, which on the event loop writes the bulb's state at once.
Finish(own, model) ==
  IF own THEN shown' = [shown EXCEPT !["bulb"] = model] /\ unpushed' = {}
  ELSE UNCHANGED <<shown, unpushed>>

\* Back on the event loop: the bulb's echo is to be ignored, _color_mode follows, and the
\* next PATCH is sent; after the last one the bulb's state is written.
Resume(c) ==
  /\ call[c].at = "back" /\ call[c].to \in Entities
  /\ LET p == call[c].todo[1]
         rest == Tail(call[c].todo)
         own == call[c].to = "bulb"
         model == IF own /\ p.attr = "colorMode" THEN [held EXCEPT !.colorMode = p.val] ELSE held
     IN
       /\ ignore' = (ignore \/ (own /\ p.attr # "isOn"))
       /\ late' = IF own /\ p.attr = "colorMode" /\ hub.colorMode # p.val
                  THEN late \cup {"colorMode"} ELSE late
       /\ IF rest # <<>> THEN Submit(c, call[c].to, rest, model) /\ UNCHANGED <<shown, unpushed>>
          ELSE /\ held' = model /\ Done(c)
               /\ Finish(own, model)
  /\ UNCHANGED <<hub, wire, got, obj, pending, touches>>

\* async_update of the bulb, called through homeassistant.update_entity.
BeginUpdate(c) ==
  /\ call[c].at = "idle"
  /\ call' = [call EXCEPT ![c].at = "ask", ![c].to = "update"]
  /\ UNCHANGED <<hub, wire, got, held, obj, ignore, pending, shown, touches, history>>

Fetch(c) ==
  /\ call[c].at = "ask" /\ call[c].to = "update"
  /\ call' = [call EXCEPT ![c].at = "back", ![c].snap = hub]
  /\ UNCHANGED <<hub, wire, got, held, obj, ignore, pending, shown, touches, history>>

\* The model is replaced, set_state takes the colour mode from it, the state is written.
EndUpdate(c) ==
  /\ call[c].at = "back" /\ call[c].to = "update"
  /\ Done(c)
  /\ held' = call[c].snap /\ obj' = obj + 1
  /\ late' = late \cup {a \in Attrs : call[c].snap[a] # hub[a]}
  /\ shown' = [shown EXCEPT !["bulb"] = call[c].snap] /\ unpushed' = {}
  /\ UNCHANGED <<hub, wire, got, ignore, pending, touches>>

-----------------------------------------------------------------------------
(* The events.                                                             *)

\* Mutant of Receive: the echo to be ignored is left out of the model, too.
ReceiveIgnores ==
  /\ got = "none" /\ wire # <<>>
  /\ wire' = Tail(wire) /\ got' = Head(wire).attr
  /\ held' = IF ignore THEN held ELSE [held EXCEPT ![got'] = Head(wire).val]
  /\ late' = late \ {got'}
  /\ UNCHANGED <<hub, obj, ignore, call, pending, shown, touches, unpushed>>

\* on_message sets the attribute; the hub's colorMode decides _color_mode.
Receive ==
  /\ got = "none" /\ wire # <<>>
  /\ wire' = Tail(wire) /\ got' = Head(wire).attr
  /\ held' = [held EXCEPT ![got'] = Head(wire).val]
  /\ late' = late \ {got'}
  /\ UNCHANGED <<hub, obj, ignore, call, pending, shown, touches, unpushed>>

\* Mutant of Ignored: every event is taken for an echo, not just those without isOn.
IgnoredAll == ignore

\* should_ignore_update, unless the event has isOn.
Ignored == ignore /\ got # "isOn"

\* It then leaves the state push out, once, or schedules that of the bulb and of the set it
\* cascades to.
Push ==
  /\ got # "none" /\ got' = "none"
  /\ IF Ignored
     THEN /\ ResetIgnoreUpdate /\ unpushed' = unpushed \cup {"skip"}
          /\ UNCHANGED pending
     ELSE pending' = Entities /\ UNCHANGED <<ignore, unpushed>>
  /\ UNCHANGED <<hub, wire, held, obj, call, shown, touches, late>>

\* A scheduled write, on the event loop.  Both entities read the bulb's model.
WriteState(e) ==
  /\ e \in pending /\ pending' = pending \ {e}
  /\ shown' = [shown EXCEPT ![e] = held]
  /\ unpushed' = IF e = "bulb" THEN {} ELSE unpushed
  /\ UNCHANGED <<hub, wire, got, held, obj, ignore, call, touches, late>>

-----------------------------------------------------------------------------

Progress(c) ==
  Answer(c) \/ Write(c) \/ Fail(c) \/ Resume(c) \/ Fetch(c) \/ EndUpdate(c)
LightNext ==
  \/ Touch
  \/ \E c \in Calls :
       \/ \E to \in Entities, todo \in Requests : Begin(c, to, todo)
       \/ BeginUpdate(c) \/ Progress(c)
  \/ Receive \/ Push \/ \E e \in Entities : WriteState(e)

LightSpec == LightInit /\ [][LightNext]_lightVars

-----------------------------------------------------------------------------
(* Properties.                                                             *)

AtRest ==
  /\ wire = <<>> /\ got = "none" /\ pending = {}
  /\ \A c \in Calls : call[c].at \in {"idle", "done"}

\* Once nothing is under way the model is the bulb again, whatever the order in which the
\* library's writes, the setter's, _color_mode's, an update's and the echoes came, except
\* for what a call wrote when the hub had another value (async_turn_on, on_message).
HeldIsHub == AtRest => \A a \in Attrs : held[a] = hub[a] \/ a \in late

\* And Home Assistant shows the model for the bulb, unless the last push was taken for an
\* echo or a call failed: switching on and off is shown even then (on_message).
ShownIsHeld ==
  AtRest => \A a \in Attrs :
    shown["bulb"][a] = held[a] \/ "fail" \in unpushed \/ (a # "isOn" /\ "skip" \in unpushed)

\* "The set's state is its first bulb's, so the hub's echo for that bulb is the only way it
\* reaches HA" (ikea_bulb_device_set.async_turn_on): with calls on the set alone, failing
\* or not, both entities end up showing the bulb as it is.
SetCallsShown ==
  AtRest /\ (\A c \in Calls : call[c].to \in {"none", "set"}) =>
    \A e \in Entities : shown[e] = hub

\* "Only the redundant state push is skipped" (hub_event_listener.py): what is not pushed is
\* what Home Assistant already shows of the bulb.
OnlyRedundantSkipped ==
  AtRest /\ "fail" \notin unpushed => shown["bulb"] = held
=============================================================================
