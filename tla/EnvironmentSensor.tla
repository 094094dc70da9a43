-------------------------- MODULE EnvironmentSensor --------------------------
(***************************************************************************)
(* The name and the room of an environment sensor, from the hub to Home    *)
(* Assistant's device registry: the merge of a split sensor's two halves   *)
(* (dirigera_lib_patch.py), the throttled polls of its entities            *)
(* (base_classes.py), the events, the resync and the updates of the device *)
(* they schedule (hub_event_listener.py), and the sync at setup.  A split  *)
(* sensor (TIMMERFLOTTE) is not polled, a whole one (VINDSTYRKA) is.       *)
(***************************************************************************)
EXTENDS Naturals, Sequences

CONSTANTS
  Pollers,    \* the sensor's entities that Home Assistant polls
  Names,      \* what its owner calls it in the IKEA app
  Rooms,      \* where the owner puts it
  MaxEdits,   \* bound: renames and moves, on the hub and in Home Assistant
  MaxDrops,   \* bound: connections lost
  MaxReloads  \* bound: reloads of the entry

\* The halves, in the order of _split_sensor_primary_rank: the first has the temperature,
\* the owner's name and the room, the second a generic name and no room.
Primary == 1
Secondary == 2
Generic == "generic"
None == "none"      \* no room, no area
Absent == "absent"  \* a message without the key

ASSUME BoundsAssumption ==
  /\ MaxEdits \in Nat /\ MaxDrops \in Nat /\ MaxReloads \in Nat
  /\ {Generic, Absent} \cap Names = {} /\ {None, Absent} \cap Rooms = {}

VARIABLES
  split,      \* the hub has two halves of it
  hub,        \* its name and room on the hub
  wire,       \* events sent and not received yet
  connected,  \* the WebSocket is open
  opened,     \* it has been before, for this listener: _has_opened
  resync,     \* a resync awaits its answer
  replay,     \* the messages it has yet to replay
  model,      \* name and room in _json_data
  dev,        \* the device in Home Assistant's registry
  tasks,      \* updates of the device scheduled on the event loop
  synced,     \* the syncs at the end of the setup have run
  lock,       \* _update_lock: its holder, then the coroutines waiting for it
  poll,       \* where the holder is
  snap,       \* the answer it got
  fresh,      \* less than ttl_seconds since _updated_at
  edits, drops, reloads,
  nameOff,    \* history: why dev.name may not be the hub's
  roomOff     \* history: why dev.area may not be the hub's room

hubVars == <<split, hub, edits>>
linkVars == <<wire, connected, opened, drops>>
resyncVars == <<resync, replay>>
pollVars == <<lock, poll, snap, fresh>>
history == <<nameOff, roomOff>>
sensorVars == <<hubVars, linkVars, resyncVars, model, dev, tasks, synced, pollVars, reloads, history>>

Sensor == [name : Names \cup {Generic}, room : Rooms \cup {None}]
Message == [half : {Primary, Secondary}, name : Names \cup {Generic, Absent},
            room : Rooms \cup {None, Absent}]
Task == [what : {"name"}, val : Names \cup {Generic}] \cup [what : {"area"}, val : Rooms \cup {None}]
Reasons == {"early", "unanswered", "polled", "generic", "removed", "moved", "overtaken"}

SensorTypeOK ==
  /\ split \in BOOLEAN /\ hub \in Sensor /\ model \in Sensor /\ snap \in Sensor
  /\ wire \in Seq(Message) /\ replay \in Seq(Message) /\ tasks \in Seq(Task)
  /\ {connected, opened, resync, synced, fresh} \subseteq BOOLEAN
  /\ dev \in [name : Names \cup {Generic}, byUser : BOOLEAN, area : Rooms \cup {None}]
  /\ lock \in Seq(Pollers) /\ poll \in {"check", "fetch", "answered"}
  /\ edits \in 0 .. MaxEdits /\ drops \in 0 .. MaxDrops /\ reloads \in 0 .. MaxReloads
  /\ nameOff \subseteq Reasons /\ roomOff \subseteq Reasons

\* Just after the first make_devices: Home Assistant has created the device with the name
\* and, as its area, the suggested room.
SensorInit ==
  /\ split \in BOOLEAN /\ hub \in [name : Names, room : Rooms \cup {None}]
  /\ model = hub /\ snap = hub
  /\ dev = [name |-> hub.name, byUser |-> FALSE, area |-> hub.room]
  /\ wire = <<>> /\ connected = FALSE /\ opened = FALSE /\ resync = FALSE /\ replay = <<>>
  /\ tasks = <<>> /\ synced = FALSE /\ lock = <<>> /\ poll = "check" /\ fresh = FALSE
  /\ edits = 0 /\ drops = 0 /\ reloads = 0 /\ nameOff = {} /\ roomOff = {}

-----------------------------------------------------------------------------
(* The hub, its owner, and the connection.                                 *)

\* An event of the primary half; what happens before the first connection is not sent and
\* not replayed either.
Tell(name, room) ==
  /\ edits < MaxEdits /\ edits' = edits + 1
  /\ wire' = IF connected THEN Append(wire, [half |-> Primary, name |-> name, room |-> room])
             ELSE wire
Rename ==
  /\ \E n \in Names \ {hub.name} : hub' = [hub EXCEPT !.name = n] /\ Tell(n, Absent)
  /\ nameOff' = IF opened THEN nameOff ELSE nameOff \cup {"early"}
  /\ UNCHANGED <<split, connected, opened, drops, resyncVars, model, dev, tasks, synced,
                 pollVars, reloads, roomOff>>
Move ==
  /\ \E r \in (Rooms \cup {None}) \ {hub.room} : hub' = [hub EXCEPT !.room = r] /\ Tell(Absent, r)
  /\ roomOff' = roomOff \cup (IF opened THEN {} ELSE {"early"})
                        \cup (IF hub'.room = None /\ ~connected THEN {"removed"} ELSE {})
  /\ UNCHANGED <<split, connected, opened, drops, resyncVars, model, dev, tasks, synced,
                 pollVars, reloads, nameOff>>

\* In Home Assistant, the user names the device, or moves it to another area.
UserRename ==
  /\ edits < MaxEdits /\ edits' = edits + 1
  /\ ~dev.byUser /\ dev' = [dev EXCEPT !.byUser = TRUE]
  /\ UNCHANGED <<split, hub, linkVars, resyncVars, model, tasks, synced, pollVars, reloads, history>>
UserMove ==
  /\ edits < MaxEdits /\ edits' = edits + 1
  /\ \E r \in (Rooms \cup {None}) \ {dev.area} : dev' = [dev EXCEPT !.area = r]
  /\ roomOff' = roomOff \cup {"moved"}
  /\ UNCHANGED <<split, hub, linkVars, resyncVars, model, tasks, synced, pollVars, reloads, nameOff>>

\* _on_open: not the first connection schedules a resync.
Open ==
  /\ ~connected /\ connected' = TRUE /\ opened' = TRUE
  /\ ~resync /\ replay = <<>> /\ resync' = opened
  /\ UNCHANGED <<hubVars, wire, drops, replay, model, dev, tasks, synced, pollVars, reloads, history>>

\* The events on the connection are lost with it, a removal from the room for good.
Drop ==
  /\ connected /\ drops < MaxDrops
  /\ connected' = FALSE /\ drops' = drops + 1 /\ wire' = <<>>
  /\ roomOff' = IF \E i \in DOMAIN wire : wire[i].room = None
                THEN roomOff \cup {"removed"} ELSE roomOff
  /\ UNCHANGED <<hubVars, opened, resyncVars, model, dev, tasks, synced, pollVars, reloads, nameOff>>

-----------------------------------------------------------------------------
(* on_message, of an event or of a replayed device.                        *)

\* The room of a message goes to the registry whenever there is one, its removal when the
\* model had one.
RoomTasks(m) ==
  IF m.room \in Rooms \/ (m.room = None /\ model.room # None)
  THEN <<[what |-> "area", val |-> m.room]>> ELSE <<>>

\* The name goes there when it is not the model's.
NameTasks(m) ==
  IF m.name \notin {Absent, model.name} THEN <<[what |-> "name", val |-> m.name]>> ELSE <<>>

\* The second half's id ends in "_2": the message is taken for its sibling's.
OnMessage(m) ==
  /\ tasks' = tasks \o RoomTasks(m) \o NameTasks(m)
  /\ model' = [name |-> IF m.name = Absent THEN model.name ELSE m.name,
               room |-> IF m.room = Absent THEN model.room ELSE m.room]

Receive ==
  /\ wire # <<>> /\ wire' = Tail(wire) /\ OnMessage(Head(wire))
  /\ UNCHANGED <<hubVars, connected, opened, drops, resyncVars, dev, synced, pollVars, reloads, history>>

-----------------------------------------------------------------------------
(* _resync_all_states.                                                     *)

\* A device of /devices; one without a room has no such key.
Listed(half) ==
  IF half = Primary
  THEN [half |-> half, name |-> hub.name, room |-> IF hub.room = None THEN Absent ELSE hub.room]
  ELSE [half |-> half, name |-> Generic, room |-> Absent]

\* The hub lists the halves in either order.
Listings ==
  IF split THEN {<<Listed(Primary), Listed(Secondary)>>, <<Listed(Secondary), Listed(Primary)>>}
  ELSE {<<Listed(Primary)>>}

\* One sensor of it: a half's name and room, or if that has no room its sibling's.
MergedOn(list, base) ==
  LET rooms == {list[i].room : i \in DOMAIN list} \ {Absent} IN
  [name |-> base.name,
   room |-> IF base.room # Absent THEN base.room
            ELSE IF rooms # {} THEN CHOOSE r \in rooms : TRUE ELSE None]

\* Mutant of Merged: whichever half the hub listed first.
MergedFirst(list) == MergedOn(list, list[1])

\* get_environment_sensors: the half that ranks first.
Merged(list) ==
  MergedOn(list, CHOOSE m \in {list[i] : i \in DOMAIN list} :
                   \A i \in DOMAIN list : m.half <= list[i].half)

\* It is no longer what the hub lists.
Older(m) == m # Listed(m.half)

ResyncAnswer ==
  /\ resync /\ resync' = FALSE /\ replay' \in Listings
  /\ UNCHANGED <<hubVars, linkVars, model, dev, tasks, synced, pollVars, reloads, history>>
ResyncFails ==
  /\ resync /\ resync' = FALSE
  /\ nameOff' = nameOff \cup {"unanswered"} /\ roomOff' = roomOff \cup {"unanswered"}
  /\ UNCHANGED <<hubVars, linkVars, replay, model, dev, tasks, synced, pollVars, reloads>>
Replay ==
  /\ replay # <<>> /\ replay' = Tail(replay) /\ OnMessage(Head(replay))
  /\ nameOff' = nameOff \cup (IF Head(replay).half = Secondary THEN {"generic"} ELSE {})
                         \cup (IF Older(Head(replay)) THEN {"overtaken"} ELSE {})
  /\ roomOff' = roomOff \cup (IF Older(Head(replay)) THEN {"overtaken"} ELSE {})
  /\ UNCHANGED <<hubVars, linkVars, resync, dev, synced, pollVars, reloads>>

-----------------------------------------------------------------------------
(* The registry, on the event loop, which a replay or a sync keeps busy.   *)

\* _update_device_name: a name the user gave is only overridden by force.
Named(val, force) ==
  IF dev.byUser /\ ~force THEN dev ELSE [dev EXCEPT !.name = val, !.byUser = FALSE]

\* Nothing else of the kind is scheduled.
Settles(what) == \A i \in 2 .. Len(tasks) : tasks[i].what # what

\* _update_device_name and _update_device_area, as scheduled by on_message.
RunTask ==
  /\ synced /\ replay = <<>> /\ tasks # <<>> /\ tasks' = Tail(tasks)
  /\ LET t == Head(tasks) IN
       IF t.what = "name"
       THEN /\ dev' = Named(t.val, FALSE)
            /\ nameOff' = IF Settles("name") /\ hub.name = model.name /\ dev'.name = hub.name
                          THEN {} ELSE nameOff
            /\ UNCHANGED roomOff
       ELSE /\ dev' = [dev EXCEPT !.area = t.val]
            /\ roomOff' = IF Settles("area") /\ hub.room = model.room /\ dev'.area = hub.room
                          THEN {} ELSE roomOff
            /\ UNCHANGED nameOff
  /\ UNCHANGED <<hubVars, linkVars, resyncVars, model, synced, pollVars, reloads>>

\* The unload stops the listener; the setup makes the devices anew, and registering their
\* entities gives the device its name, unless the user has.
Reload ==
  /\ synced /\ tasks = <<>> /\ replay = <<>> /\ ~resync /\ lock = <<>>
  /\ reloads < MaxReloads /\ reloads' = reloads + 1
  /\ \E list \in Listings : model' = Merged(list)
  /\ dev' = [dev EXCEPT !.name = model'.name]
  /\ synced' = FALSE /\ connected' = FALSE /\ opened' = FALSE /\ wire' = <<>> /\ fresh' = FALSE
  /\ nameOff' = {}
  /\ roomOff' = IF hub.room = None THEN roomOff \cup {"removed"} ELSE {}
  /\ UNCHANGED <<hubVars, drops, resyncVars, tasks, lock, poll, snap>>

\* sync_all_device_names and sync_all_device_areas, of the model as it is by now.
Sync ==
  /\ ~synced /\ replay = <<>> /\ synced' = TRUE
  /\ dev' = [Named(model.name, TRUE) EXCEPT
               !.area = IF model.room = None THEN dev.area ELSE model.room]
  /\ UNCHANGED <<hubVars, linkVars, resyncVars, model, tasks, pollVars, reloads, history>>

-----------------------------------------------------------------------------
(* _throttled_update, as the entities of a whole sensor call it.           *)

Leave == lock' = Tail(lock) /\ poll' = "check"

\* Past the fast path: in line for the lock.
BeginPoll(p) ==
  /\ ~split /\ synced /\ ~fresh /\ \A i \in DOMAIN lock : lock[i] # p
  /\ lock' = Append(lock, p)
  /\ UNCHANGED <<hubVars, linkVars, resyncVars, model, dev, tasks, synced, poll, snap, fresh,
                 reloads, history>>

\* Mutant of Recheck: without the check inside the lock.
RecheckNot ==
  /\ lock # <<>> /\ poll = "check"
  /\ poll' = "fetch" /\ UNCHANGED lock
  /\ UNCHANGED <<hubVars, linkVars, resyncVars, model, dev, tasks, synced, snap, fresh, reloads, history>>

\* With the lock: somebody may have polled meanwhile.
Recheck ==
  /\ lock # <<>> /\ poll = "check"
  /\ IF fresh THEN Leave ELSE poll' = "fetch" /\ UNCHANGED lock
  /\ UNCHANGED <<hubVars, linkVars, resyncVars, model, dev, tasks, synced, snap, fresh, reloads, history>>
PollAnswer ==
  /\ poll = "fetch" /\ poll' = "answered"
  /\ \E list \in Listings : snap' = Merged(list)
  /\ UNCHANGED <<hubVars, linkVars, resyncVars, model, dev, tasks, synced, lock, fresh, reloads, history>>
PollFails ==
  /\ poll = "fetch" /\ Leave /\ fresh' = TRUE
  /\ UNCHANGED <<hubVars, linkVars, resyncVars, model, dev, tasks, synced, snap, reloads, history>>

\* The model is replaced; the registry is not told of what is new in it.
EndPoll ==
  /\ poll = "answered" /\ Leave /\ fresh' = TRUE
  /\ model' = snap
  /\ nameOff' = IF snap.name # model.name THEN nameOff \cup {"polled"} ELSE nameOff
  /\ roomOff' = IF snap.room # model.room THEN roomOff \cup {"polled"} ELSE roomOff
  /\ UNCHANGED <<hubVars, linkVars, resyncVars, dev, tasks, synced, snap, reloads>>

\* ttl_seconds have passed since _updated_at.
Expire ==
  /\ fresh /\ fresh' = FALSE
  /\ UNCHANGED <<hubVars, linkVars, resyncVars, model, dev, tasks, synced, lock, poll, snap,
                 reloads, history>>

-----------------------------------------------------------------------------

SensorNext ==
  \/ Rename \/ Move \/ UserRename \/ UserMove
  \/ Open \/ Drop \/ Receive
  \/ ResyncAnswer \/ ResyncFails \/ Replay
  \/ RunTask \/ Reload \/ Sync
  \/ (\E p \in Pollers : BeginPoll(p)) \/ Recheck \/ PollAnswer \/ PollFails \/ EndPoll \/ Expire

SensorSpec == SensorInit /\ [][SensorNext]_sensorVars

-----------------------------------------------------------------------------
(* Properties.                                                             *)

AtRest ==
  connected /\ synced /\ wire = <<>> /\ ~resync /\ replay = <<>> /\ tasks = <<>>

\* With a connection and nothing under way, the device has the hub's name or the user's,
\* except for a rename before the first connection or while a resync failed, one that a
\* poll brought to the model first, and after the second half was replayed (on_message).
\* Likewise its area is the hub's room, but for those, for a removal from the room while
\* there was no connection, and until the next message with a room for a user's move.
RegistryFollows ==
  AtRest => /\ dev.byUser \/ dev.name = hub.name \/ nameOff # {}
            /\ dev.area = hub.room \/ roomOff # {}

\* "Double-checked locking collapses this to exactly one hub request per device per
\* ttl_seconds" (_throttled_update): no entity asks while another's answer is fresh.
OneRequest == poll \in {"fetch", "answered"} => lock # <<>> /\ ~fresh

\* "a deterministic primary (name and room)" whatever the order of the hub's list
\* (README.md, test_split_environment_sensor.py): a split sensor has its owner's name.
PrimaryNames ==
  AtRest /\ split => dev.byUser \/ dev.name = hub.name \/ nameOff \ {"generic"} # {}
=============================================================================
