# A verification project for the IKEA Dirigera integration

TLA+ specifications of `custom_components/dirigera_platform`, the Home Assistant integration
for the IKEA Dirigera hub: what they model, what TLC checks, what TLAPS proves, and what is left.
Source paths are relative to `custom_components/dirigera_platform/`; `PROJECT.json` maps each
definition to its lines.

## 1. The system

One config entry stands for one hub. These threads work on its objects:

- the **event loop** of Home Assistant (HA): setup, unload, discovery, resyncs, entity writes;
- one **listener thread** per hub: `WebSocketApp.run_forever`, and in it `on_message` for each event;
- the **keepalive threads**: a `threading.Timer` per interval;
- **executor threads** for blocking HTTP and for `stop()`.

No lock protects what they share; the code relies on the GIL and on the order of its statements.

| Component | State | Operations | Talks to | Hard | Correct when |
|---|---|---|---|---|---|
| Listener thread (`hub_event_listener.py`) | `_wsapp`, `_request_to_stop`, `_stop_event`, `_keepalive_timer`, `_has_opened` | `run`, `create_listener`, `_on_open`, `_send/_start/_stop_keepalive`, `stop` | the WebSocket, the loop (resync), the executor (`stop`) | three kinds of thread on one field | open connections are kept alive, a reconnect schedules its resync, `stop` ends everything |
| State events and resync (same file) | device objects, `_resyncing` | `on_message`, `_resync_all_states` | registry, entities, the hub's `/devices` | old answers against new events, lost connections | HA's state catches up with the hub |
| Registry (same file) | `device_registry[hub][id]` | `register`, `get_registry_entry`, `unregister_hub` | device constructors, listener | first come stays, across failing setups | events reach the entity that is shown |
| Energy guard (same file) | stored totals, `_energy_decrease_held` | `_energy_reset_advanced`, `_hold_back_energy_decrease` | attribute loop | a glitch and a reset look alike | statistics are not inflated, the sensor is not frozen |
| Remote presses (same file) | two module globals | `parse_scene_update`, `parse_remote_press_event`, `_fire_controller_event` | HA's event bus | two reports of one press, in any order | one event per press |
| Push throttle (`base_classes.py`) | `_ha_last_push_at`, `_ha_flush_pending` | fan-out, `_push_throttled`, `_arm_trailing_flush`, `_run_trailing_flush` | listener thread, loop | check-then-act on two threads | the last value reaches HA |
| Setup and unload (`__init__.py`, `ikea_gateway.py`, platforms) | `hass.data[entry]`, the gateway's objects | `async_setup_entry`, `make_devices`, `async_unload_entry` | all of the above | failure half way, reload | what is loaded works |
| Discovery (`device_discovery.py`) | known, pending, unsupported ids, callbacks | `discover_device` | listener, platforms, hub | awaits between check and use, outliving a reload | a new device gets one entity |
| Throttled polling (`base_classes.py`) | `_updated_at`, a lock | `_throttled_update` | HA's poller | concurrent polls of one device | one request per device and window |
| Light echo (`light.py`, listener) | `ignore_update` | commands, `on_message` | | an echo that never comes | a real change is shown |
| Blinds (`base_classes.py`) | the model, `_stop_requested`, `_stop_target_level` | open, close, set, stop, `async_update` | the hub, HA's poller, the listener | overlapping calls, polls that replace the model, targets the hub never reports | a stopped blind is shown at rest, a moving one as moving |
| Split devices, Matter filter (`dirigera_lib_patch.py`) | none | `get_outlets`, `get_environment_sensors`, `_without_matter` | hub | merge order | every half is represented once |
| Platform selection (`__init__.py`) | entity and device registry | `resolve_platforms`, `sync_platform_entity_registry` | HA registries | user choices against ours | a user's own disable stays |
| Stale devices (`stale_devices.py`) | none | `find_stale_devices`, `async_remove_stale_devices` | hub, device registry | a list older than the registry | nothing present is removed |
| Name and area sync | device registry | `_update_device_name`, `_update_device_area` | hub | | names follow the hub |
| Config and options flow (`config_flow.py`) | the entry's data, options and `unique_id`; what a dialog has got so far | pairing, options, `_store` | hub, HA's entries, setup and unload | dialogs side by side, requests between check and save, saves during a setup | address and token belong together, a hub is there once, what is saved takes effect |
| Entities, icons, triggers, dump, mocks | none of their own | accessors | | | |

`PROJECT.json` lists the hazards with the lines where they bite and the properties that cover them.

## 2. Modules

| Module | Models | Reads as |
|---|---|---|
| `WriteBehind` | what a throttled entity promises | abstract: a reading, what is shown, one write |
| `PushThrottle` | the throttle of one entity; implements `WriteBehind` | threads with a `pc`; `elapsed` for the clock |
| `PushRate` | extends it by a memory of the last writes | `recent`, history |
| `EnergyGuard` | the guard and the attribute loop | one action, `OnAttributes`, on any payload |
| `EnergyStatistics` | extends it by plug, hub and HA's statistics | `Consume`, `Reset`, `Reading`, `Blank`, `Glitch` |
| `RemotePress` | presses from the remote to the event bus | hub, message queue, the two parse paths |
| `HubEntry` | setup, unload, registry, discovery | one step per stretch between two awaits |
| `StateSync` | events, connection losses, resyncs | versions of each device, `at[n]` per resync |
| `SensorPath` | composes it with a `WriteBehind` per device, up to what HA shows | `shown`, `client` |
| `ListenerThread` | reconnect loop, keepalive timers, `stop` | one step per access to a shared field |
| `LightCommands` | a bulb, its device set, the echo filter | service calls with an `at`, events on a `wire` |
| `EnvironmentSensor` | the name and room of a sensor, split or whole; throttled polling | owner, hub, model, registry, and what is under way between them |
| `DeviceRegistry` | platform selection, Matter filter, stale devices | HA's registries, the entry, the user's hand |
| `ConfigEntries` | dialogs, stored entries, and the data a setup works with | a label per dialog and per entry; requests are steps of their own |
| `Blinds` | one blind, its service calls, polls and reports | `call[c].at`, `poll`, the model `held` |
| `...Proofs` | the theorems, see section 5 | an invariant, lemmas, one step per action |
| `MC...` | the instances TLC checks | |

A mutated form of a definition ("Mutant of ...") stands before it. It is what a plausible bug would
make of the code; with it in place of the definition TLC finds the property named for it violated,
so the property does depend on the code.

### PushThrottle
`Event` is `on_message` handing a new reading to the fan-out; `Check` compares the clock, `Grant`
stamps it and writes, `ArmCheck` and `ArmSet` are the two statements of `_arm_trailing_flush` between
which another thread may come, `RunArm` is the callback that starts the timer, `FlushBegin` and
`FlushWrite` are the flush. An exception is part of its step: a closed loop clears the flag, a `hass`
that became `None` does not. Adding an entity, giving it up and the shutdown are HA's.

`WriteBehind` is the same without threads, flags and timers: what is shown is replaced by the present
reading, for an entity that is shown, and a difference does not last. The mapping (`Promise`) takes
the device's value, the shown one, the entity and the loop as they are; `KeepsPromise` is the
refinement with its liveness, `KeepsPromiseSafely` without.

`PushRate` states what limit the throttle does keep. One write per interval, as the docstring of
`_arm_trailing_flush` has it, it does not: two threads can pass the clock together, a flush that
was armed earlier comes on top, and two threads that both find the flag clear arm a flush each, after
which every window can end in one flush more. What it keeps is one write per thread, and as many
flushes as were ever outstanding at once (`WritesCapped`; `most` is that number), as long as no thread
is delayed inside a fan-out for as long as a tick; `recent` is emptied when one is.

### EnergyGuard, EnergyStatistics
`OnAttributes(p)` is the attribute loop with both guards. The statistics are those of a
`TOTAL_INCREASING` sensor: a decrease is a reset. Plugs are of three styles. *Announced*: the first
total after a reset carries its time. *Silent*: no time ever. *Mixed*: totals may come before the
time. A glitch is too low, above zero, and followed by a correct reading. A total may also be no
number (`Blank`): the code stores it, HA's statistics pass over it (`counted` is the last number they
saw), and with nothing to compare the next total is stored whatever it is. `unguarded` is history: a
glitch came then, or such a total came while dips were being counted, whose counter the next reading
does not clear. `NoInflation` excepts these, `NotFrozen` does not.

### RemotePress
A key is one pattern of one button of one remote. The hub sends a scene twice per press, the first
time with the previous `lastTriggered`, and `remotePressEvent` on release. Messages are handled in
order and can be lost with the connection. A restart clears the two globals, a reload does not.
`fired[k]` is the sequence of the events fired for `k`, one element per call of `bus.fire`, so a
second event with the same time counts.

### HubEntry
`entity[d]` is the object the platforms of the present setup show for `d`, `registry[d]` the object
events go to. Objects are told apart by the setup that made them and by who made them, setup or
discovery. Connection errors end a setup before anything has registered (all calls of
`make_devices` share one answer); a conversion error may come later. An entity handed to a platform
that is unloaded shows nothing. `companions` counts how often the sensors that go with a device (the
battery, the energy of a plug) were handed over: by `sensor.py` at setup, by the coordinator after a
discovery, through the sensor platform's callback, which may come before or after the other
platform's. A plug is fetched twice, and if the second fetch fails it is made without its energy half
(`bare`). Blinds and purifiers get their sensors at setup only. `Incomplete` are devices whose first answer cannot be turned into an
entity; they land among the unsupported ones.

### StateSync
The state of a device is the number of its changes. An event and the entry of a `/devices` answer
are such numbers, and both are applied as they are. `at[n]` follows the resync of the `n`-th
connection. A replay holds the event loop, so replays exclude each other, but not the listener's
thread. `SensorPath` puts the entity behind it: its `Path(d)` is the `WriteBehind` that `PushThrottle`
implements, with the device object as the reading, so `Show` may be fair because the throttle keeps
its promise. The two specifications are not run together: each is checked against the abstract one.

### ListenerThread
`pc` is the listener's thread, `timer[t]` the thread of Timer `t`, `stopper` the executor thread in
`stop()`. `_keepalive_timer` is read and written one access at a time, and what Python raises (`None`
has no `daemon`, a thread starts once) ends the thread or `_on_open`. Two facts of timing are in
guards: a keepalive that was sending when the connection broke is done before the ten seconds of
backoff are over, and the interval of 15 minutes is longer than a backoff and a connection attempt.
A timer that has lost its last reference may fire at any time.

### LightCommands
A service call is a sequence of PATCHes. Each goes through `Begin` or `Resume` (the event loop, up to
the `await`), `Answer` (the hub), `Write` (the library's setter, in the executor) and `Resume` again,
which sets the echo flag; `Fail` ends it anywhere. `Receive` and `Push` are the two halves of
`on_message` between which the loop may run. The hub may answer a PATCH with an event, with none if
nothing changed, or with one of the old value first. `late` collects the attributes of which a call
or an update wrote what the hub no longer had: the code cannot know, and says so nowhere.

### EnvironmentSensor
`hub` is what the owner entered in the IKEA app, `model` the `_json_data` that all entities of the
sensor share, `dev` HA's device. `OnMessage` compares with the model and schedules what differs;
`RunTask` is `_update_device_name` or `_update_device_area` on the loop; `Sync` is the two syncs at
the end of a setup. `lock` holds the coroutines in `_throttled_update`. `nameOff` and `roomOff` are
history: the ways in which the registry may miss a change, each named. A reading is not modelled
here: `StateSync` has the state.

### DeviceRegistry
`disabled_by` has four values in HA that matter: not disabled, and disabled by the integration, the
user or the device. `Cascade` is HA's rule between a device and its entities, and is external. `Sync`
is the two functions of `__init__.py` in the one stretch of a setup in which they run; `Forward` and
`Discover` register what is new. `Ask` and `RemoveStale` or `Delete` are the two sides of the one
`await` of a check. The hub's list has entries (`Parts`) and HA has devices, and `Carries[p]` are the
devices an entry names: its `id` or `relationId`, and the device sets it is in. So a split device is
known as long as one half is listed, and a set as long as one of its bulbs is. `UnloadFails` is an
exception before anything is unloaded or a platform that stays; HA does nothing more with such an entry
until it restarts. `opened` and `asked` are history: what the user or the cascade has enabled.

### ConfigEntries
`flow[f]` is a dialog: a form that waits for the user, or a request that waits for the hub. A token is
known by the hub that made it, so `Works(ip, token)` says that this hub is at this address now. HA
ends an add dialog whose `unique_id` an entry or another dialog has, and removes an older entry with
the same one when an entry is created. `Store` writes the data and the options; each of the two
writes calls `options_update_listener` if it changes something (`Calls`). `running` is the copy a
setup has taken; an unload uses the data of the moment. `slipped`, `moved` and `stale` are history:
an entry added before an older one had its first setup, an address changed by a dialog, a hub that
has moved or been reset since the save. The mock address, the title and blank input are left out.

### Blinds
`level` and `target` are the hub's, `held` is the model. A call goes through `Begin` (up to its
`await`, on the model of that moment), `Taken` (the hub), `Answered` (the library writes the target
on that model, in the executor) and `Finish` (the rest, on the present model; then HA polls). A poll
has a request and an answer, and puts a new model in place. The hub reports levels, some of them; it
never reports a target, and may or may not keep the last one after a stop. `Write` is HA reading the
properties, which also drops a stop that no longer holds. `crossed` is history: it names what the
code cannot know, each case at the action that causes it.

## 3. Runs

| Run | Bounds | Shows |
|---|---|---|
| `push_throttle` | WebSocket thread and loop, 2 readings, 3 timers, window 2, delay at least 1 | `NoLostValue`, `KeepsPromise`, `WritesCapped` |
| `energy_statistics` | 4 units, 2 resets, two attributes, streak of 3, any number of totals without a number | `NoInflation`, `NotFrozen` |
| `remote_press` | two remotes, one scene, windows 1 and 2 or as in the .cfg | `NoGhostPress`, `OncePerPress`, `NoMissedPress`, `EventsSpaced` |
| `hub_entry` | an outlet and a controller, platforms switch and sensor, 2 setups | `TypeOK`, `UpdatesReachEntity`, `AddedOnce`, `Coordinated`, `CompanionsToo`, `NewDeviceAppears` |
| `state_sync` | 2 devices, 2 changes each, 3 connections | `StaleIsExcused`, `ShownCatchesUp` |
| `listener_thread` | 7 timers, up to 3 keepalives at once | `KeepaliveServes`, `OneKeepalive`, `ResyncScheduled`, `KeepaliveDies`, `StopReturns` |
| `light_commands` | 2 calls of 3 kinds, or updates, 1 change from the app, 2 events under way | `HeldIsHub`, `ShownIsHeld`, `SetCallsShown` |
| `environment_sensor` | 2 pollers, 2 names, 2 rooms, 3 edits, 1 connection loss, 1 reload | `RegistryFollows`, `OneRequest` |
| `device_registry` | a metering plug over Matter and a split motion sensor, 2 platforms, 2 interventions, 2 entries leave or join | `NoGhosts`, `Reversible`, `HandsOff`, `NoOrphans`, `OnlyTheLost` |
| `config_entries` | 1 hub, 2 addresses, 2 entries, 2 dialogs, 2 saves, 1 move or reset | `TypeOK`, `TokenFitsAddress`, `AddedOnce`, `SavedTakesEffect` |
| `blinds` | 2 calls that may overlap, 3 levels, 1 move from elsewhere, 1 report under way | `TypeOK`, `StopStays`, `MovementShown`, `RestIsShown` |
| `config_twice` | as `config_entries` | `HubAddedOnce` is violated |

Type invariants: every component's is proved. `HubEntry`, `ConfigEntries` and `Blinds` also check
theirs in their run; the others hold in the same instances when added to the `.cfg`.

Why this is enough. Two threads and three timers give every interleaving of a check with a set, and
two flushes outstanding while a third is armed; a window of two with a shortest delay of one lets a
flush of one window meet the pushes of the next. Four units of energy allow a streak of dips before and after a reset. Two remotes of the two
kinds on one scene give each press both reports and foreign history. An outlet has the longest
discovery and companions, a controller makes the sensor platform fail, two setups give each step a
predecessor that is gone. Three connections give two overlapping resyncs. Seven timers are more than
ever are in use: with `MaxChains = 2` a lost keepalive can fire in the middle of a later `_on_open`.
Two calls give a set's call against the bulb's, a call against an update, and each against the app.
Three edits allow a rename, a second one that overtakes its resync, and the user's own. A plug with a
switch and sensors is a device that is hidden by no, one or every choice of platforms; the choices
themselves, reloads, failed setups and unloads and restarts are not bounded. Two entries that leave
or join take both halves of the split sensor away, one after the other, or swap them; the list starts as any set. Two addresses and two dialogs are what a
duplicate or a mixed-up token needs, and two saves are one dialog's against another's, in both
directions; setups, reloads, retries and restarts are not bounded. Two blind calls give a stop
against a move in both orders, one move from elsewhere the target nobody reports, and three levels a
blind that is neither open nor closed. What the proofs cover does not depend on any of this.

Bounds are constants named `Max...`, `Calls`, `Handles`, `Flows` and `Timers`, and stand in guards.
Symmetry is used with safety properties only (`LightCommands`, `EnvironmentSensor`, `ConfigEntries`).
`CHECK_DEADLOCK FALSE` is set where a bounded clock or count may end a behaviour (`RemotePress`,
`StateSync`, `LightCommands`, `EnvironmentSensor`, `DeviceRegistry`).

### What the code does not keep
The run `config_twice` checks one promise of the documentation and ends in a violation: the README
says that the integration refuses to add the same hub a second time. It compares addresses, and a
hub that has got another address is added again next to its old entry.

More counterexamples are kept as configurations outside the runs; `tlc -config X.cfg MCY` finds each.

- `EnvironmentSplit.cfg` (`MCEnvironmentSensor`): a resync replays both halves of a split sensor, the
  second one's event is routed to its sibling, and its generic name goes to the device registry
  (README, "a deterministic primary").
- `DeviceRegistryHides.cfg` (`MCDeviceRegistry`): with the choices sensor, switch, sensor the switch of
  a metering plug is left enabled without a platform. It was registered under a hidden device, so HA
  enables it with the device, after the entities have been looked at. For the same reason it stays
  missing while `switch` is chosen, until the next setup (README, "Clearing a platform hides its
  existing entities").
- `DeviceRegistryDefault.cfg` (`MCDeviceRegistry`): a reload enables "Energy at last reset". HA marks
  what is off by default in the same way as the integration marks what it hides.
- `ConfigDialog.cfg` (`MCConfigEntries`): if pairing fails in the options dialog, the form that shows
  the error has no fields, and submitting it raises: the dialog can only be closed. With `-continue`
  also: one save of the options calls the update listener twice, once for the data and once for the
  options, and the entry is reloaded twice (comment in `async_setup_entry`, "exactly once").
- `BlindsStop.cfg` (`MCBlinds`): a remote control sends the blind off and HA stops it before a poll
  has brought the new target. The stop is recorded for the old one, the next refresh ends it, and the
  blind is shown as moving (comments in `tests/test_blinds_stop.py`).
- `PushThrottleCap.cfg` (`MCPushThrottle`): a flush armed for the end of the window still fires when
  another push was let through in between, so there are two writes in one interval (docstring of
  `_arm_trailing_flush`).
- `EnergyMixed.cfg` (`MCEnergyStatistics`): a payload with a newer reset time bypasses the guard *and
  its counter*, so three isolated dips with such payloads between them inflate the statistics
  (comment of `ENERGY_DECREASE_ACCEPT_AFTER`).
- `RemotePressFresh.cfg` (`MCRemotePress`): a scene none of whose triggers ever fired takes the
  fallback for firmware without times; running it from the app is a press of every button on it
  (comment of `parse_scene_update`).
- `HubEntryPartial.cfg` (`MCHubEntry`): `create_empty_scene` fails, HA drops the sensor platform, the
  entry is loaded and nothing retries (README, "Reliable Startup").
- `StateSyncStale.cfg` (`MCStateSync`): the answer of a resync overwrites a newer event (README,
  "Resilient Connection").
- `ListenerStop.cfg` (`MCListenerThread`): `stop()` in the moment before `run_forever` closes nothing
  and then waits for the hub to drop the connection (comment in `async_unload_entry`).
- `LightEcho.cfg` (`MCLightCommands`): a PATCH that changes nothing has no echo, and the flag it left
  swallows the next real change of brightness (comment in `on_message`).

Two more limits of the code are named as exceptions in the properties of `EnvironmentSensor`: a poll
that brings a new name or room to the model hides the change from `on_message` (`"polled"`), and a
removal from a room while there is no connection is never made good (`"removed"`). At this commit
`stale_devices.DRY_RUN` is `True`; the run takes `FALSE`, the setting its comment announces.

## 4. Fairness

- `PushThrottle`, `PushRate`: a thread in a fan-out finishes; the clock ticks; the loop runs some
  callback again and again, of those that arm a timer and of the timers that are due. The last two
  are strong, as each is disabled while the loop runs something else: asyncio's ready queue is FIFO.
  No single timer is favoured.
- `HubEntry`: the loop runs scheduled calls; a paired device keeps reporting; a fetch that is tried
  for ever succeeds (strong). Nothing is assumed of setup, unload, pairing or failures.
- `StateSync`: the thread reconnects and handles what arrives, a scheduled resync runs. Neither
  changes nor drops are fair. `SensorPath` adds that an entity shows what its device holds, which is
  what `KeepsPromise` says of the throttle.
- `ListenerThread`: threads run, connection attempts end, timers fire. The hub never has to drop a
  connection, and `stop()` need not be called.
- `Blinds`: HA polls a cover again and again and the loop applies an answer that has come (weak), and
  not every poll fails (strong, as a failing one comes between). Nothing is assumed of calls, reports, the blind or whoever else moves it.
- The other modules have safety properties only, and specifications without fairness.

## 5. Proofs

Every invariant a run checks is also proved, for every value of the constants, and so are the
action properties (`WritesCapped`, `Reversible`, `OnlyTheLost`) and the refinements of `WriteBehind`
without their liveness:

| Module | Theorem | Property |
|---|---|---|
| `SensorProofs` (`PushThrottle`, `PushRate`) | `TypeCorrect` | `TypeOK` |
| | `FlagStandsForFlush` | `PendingMeansFlush` (not in a run of its own) |
| | `NothingIsLost` | `NoLostValue` |
| | `ImplementsWriteBehind` | `KeepsPromiseSafely` (the run checks `KeepsPromise`, with liveness) |
| | `RateIsBounded` | `WritesCapped` |
| `SensorProofs` (`EnvironmentSensor`) | `SensorTypeCorrect`, `OneAsks`, `RegistryIsTold` | `SensorTypeOK`, `OneRequest`, `RegistryFollows` |
| `ListenerProofs` (`EnergyStatistics`) | `StatisticsTypeCorrect`, `StatisticsSound`, `SensorNotFrozen` | `TypeOK`, `NoInflation`, `NotFrozen` |
| `ListenerProofs` (`ListenerThread`) | `ThreadsTypeCorrect`, `ConnectionIsKeptAlive`, `OneAtATime`, `ReconnectResyncs` | `ThreadTypeOK`, `KeepaliveServes`, `OneKeepalive`, `ResyncScheduled` |
| `StateSyncProofs` (`StateSync`, `SensorPath`) | `TypeCorrect`, `StalenessExcused`, `PathStalenessExcused` | `TypeOK`, `StaleIsExcused` of either specification |
| | `EntitiesWriteBehind` | `Path(d)!SafeSpec` |
| `DeviceRegistryProofs` | `TypeCorrect`, `UsersChoiceStands`, `UnloadsWhatItSetUp` | `TypeOK`, `HandsOff`, `NoOrphans` |
| | `NothingUnwantedEnabled`, `OnlyTheLostRemoved`, `SelectionIsReversible` | `NoGhosts`, `OnlyTheLost`, `Reversible` |
| `HubEntryProofs` | `TypeCorrect`, `UpdatesReach`, `HandedOverOnce` | `TypeOK`, `UpdatesReachEntity`, `AddedOnce` |
| | `CompanionsCome`, `PendingFits` | `CompanionsToo`, `Coordinated` |
| `ConfigEntriesProofs` | `TypeCorrect`, `TokenFits`, `NoAddressTwice`, `SavedIsRun` | `TypeOK`, `TokenFitsAddress`, `AddedOnce`, `SavedTakesEffect` |
| `BlindsProofs` | `TypeCorrect`, `StopIsKept`, `MoveIsShown` | `TypeOK`, `StopStays`, `MovementShown` |
| `EchoProofs` (`LightCommands`) | `LightTypeCorrect`, `ModelIsTheBulb`, `BulbIsShown`, `SetIsShown` | `LightTypeOK`, `HeldIsHub`, `ShownIsHeld`, `SetCallsShown` |
| `EchoProofs` (`RemotePress`) | `TypeCorrect`, `FarApart` | `TypeOK`, `EventsSpaced` |
| | `NoGhosts`, `OneEvent`, `NoneMissed` | `NoGhostPress`, `OncePerPress`, `NoMissedPress` |

Three modules, `SensorProofs`, `ListenerProofs` and `EchoProofs`, speak of two components each, and
extend both: `PushThrottle` and `EnvironmentSensor`, for instance, share no name.

Hardly any of the properties is inductive. Each module begins with the invariant that is, a
conjunction of named parts, followed by one lemma per part with one step per action. What the parts
say, and why it takes them:

- **PushThrottle.** A thread leaves the fan-out without writing because the flag is set, so the flag
  must stand for a flush: it is set in the step that asks for the timer, only a flush that fires
  takes the timer away, and before an entity is added nothing is armed. `WriteBehind`: each step of
  the throttle is one of its steps or changes nothing it sees.
- **PushRate** (`RateInv`). The n-th last write of a window that is not over, with the writes that may
  still come before it ends (`ToCome`), makes n and `ToCome` at most the threads and the flushes
  ever outstanding. A write ends the turn of its thread; a thread that finds the window closed
  arms for its end or later, so its flush is not due inside it; a tick finds no thread at work, and
  brings every flush as much nearer as the end of the window. `TypeOK` and the clock
  (`elapsed <= recent[n]`) carry it.
- **EnvironmentSensor** (`SensorInv`). The property speaks of rest; the parts follow a name on its
  way. The last message of a kind on the wire is the hub's present value; the model has that value, or
  a message or a resync that has not read its answer yet will bring it; the last task of a kind has the
  model's value. Messages and tasks in between may be of any age. For the lock: who holds it is the
  only one asking, and who waits looks at the time again.
- **EnergyStatistics.** What HA saw last is what is stored, or none is (`Seen`); it is the last correct
  reading or one that a dip may not lower; outside a silent reset the counter is 0 or 1, and it is 0
  without a number (`Guarded`, which holds until `unguarded`). `SensorNotFrozen` needs only that each
  correct reading in a row that is not shown has been counted (`Counting`).
- **ListenerThread** (`ThreadInv`). An open connection is served by the timer in the field, so: the
  field's timer is never one that was cancelled, outside the statements that cancel and replace it; a
  timer left unstarted there is about to be started by a keepalive's thread; and, unless a timer has
  lost its last reference, at most one is at work, and none while `_on_open` makes its own. That last
  part is what `ResyncScheduled` needs, for a second one would make `start()` raise in `_on_open`.
- **StateSync.** Values never exceed the hub's; events of a device are in order on the connection and
  complete from the first missing one; a resync before its answer owes every device; what a replay
  has left is a set of devices not yet put back. `SensorPath`: a step of `StateSync` changes one
  device's reading or none, and a step of `PathSpec` is one of `StateSync` or leaves it alone.
- **DeviceRegistry.** An entity disabled by its device has a device that is off, so only enabling that
  device can give the entity back (`Consistent`); a check knows every device an entry of the list
  names but those that came with an entry since its question (`KnownOrJoined`), and `OnlyTheLost`, an
  action property, follows as only the two answers to a check remove. The sync and HA's cascade
  neither make nor end a "user"; only `Sync` takes the entry from one phase to the other.
- **HubEntry.** `AddedOnce` and `UpdatesReachEntity` rest on what the coordinator of the present setup
  knows: it knows what is shown and nothing else (`KnownIsShown`); a pending device has one call,
  also in setups that are gone (`OneCallEach`, which states `Coordinated` without counting); which
  phase has what (`PhaseFits`); and the registry has the object of the present setup, made by it or
  found by its coordinator, for every device that is not orphaned (`RegistryFits`).
- **ConfigEntries.** What was asked for is what is stored; from the beginning of its setup to the end
  of its unload an entry hears of saves; so what a setup, finished or not, has copied is stored or a
  reload is to come. `AddedOnce` needs that the `unique_id` is the address of an entry that was set
  up and not moved, as the guard compares it. `reloads` is bounded by two for each save.
- **Blinds.** The last request the hub took is followed through its call: who holds it wanted what the
  hub did, the target is in the model once the library has written it, and when the call is over the
  stop is recorded for that target or there is nothing left to move to (`StopKept`, `MoveKept`). An
  answer that is not old tells the present target, and a call that is alone stays alone until the next.
- **LightCommands** (`LightInv`). Three statements of rest, and one each of what is still to come: an
  attribute of the model is the bulb's, or its event is under way, or it was written late, or
  `light_level`'s setter has written it ahead of its answer; what is shown is the model, or a write of
  the state is scheduled or at hand, or a call has not ended; and if the set alone is called no echo is
  ever ignored.
- **RemotePress.** The messages on their way tell of presses that were, in the order of time, and no
  event is later than a message still to come; what was fired before a restart is too old for what
  comes after it; a press not yet reported has the message that will. `FarApart` needs only the first
  two: the last event of a key is the latest, and the debounce keeps the next one away from it. That
  a press has one event of each time at most turns the count of `OncePerPress` into one of times.

Assumptions. Those of the modules: times and bounds are naturals (of the debounce, the length of a
streak and the shortest delay positive), threads and timers are finitely many, a plug has one of the
three styles, a type has a platform, the absent value is no value, a key's
remote is a name, a light's request is one the services can make. Beyond them:

- `StatisticsSound`: plugs announce all resets or none, and the streak is at least two.
  `EnergyMixed.cfg` shows that it fails with a plug of the third kind; a streak of one accepts every
  dip.
- `RateIsBounded`: the event loop is one of the threads that handle events, as it is in the run and in
  the code, where it replays resyncs. (TLC finds the bound also without.)
- `NoGhosts`, `OneEvent` and `NoneMissed`: `~FreshScenes`, some trigger of the scene has fired before.
  It is the setting of the run `remote_press`; `RemotePressFresh.cfg` shows that without it the
  first is false. `FarApart` holds with either.

Together the two `WriteBehind` theorems are the composition: what `SensorPath` takes an entity to be
is what `PushThrottle` is, for every number of threads, timers and readings.

Only model-checked are the properties with liveness (`KeepsPromise`, `ShownCatchesUp`,
`NewDeviceAppears`, `KeepaliveDies`, `StopReturns`, `RestIsShown`): fairness and `ENABLED` are out of
the prover's reach. Every other property of the passing runs is proved, from the assumptions above.

## 6. Plan

1. *(done)* `PushThrottle`, `EnergyGuard`/`EnergyStatistics`, `RemotePress`, `HubEntry`, `StateSync`,
   `ListenerThread`, `LightCommands`, `EnvironmentSensor`, `DeviceRegistry`; proofs for four of them.
2. *(done)* `WriteBehind` with its two refinements, `PushRate`, `SensorPath`, companions in `HubEntry`,
   `ConfigEntries`, `Blinds`.
3. *(done)* Proofs of every invariant the runs check, of every type invariant, and of the action
   properties.
4. *(done)* Events counted in `RemotePress`, split devices, device sets and failed unloads in
   `DeviceRegistry`, totals without a number in `EnergyStatistics`.
5. Left to extend: a resync with an older reset time in `EnergyStatistics`, `_resyncing` in `HubEntry`.

## 7. Not modelled

- Entity classes, icons, device triggers and mocks are accessors and tables without control.
- The air purifier: each service is one request computed from its argument or the last known state;
  its polling is `_throttled_update`, which `EnvironmentSensor` has.
- `get_outlets`' merge copies a fixed list of attributes from one JSON object to another, the dump's
  sanitizer rewrites one JSON value by a table: a model would repeat the tables.
- The kelvin range, brightness arithmetic and flipped blind positions: a level stands for them.
- Faults whose outcome no document, comment or test speaks of, although the models reach them: in
  `HubEntry` and `ConfigEntries` an entry after a failed unload, a device given up on after one unusable answer, a `stop()` that waits
  for a connection attempt without a timeout, a purifier whose `deviceAdded` was lost.

Home Assistant, the `dirigera` library, websocket-client and the hub are modelled only as far as the
code meets them (`external` in the map). Python's memory and the GIL are taken as they are: single
accesses are atomic. Two hubs share only the two dictionaries of remote presses, whose keys contain
the remote. Wording, logging and icons are left out.
