------------------------------ MODULE HubEntry ------------------------------
(***************************************************************************)
(* The life of one hub's config entry: setup and unload (__init__.py,      *)
(* ikea_gateway.py, the platforms), the registry that takes WebSocket      *)
(* events to device objects (hub_event_listener.py) and the runtime        *)
(* discovery of new devices (device_discovery.py).  Steps are what runs    *)
(* between two awaits of the event loop.                                   *)
(***************************************************************************)
EXTENDS Naturals, FiniteSets

CONSTANTS
  Devices,
  TypeOf,      \* the deviceType of each device
  Selected,    \* the platforms the user imports (resolve_platforms)
  Incomplete,  \* devices whose first answer to discovery may be unusable
  MaxSetups    \* bound: setups between two restarts of Home Assistant

\* DEVICE_TYPE_TO_PLATFORM; the platform that shows the device, at setup and later.
PlatformOf == [light |-> "light", outlet |-> "switch", airPurifier |-> "fan",
               blinds |-> "cover", environmentSensor |-> "sensor",
               controller |-> "sensor", motionSensor |-> "binary_sensor",
               lightSensor |-> "sensor", openCloseSensor |-> "binary_sensor",
               waterSensor |-> "binary_sensor"]
\* The order of make_devices.
MakeOrder == [light |-> 1, blinds |-> 2, airPurifier |-> 3, outlet |-> 4,
              environmentSensor |-> 5, controller |-> 6, openCloseSensor |-> 7,
              motionSensor |-> 8, lightSensor |-> 9, waterSensor |-> 10]
\* process_events_from: state events of the other types are dropped.
Pushes == DOMAIN PlatformOf \ {"airPurifier", "controller"}
\* _create_entity has no entity for these.
NoRuntime == {"environmentSensor", "controller"}
\* Types that also get sensors beside their own entity, a battery level, the energy of a
\* plug or what a purifier measures: from sensor.py at setup, and from the coordinator later.
\* (An environment sensor and a controller are sensors themselves; a light sensor's battery
\* is its motion half's.)
SetupCompanions == {"outlet", "motionSensor", "openCloseSensor", "waterSensor", "blinds",
                    "airPurifier"}
FoundCompanions == {"outlet", "motionSensor", "openCloseSensor", "waterSensor"}

ASSUME DevicesAssumption == TypeOf \in [Devices -> DOMAIN PlatformOf]
ASSUME SetupsAssumption == MaxSetups \in Nat \ {0}

VARIABLES
  onHub,       \* the devices paired with the hub
  phase,       \* where setup or unload stands
  gen,         \* the number of the setup
  todo,        \* make_devices: types not fetched yet
  snapshot,    \* the one /devices answer make_devices works on
  built,       \* devices with an object in the gateway
  waiting,     \* platforms not set up yet
  entity,      \* the object the loaded platforms show for a device
  registry,    \* device_registry: the object events of a device go to
  listening,   \* the listener thread handles messages
  coord,       \* the discovery coordinator of each setup
  tasks,       \* discover_device calls, scheduled or at an await
  companions,  \* how many times the companion sensors of a device were handed over
  handed,      \* history: entities handed to Home Assistant in this setup
  bare,        \* history: devices discovered without the energy half of their plug
  orphaned     \* history: registered by a setup that no longer exists

shownVars == <<companions, handed, bare>>
setupVars == <<phase, gen, todo, snapshot, built, waiting>>
vars == <<onHub, setupVars, entity, registry, listening, coord, tasks, shownVars, orphaned>>

Types == {TypeOf[d] : d \in Devices}
Platform(d) == PlatformOf[TypeOf[d]]
Gens == 1 .. MaxSetups
Object == [gen : Gens, by : {"setup", "discovery"}]
None == [gen |-> 0, by |-> "nobody"]
Made(g) == [gen |-> g, by |-> "setup"]
Found(g) == [gen |-> g, by |-> "discovery"]
Phases == {"idle", "making", "forwarding", "loaded", "stopping", "deleting",
           "unloading", "failed"}
Coordinator == [callbacks : SUBSET Selected, known : SUBSET Devices,
                pending : SUBSET Devices, unsupported : SUBSET Devices]
NewCoordinator == [callbacks |-> {}, known |-> {}, pending |-> {}, unsupported |-> {}]
Task == [gen : Gens, dev : Devices, at : {"start", "fetch", "merge"}]

TypeOK ==
  /\ onHub \subseteq Devices /\ phase \in Phases /\ gen \in 0 .. MaxSetups
  /\ todo \subseteq Types /\ waiting \subseteq Selected
  /\ snapshot \subseteq Devices /\ built \subseteq snapshot
  /\ entity \in [Devices -> Object \cup {None}]
  /\ registry \in [Devices -> Object \cup {None}]
  /\ listening \in BOOLEAN
  /\ coord \in [Gens -> Coordinator]
  /\ tasks \subseteq Task
  /\ handed \in [Devices -> 0 .. 2] /\ companions \in [Devices -> 0 .. 2]
  /\ bare \subseteq Devices
  /\ orphaned \subseteq Devices

\* What a process starts with.
Fresh ==
  /\ phase' = "idle" /\ gen' = 0 /\ todo' = {} /\ snapshot' = {} /\ built' = {}
  /\ waiting' = {} /\ listening' = FALSE /\ tasks' = {} /\ orphaned' = {}
  /\ entity' = [d \in Devices |-> None] /\ registry' = [d \in Devices |-> None]
  /\ coord' = [g \in Gens |-> NewCoordinator] /\ handed' = [d \in Devices |-> 0]
  /\ companions' = [d \in Devices |-> 0] /\ bare' = {}

Init ==
  /\ onHub \in SUBSET Devices
  /\ phase = "idle" /\ gen = 0 /\ todo = {} /\ snapshot = {} /\ built = {}
  /\ waiting = {} /\ listening = FALSE /\ tasks = {} /\ orphaned = {}
  /\ entity = [d \in Devices |-> None] /\ registry = [d \in Devices |-> None]
  /\ coord = [g \in Gens |-> NewCoordinator] /\ handed = [d \in Devices |-> 0]
  /\ companions = [d \in Devices |-> 0] /\ bare = {}

-----------------------------------------------------------------------------
(* The registry.                                                           *)

\* hub_event_listener.register, for each device of ds: the first one to register stays.
Register(ds, o) ==
  registry' = [d \in Devices |-> IF d \in ds /\ registry[d] = None THEN o ELSE registry[d]]

-----------------------------------------------------------------------------
(* Setup.                                                                  *)

\* async_setup_entry: first setup, a retry of one that failed, or after an unload.
BeginSetup ==
  /\ phase = "idle" /\ gen < MaxSetups
  /\ phase' = "making" /\ gen' = gen + 1
  /\ todo' = Types
  /\ built' = {} /\ snapshot' = {}
  /\ UNCHANGED <<onHub, waiting, entity, registry, listening, coord, tasks, shownVars,
                 orphaned>>

\* make_devices: one get_X call, after which the objects of that type register.  The
\* first one fetches /devices, the others find that answer in the batch cache.
MakeDevices ==
  /\ phase = "making"
  /\ snapshot' = IF todo = Types THEN onHub ELSE snapshot
  /\ \E t \in todo :
       /\ \A u \in todo : MakeOrder[t] <= MakeOrder[u]
       /\ LET new == {d \in snapshot' : TypeOf[d] = t}
          IN built' = built \cup new /\ Register(new, Made(gen))
       /\ todo' = todo \ {t}
  /\ UNCHANGED <<onHub, phase, gen, waiting, entity, listening, coord, tasks, shownVars,
                 orphaned>>

\* Mutant of ForgetGateway: the gateway keeps its objects.
ForgetSnapshot == todo' = {} /\ snapshot' = {} /\ UNCHANGED built

ForgetGateway == todo' = {} /\ snapshot' = {} /\ built' = {}

\* The hub cannot be reached, or an answer cannot be converted: setup fails, to be
\* retried.  What has registered stays.
MakeFails ==
  /\ phase = "making" /\ todo # {}
  /\ phase' = "idle" /\ ForgetGateway
  /\ orphaned' = orphaned \cup {d \in built : registry[d] = Made(gen)}
  /\ UNCHANGED <<onHub, gen, waiting, entity, registry, listening, coord, tasks, shownVars>>

\* A coordinator, and async_forward_entry_setups.
Forward ==
  /\ phase = "making" /\ todo = {}
  /\ phase' = "forwarding" /\ waiting' = Selected
  /\ coord' = [coord EXCEPT ![gen] = NewCoordinator]
  /\ UNCHANGED <<onHub, gen, todo, snapshot, built, entity, registry, listening, tasks,
                 shownVars, orphaned>>

\* sensor.py also adds the companion sensors of what the other platforms show.
AddCompanions(p) ==
  /\ companions' = [d \in Devices |-> companions[d] +
       IF p = "sensor" /\ d \in built /\ TypeOf[d] \in SetupCompanions THEN 1 ELSE 0]
  /\ UNCHANGED bare

\* Mutant of SetUpPlatform: it does not tell the coordinator what it shows.
SetUpPlatformUnknown(p) ==
  /\ p \in waiting /\ waiting' = waiting \ {p}
  /\ LET new == {d \in built : Platform(d) = p}
     IN /\ entity' = [d \in Devices |-> IF d \in new THEN Made(gen) ELSE entity[d]]
        /\ handed' = [d \in Devices |-> handed[d] + IF d \in new THEN 1 ELSE 0]
        /\ coord' = [coord EXCEPT ![gen].callbacks = @ \cup {p}]
  /\ AddCompanions(p)
  /\ UNCHANGED <<onHub, phase, gen, todo, snapshot, built, registry, listening, tasks,
                 orphaned>>

\* The async_setup_entry of platform p: hands over the entities of its devices, and its
\* callback and those devices to the coordinator.
SetUpPlatform(p) ==
  /\ p \in waiting /\ waiting' = waiting \ {p}
  /\ LET new == {d \in built : Platform(d) = p}
     IN /\ entity' = [d \in Devices |-> IF d \in new THEN Made(gen) ELSE entity[d]]
        /\ handed' = [d \in Devices |-> handed[d] + IF d \in new THEN 1 ELSE 0]
        /\ coord' = [coord EXCEPT ![gen].callbacks = @ \cup {p}, ![gen].known = @ \cup new]
  /\ AddCompanions(p)
  /\ UNCHANGED <<onHub, phase, gen, todo, snapshot, built, registry, listening, tasks,
                 orphaned>>

\* sensor.py asks the hub for a scene per controller.  When that fails, Home Assistant
\* logs it and the entry goes on without the platform.
SetUpPlatformFails(p) ==
  /\ p \in waiting /\ p = "sensor" /\ \E d \in built : TypeOf[d] = "controller"
  /\ waiting' = waiting \ {p}
  /\ UNCHANGED <<onHub, phase, gen, todo, snapshot, built, entity, registry, listening,
                 coord, tasks, shownVars, orphaned>>

\* The listener starts, after the platforms; the name and area sync does not wait.
StartListener ==
  /\ phase = "forwarding" /\ waiting = {}
  /\ phase' = "loaded" /\ listening' = TRUE
  /\ UNCHANGED <<onHub, gen, todo, snapshot, built, waiting, entity, registry, coord,
                 tasks, shownVars, orphaned>>

-----------------------------------------------------------------------------
(* Unload.                                                                 *)

\* async_unload_entry: stop() in the executor; the thread ends after its last message.
Unload ==
  /\ phase = "loaded" /\ phase' = "stopping"
  /\ UNCHANGED <<onHub, gen, todo, snapshot, built, waiting, entity, registry, listening,
                 coord, tasks, shownVars, orphaned>>

\* Mutant of Stopped: the hub's registry is kept.
StoppedKeeps ==
  /\ phase = "stopping" /\ phase' = "deleting"
  /\ listening' = FALSE /\ orphaned' = {}
  /\ UNCHANGED <<onHub, gen, todo, snapshot, built, waiting, entity, registry, coord,
                 tasks, shownVars>>

\* stop() has joined the thread: unregister_hub.
Stopped ==
  /\ phase = "stopping" /\ phase' = "deleting"
  /\ listening' = FALSE
  /\ registry' = [d \in Devices |-> None] /\ orphaned' = {}
  /\ UNCHANGED <<onHub, gen, todo, snapshot, built, waiting, entity, coord, tasks, shownVars>>

\* delete_empty_scenes; an error ends the unload, and Home Assistant gives up on the entry.
DeleteScenes ==
  /\ phase = "deleting" /\ phase' \in {"unloading", "failed"}
  /\ UNCHANGED <<onHub, gen, todo, snapshot, built, waiting, entity, registry, listening,
                 coord, tasks, shownVars, orphaned>>

\* async_unload_platforms removes the entities, and the entry's data goes; only calls
\* under way still know their coordinator.
UnloadPlatforms ==
  /\ phase = "unloading" /\ phase' = "idle" /\ ForgetGateway
  /\ entity' = [d \in Devices |-> None] /\ handed' = [d \in Devices |-> 0]
  /\ companions' = [d \in Devices |-> 0] /\ bare' = {}
  /\ coord' = [g \in Gens |-> IF \E t \in tasks : t.gen = g THEN coord[g]
                              ELSE NewCoordinator]
  /\ UNCHANGED <<onHub, gen, waiting, registry, listening, tasks, orphaned>>

Restart == Fresh /\ UNCHANGED onHub

-----------------------------------------------------------------------------
(* Discovery.                                                              *)

Schedule(d) == tasks' = tasks \cup {[gen |-> gen, dev |-> d, at |-> "start"]}

\* A device is paired: deviceAdded, lost when nobody listens.
Pair(d) ==
  /\ d \notin onHub /\ onHub' = onHub \cup {d}
  /\ IF listening THEN Schedule(d) ELSE UNCHANGED tasks
  /\ UNCHANGED <<setupVars, entity, registry, listening, coord, shownVars, orphaned>>

\* A device leaves: deviceRemoved only runs the stale check, which removes nothing.
Unpair(d) ==
  /\ onHub' = onHub \ {d}
  /\ UNCHANGED <<setupVars, entity, registry, listening, coord, tasks, shownVars, orphaned>>

\* on_message: a state event of a device without an object.
HearUnknown(d) ==
  /\ listening /\ d \in onHub
  /\ TypeOf[d] \in Pushes /\ registry[d] = None
  /\ Schedule(d)
  /\ UNCHANGED <<onHub, setupVars, entity, registry, listening, coord, shownVars, orphaned>>

Move(t, at) == tasks' = (tasks \ {t}) \cup {[t EXCEPT !.at = at]}
End(t) == tasks' = tasks \ {t}

\* Mutant of Start: no guard against a discovery under way.
StartTwice(t) ==
  /\ t.at = "start"
  /\ LET c == coord[t.gen] IN
     IF t.dev \in c.known \cup c.unsupported \/ Platform(t.dev) \notin c.callbacks
     THEN End(t) /\ UNCHANGED coord
     ELSE Move(t, "fetch") /\ coord' = [coord EXCEPT ![t.gen].pending = @ \cup {t.dev}]
  /\ UNCHANGED <<onHub, setupVars, entity, registry, listening, shownVars, orphaned>>

\* discover_device, up to its first await.
Start(t) ==
  /\ t.at = "start"
  /\ LET c == coord[t.gen] IN
     IF \/ t.dev \in c.pending \cup c.known \cup c.unsupported
        \/ Platform(t.dev) \notin c.callbacks
     THEN End(t) /\ UNCHANGED coord
     ELSE Move(t, "fetch") /\ coord' = [coord EXCEPT ![t.gen].pending = @ \cup {t.dev}]
  /\ UNCHANGED <<onHub, setupVars, entity, registry, listening, shownVars, orphaned>>

\* Mutant of FetchFails: the early return skips the finally.
FetchFailsPending(t) ==
  /\ t.at = "fetch"
  /\ End(t) /\ UNCHANGED coord
  /\ UNCHANGED <<onHub, setupVars, entity, registry, listening, shownVars, orphaned>>

\* The hub does not answer, or no longer knows the device.
FetchFails(t) ==
  /\ t.at = "fetch"
  /\ End(t) /\ coord' = [coord EXCEPT ![t.gen].pending = @ \ {t.dev}]
  /\ UNCHANGED <<onHub, setupVars, entity, registry, listening, shownVars, orphaned>>

\* An answer no entity can be made of, or a Matter device the user leaves out: the device
\* is not asked for again.
GiveUp(t) ==
  /\ t.at = "fetch" /\ t.dev \in onHub
  /\ TypeOf[t.dev] \in NoRuntime \/ t.dev \in Incomplete
  /\ End(t)
  /\ coord' = [coord EXCEPT ![t.gen].pending = @ \ {t.dev},
                            ![t.gen].unsupported = @ \cup {t.dev}]
  /\ UNCHANGED <<onHub, setupVars, entity, registry, listening, shownVars, orphaned>>

\* An outlet is fetched again, merged with its energy sensor.
FetchMerged(t) ==
  /\ t.at = "fetch" /\ t.dev \in onHub /\ TypeOf[t.dev] = "outlet"
  /\ Move(t, "merge")
  /\ UNCHANGED <<onHub, setupVars, entity, registry, listening, coord, shownVars, orphaned>>

\* Mutant of HandCompanions: the companions of a discovered plug wait for a restart.
HandOnlyBatteries(t, full) ==
  LET has == /\ "sensor" \in coord[t.gen].callbacks
             /\ TypeOf[t.dev] \in FoundCompanions \ {"outlet"}
  IN companions' = IF has THEN [companions EXCEPT ![t.dev] = @ + 1] ELSE companions

\* _add_battery_companion and _add_registered_companions, through the sensor platform.
HandCompanions(t, full) ==
  LET has == /\ "sensor" \in coord[t.gen].callbacks
             /\ TypeOf[t.dev] \in FoundCompanions /\ full
  IN companions' = IF has THEN [companions EXCEPT ![t.dev] = @ + 1] ELSE companions

\* The object is made and registers, and its entity goes to the platform's callback, then
\* its companions.  Nothing here asks whether the setup of this coordinator is still there;
\* if not, the platform behind the callback is not there either.
Deliver(t, full) ==
  LET d == t.dev
      shown == t.gen = gen /\ phase \in {"loaded", "stopping", "deleting", "failed"}
      late == t.gen # gen \/ phase \notin {"loaded", "stopping"}
  IN /\ Register({d}, Found(t.gen))
     /\ entity' = IF shown /\ entity[d] = None
                  THEN [entity EXCEPT ![d] = Found(gen)] ELSE entity
     /\ handed' = IF shown THEN [handed EXCEPT ![d] = @ + 1] ELSE handed
     /\ IF shown THEN HandCompanions(t, full) ELSE UNCHANGED companions
     /\ bare' = IF shown /\ ~full THEN bare \cup {d} ELSE bare
     /\ orphaned' = IF late /\ registry[d] = None THEN orphaned \cup {d} ELSE orphaned
     /\ coord' = [coord EXCEPT ![t.gen].pending = @ \ {d}, ![t.gen].known = @ \cup {d}]
     /\ End(t)
     /\ UNCHANGED <<onHub, setupVars, listening>>

Discovered(t) ==
  /\ \/ t.at = "fetch" /\ t.dev \in onHub /\ TypeOf[t.dev] \notin NoRuntime \cup {"outlet"}
     \/ t.at = "merge"
  /\ Deliver(t, TRUE)

\* get_outlet_by_id fails: the plug is made of the first answer, without the energy half.
DiscoveredBare(t) == t.at = "merge" /\ Deliver(t, FALSE)

-----------------------------------------------------------------------------

Setup ==
  \/ BeginSetup \/ MakeDevices \/ MakeFails \/ Forward \/ StartListener
  \/ \E p \in Selected : SetUpPlatform(p) \/ SetUpPlatformFails(p)
Unloading == Unload \/ Stopped \/ DeleteScenes \/ UnloadPlatforms \/ Restart
Discovery ==
  \/ \E d \in Devices : Pair(d) \/ Unpair(d) \/ HearUnknown(d)
  \/ \E t \in tasks :
       Start(t) \/ FetchFails(t) \/ GiveUp(t) \/ FetchMerged(t) \/ Discovered(t)
       \/ DiscoveredBare(t)
Next == Setup \/ Unloading \/ Discovery

Spec == Init /\ [][Next]_vars

\* The loop runs what is scheduled, a device that stays paired keeps reporting, and the
\* hub does not fail forever.
Answer(t) == FetchMerged(t) \/ Discovered(t) \/ DiscoveredBare(t)
Current(d, at) == {t \in tasks : t.dev = d /\ t.gen = gen /\ t.at \in at}
Fairness ==
  \A d \in Devices :
    /\ WF_vars(HearUnknown(d))
    /\ WF_vars(\E t \in Current(d, {"start"}) : Start(t))
    /\ SF_vars(\E t \in Current(d, {"fetch", "merge"}) : Answer(t))
FairSpec == Spec /\ Fairness

-----------------------------------------------------------------------------
(* Properties.                                                             *)

\* State pushed by the hub reaches the entity Home Assistant shows: the registry takes
\* the device to the object behind it.  The exception is an id left in the registry by a
\* setup that failed half way, or by a discovery that outlived its setup: register keeps
\* the dead object, and nothing removes it before the next unload.
UpdatesReachEntity ==
  phase = "loaded" =>
    \A d \in Devices \ orphaned : entity[d] # None => registry[d] = entity[d]

\* Setup and discovery together hand Home Assistant one entity per device, however
\* pairing, events, answers and reloads interleave (the dedup of discover_device).
AddedOnce == \A d \in Devices : handed[d] <= 1 /\ companions[d] <= 1

\* A device comes with its companion sensors, whether setup or discovery made it, in which
\* ever order the platforms are set up.  Excepted are a plug of which the energy half could
\* not be fetched, a type only setup knows companions of, and no sensor platform.
CompanionsToo ==
  phase = "loaded" /\ "sensor" \in coord[gen].callbacks =>
    \A d \in Devices \ bare :
      entity[d] # None /\ TypeOf[d] \in FoundCompanions => companions[d] = 1

\* _pending_discovery holds exactly the devices a call is waiting for, one call each, and
\* none of them is one that has an entity or was given up on: no event of such a device
\* costs a fetch (issue #39), and no failure leaves a device pending forever.
Coordinated ==
  \A g \in Gens :
    LET flying == {t \in tasks : t.gen = g /\ t.at # "start"} IN
    /\ coord[g].pending = {t.dev : t \in flying}
    /\ Cardinality(flying) = Cardinality(coord[g].pending)
    /\ coord[g].pending \cap (coord[g].known \cup coord[g].unsupported) = {}

\* A new device that runtime discovery supports gets its entity, although its deviceAdded
\* may be lost and fetches may fail: every state event is a retry.
Discoverable(d) ==
  /\ TypeOf[d] \in Pushes \ NoRuntime /\ d \notin Incomplete
  /\ Platform(d) \in coord[gen].callbacks
NewDeviceAppears ==
  \A d \in Devices :
    phase = "loaded" /\ d \in onHub /\ Discoverable(d)
      ~> entity[d] # None \/ phase # "loaded" \/ d \notin onHub \/ d \in orphaned

\* "automatic retry on connection failure (ConfigEntryNotReady) instead of requiring
\* manual reloads" (README.md): a loaded entry shows every device its setup found on a
\* selected platform.
CompleteOrRetried ==
  phase = "loaded" =>
    \A d \in built : Platform(d) \in Selected => entity[d] # None
=============================================================================
