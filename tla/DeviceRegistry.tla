--------------------------- MODULE DeviceRegistry ---------------------------
(***************************************************************************)
(* What the integration does to Home Assistant's entity and device         *)
(* registries: the platforms an entry sets up and the ghosts of those it   *)
(* does not (__init__.py), and the devices the hub no longer has           *)
(* (stale_devices.py), while the user changes the options and disables,    *)
(* enables and deletes by hand.                                            *)
(***************************************************************************)
EXTENDS FiniteSets, Naturals

CONSTANTS
  Devices, Entities, Domains,
  Parts,       \* the entries the hub's /devices may have: a device, or half of a split one
  Carries,     \* the devices named by an entry: its id or relationId, and its device sets
  PlatformOf,  \* DEVICE_TYPE_TO_PLATFORM of an entry
  MadeFrom,    \* the entries an entity is made from, any one of which will do
  DeviceOf,    \* [Entities -> Devices]
  DomainOf,    \* [Entities -> Domains]
  AtSetup,     \* the entities only a setup makes: device sets, merged sensors, controllers
  DefaultOff,  \* the entities with _attr_entity_registry_enabled_default = False
  Matter,      \* the entries the hub has over Matter
  DryRun,      \* DRY_RUN
  MaxMoves,    \* bound: entries joining or leaving the list
  MaxHand      \* bound: what the user does by hand

\* Who has asked for /devices: nobody, the check for stale devices, or a device's deletion.
Nobody == "nobody"
Hub == "hub"

ASSUME RegistryAssumption ==
  /\ DeviceOf \in [Entities -> Devices] /\ DomainOf \in [Entities -> Domains]
  /\ Carries \in [Parts -> SUBSET Devices] /\ PlatformOf \in [Parts -> Domains]
  /\ MadeFrom \in [Entities -> SUBSET Parts]
  /\ \A e \in Entities : \A p \in MadeFrom[e] : DeviceOf[e] \in Carries[p]
  /\ {DefaultOff, AtSetup} \subseteq SUBSET Entities /\ Matter \subseteq Parts
  /\ Entities \cap Devices = {} /\ {Nobody, Hub} \cap Devices = {}
  /\ DryRun \in BOOLEAN /\ {MaxHand, MaxMoves} \subseteq Nat /\ IsFiniteSet(Devices)

VARIABLES
  hub,        \* the entries the hub lists
  selected,   \* CONF_ENABLED_PLATFORMS
  exclude,    \* CONF_EXCLUDE_MATTER
  options,    \* the entry's options as the setup read them
  at,         \* where the entry stands
  found,      \* the entries make_devices, or discovery, has made devices of
  running,    \* the platforms set up for the entry and not unloaded
  ent,        \* disabled_by of each entity in the registry
  device,     \* disabled_by of each device
  check,      \* for whom /devices is being looked at, and the identifiers on it
  moves,      \* how many entries have joined or left the list so far
  hand,       \* what the user has done by hand so far
  mine,       \* history: entities and devices the user keeps disabled
  opened,     \* history: those enabled since, or with their device by, the last sync
  asked,      \* history: entities of DefaultOff the user has ever enabled
  joined      \* history: devices named by entries that joined the list during a check

entry == <<options, at, found, running>>
registry == <<ent, device>>
history == <<mine, opened, asked, joined>>
vars == <<hub, selected, exclude, entry, registry, check, moves, hand, history>>

EntitiesOf(d) == {e \in Entities : DeviceOf[e] = d}
Unset == [platforms |-> {}, exclude |-> FALSE]

TypeOK ==
  /\ {hub, found} \subseteq SUBSET Parts /\ joined \subseteq Devices
  /\ {selected, running} \subseteq SUBSET Domains /\ exclude \in BOOLEAN
  /\ options \in [platforms : SUBSET Domains, exclude : BOOLEAN]
  /\ at \in {"down", "making", "forwarding", "up", "failed"}
  /\ ent \in [Entities -> {"absent", "enabled", "integration", "user", "device"}]
  /\ device \in [Devices -> {"absent", "enabled", "integration", "user"}]
  /\ check \in [who : {Nobody, Hub} \cup Devices, known : SUBSET Devices]
  /\ hand \in 0 .. MaxHand /\ moves \in 0 .. MaxMoves
  /\ {mine, opened} \subseteq SUBSET (Entities \cup Devices) /\ asked \subseteq DefaultOff

Init ==
  /\ hub \in SUBSET Parts /\ selected = {} /\ exclude = FALSE
  /\ options = Unset /\ at = "down" /\ found = {} /\ running = {}
  /\ ent = [e \in Entities |-> "absent"] /\ device = [d \in Devices |-> "absent"]
  /\ check = [who |-> Nobody, known |-> {}] /\ hand = 0 /\ moves = 0
  /\ mine = {} /\ opened = {} /\ asked = {} /\ joined = {}

-----------------------------------------------------------------------------
(* Home Assistant's registries.  A disabled device disables its entities   *)
(* that are not, and gives them back when it is enabled.                   *)

Cascade(entities, devices) ==
  [e \in Entities |->
     LET off == devices[DeviceOf[e]] \in {"integration", "user"} IN
       IF off /\ entities[e] = "enabled" THEN "device"
       ELSE IF ~off /\ entities[e] = "device" THEN "enabled" ELSE entities[e]]

\* The user, at most MaxHand times, disables an entity, ...
ByHand ==
  /\ hand < MaxHand /\ hand' = hand + 1
  /\ UNCHANGED <<hub, selected, exclude, entry, check, moves, joined>>
DisableEntity(e) ==
  /\ ByHand /\ ent[e] = "enabled"
  /\ ent' = [ent EXCEPT ![e] = "user"] /\ mine' = mine \cup {e}
  /\ UNCHANGED <<device, opened, asked>>

\* ... or enables one, his own or not, ...
EnableEntity(e) ==
  /\ ByHand /\ ent[e] \in {"user", "integration"} /\ device[DeviceOf[e]] = "enabled"
  /\ ent' = [ent EXCEPT ![e] = "enabled"] /\ mine' = mine \ {e}
  /\ opened' = opened \cup {e} /\ asked' = asked \cup ({e} \cap DefaultOff)
  /\ UNCHANGED device

\* ... and likewise a device.
DisableDevice(d) ==
  /\ ByHand /\ device[d] = "enabled"
  /\ device' = [device EXCEPT ![d] = "user"] /\ ent' = Cascade(ent, device')
  /\ mine' = mine \cup {d}
  /\ UNCHANGED <<opened, asked>>
EnableDevice(d) ==
  /\ ByHand /\ device[d] \in {"user", "integration"}
  /\ device' = [device EXCEPT ![d] = "enabled"] /\ ent' = Cascade(ent, device')
  /\ mine' = mine \ {d} /\ opened' = opened \cup {d} \cup EntitiesOf(d)
  /\ UNCHANGED asked

-----------------------------------------------------------------------------
(* The entry.                                                              *)

\* No selection means every platform.
resolve_platforms(platforms) == IF platforms = {} THEN Domains ELSE platforms

\* The options flow stores a new choice; the reload it causes is an Unload and a Setup.
Choose ==
  /\ \E s \in SUBSET Domains, x \in BOOLEAN :
       <<s, x>> # <<selected, exclude>> /\ selected' = s /\ exclude' = x
  /\ UNCHANGED <<hub, entry, registry, check, moves, hand, history>>

\* async_setup_entry copies the entry's data before it awaits the devices.
Setup ==
  /\ at = "down" /\ at' = "making"
  /\ options' = [platforms |-> resolve_platforms(selected), exclude |-> exclude]
  /\ UNCHANGED <<hub, selected, exclude, found, running, registry, check, moves, hand, history>>

\* ConfigEntryNotReady: it is tried again.
NotReady ==
  /\ at = "making" /\ at' = "down" /\ options' = Unset
  /\ UNCHANGED <<hub, selected, exclude, found, running, registry, check, moves, hand, history>>

\* Mutant of SyncEntity: what anybody disabled is enabled.
SyncEntityAll(e, wanted) ==
  IF DomainOf[e] \notin wanted /\ ent[e] = "enabled" THEN "integration"
  ELSE IF DomainOf[e] \in wanted /\ ent[e] \in {"integration", "user"} THEN "enabled" ELSE ent[e]

\* Mutant of SyncEntity: only the hiding half.
SyncEntityHides(e, wanted) ==
  IF DomainOf[e] \notin wanted /\ ent[e] = "enabled" THEN "integration" ELSE ent[e]

\* Hidden when its platform is not selected, shown again when it is.
SyncEntity(e, wanted) ==
  IF DomainOf[e] \notin wanted /\ ent[e] = "enabled" THEN "integration"
  ELSE IF DomainOf[e] \in wanted /\ ent[e] = "integration" THEN "enabled" ELSE ent[e]

\* Mutant of SyncDevice: "Disabling the entities alone was not enough".
SyncDeviceNot(d, wanted) == device[d]

\* A device is, when not one of its entities is on a selected platform.
SyncDevice(d, wanted) ==
  LET its == {e \in EntitiesOf(d) : ent[e] # "absent"}
      keep == \E e \in its : DomainOf[e] \in wanted
  IN IF its = {} THEN device[d]
     ELSE IF ~keep /\ device[d] = "enabled" THEN "integration"
     ELSE IF keep /\ device[d] = "integration" THEN "enabled" ELSE device[d]

\* The entries HubX keeps of the hub's list.
Imported == IF options.exclude THEN hub \ Matter ELSE hub

\* They are made; sync_platform_entity_registry and
\* _sync_device_registry run, and the platforms are forwarded to.
Sync ==
  /\ at = "making" /\ at' = "forwarding"
  /\ found' = Imported
  /\ device' = [d \in Devices |-> SyncDevice(d, options.platforms)]
  /\ ent' = Cascade([e \in Entities |-> SyncEntity(e, options.platforms)], device')
  /\ running' = running \cup options.platforms
  /\ opened' = {e \in Entities : ent[e] = "device"}
  /\ UNCHANGED <<hub, selected, exclude, options, check, moves, hand, mine, asked, joined>>

\* Home Assistant registers the entities that are new, and the device with them.
Registering(es) ==
  /\ device' = [d \in Devices |-> IF device[d] = "absent" /\ EntitiesOf(d) \cap es # {}
                                  THEN "enabled" ELSE device[d]]
  /\ ent' = Cascade([e \in Entities |->
                       IF e \notin es \/ ent[e] # "absent" THEN ent[e]
                       ELSE IF e \in DefaultOff THEN "integration" ELSE "enabled"], device')

\* The entities the platforms set up make from the entries ps.
Added(ps) == {e \in Entities : DomainOf[e] \in options.platforms /\ MadeFrom[e] \cap ps # {}}

\* async_forward_entry_setups.
Forward ==
  /\ at = "forwarding" /\ at' = "up" /\ Registering(Added(found))
  /\ UNCHANGED <<hub, selected, exclude, options, found, running, check, moves, hand, history>>

\* An entry that joined since is discovered while the entry is up, unless its own platform is
\* not set up (device_discovery.py).
Discover(p) ==
  /\ at = "up" /\ p \in Imported \ found /\ PlatformOf[p] \in options.platforms
  /\ found' = found \cup {p} /\ Registering(Added({p}) \ AtSetup)
  /\ UNCHANGED <<hub, selected, exclude, options, at, running, check, moves, hand, history>>

\* Mutant of Unloaded: what the options say now is unloaded.
UnloadedNow == resolve_platforms(selected)

Unloaded == options.platforms

\* async_unload_entry unloads the platforms stored at the setup, and forgets the entry.
Unload ==
  /\ at = "up" /\ at' = "down" /\ running' = running \ Unloaded
  /\ options' = Unset /\ found' = {} /\ opened' = {}
  /\ UNCHANGED <<hub, selected, exclude, registry, check, moves, hand, mine, asked, joined>>

\* It fails: delete_empty_scenes does before anything is unloaded, or one of the platforms
\* is left.  Home Assistant then neither unloads nor sets up the entry until it restarts.
UnloadFails ==
  /\ at = "up" /\ at' = "failed" /\ found' = {} /\ opened' = {}
  /\ \/ UNCHANGED <<running, options>>
     \/ running' \in (SUBSET running) \ {{}} /\ options' = Unset
  /\ UNCHANGED <<hub, selected, exclude, registry, check, moves, hand, mine, asked, joined>>

\* Home Assistant restarts, with its registries and the entry's choices.
Restart ==
  /\ at' = "down" /\ options' = Unset /\ found' = {} /\ running' = {} /\ opened' = {}
  /\ check' = [who |-> Nobody, known |-> {}] /\ joined' = {}
  /\ UNCHANGED <<hub, selected, exclude, registry, moves, hand, mine, asked>>

-----------------------------------------------------------------------------
(* The devices the hub no longer has.                                      *)

Leave(p) ==
  /\ p \in hub /\ hub' = hub \ {p} /\ moves < MaxMoves /\ moves' = moves + 1
  /\ UNCHANGED <<selected, exclude, entry, registry, check, hand, history>>
Join(p) ==
  /\ p \notin hub /\ hub' = hub \cup {p} /\ moves < MaxMoves /\ moves' = moves + 1
  /\ joined' = IF check.who = Nobody THEN joined ELSE joined \cup Carries[p]
  /\ UNCHANGED <<selected, exclude, entry, registry, check, hand, mine, opened, asked>>

\* Every identifier on the hub's raw list: any entry that names a device makes it known.
known_identifiers == UNION {Carries[p] : p \in hub}

\* The list is asked for by the check, which a loaded entry makes, or by the user's deletion
\* of a device (async_remove_config_entry_device); an empty list, or no answer, ends either.
Ask(who) ==
  /\ check.who = Nobody /\ hub # {}
  /\ check' = [who |-> who, known |-> known_identifiers]
  /\ IF who = Hub THEN at = "up" /\ UNCHANGED hand
     ELSE hand < MaxHand /\ device[who] # "absent" /\ hand' = hand + 1
  /\ UNCHANGED <<hub, selected, exclude, entry, registry, moves, history>>

\* Mutant of find_stale_devices: "removing this id blindly", with whatever device it names.
find_stale_devicesBlind ==
  {d \in Devices : device[d] # "absent" /\ \E p \in Parts \ hub : d \in Carries[p]}

\* A device of ours has one identifier, its relationId if it is split.
find_stale_devices == {d \in Devices : device[d] # "absent" /\ d \notin check.known}

\* Home Assistant removes a device's entities along with it.
Remove(ds) ==
  /\ device' = [d \in Devices |-> IF d \in ds THEN "absent" ELSE device[d]]
  /\ ent' = [e \in Entities |-> IF DeviceOf[e] \in ds THEN "absent" ELSE ent[e]]
  /\ mine' = {x \in mine : x \notin ds /\ ~\E d \in ds : x \in EntitiesOf(d)}
  /\ asked' = {e \in asked : DeviceOf[e] \notin ds}

\* async_remove_stale_devices: unless more than one, and more than half, would go.
RemoveStale ==
  /\ check.who = Hub /\ check' = [who |-> Nobody, known |-> {}] /\ joined' = {}
  /\ LET stale == find_stale_devices
         ours == {d \in Devices : device[d] # "absent"}
     IN Remove(IF DryRun \/ (Cardinality(stale) > 1 /\ 2 * Cardinality(stale) > Cardinality(ours))
               THEN {} ELSE stale)
  /\ UNCHANGED <<hub, selected, exclude, entry, moves, hand, opened>>

\* is_stale: the user may delete only what the hub lost.
Delete ==
  /\ check.who \in Devices /\ check' = [who |-> Nobody, known |-> {}] /\ joined' = {}
  /\ Remove({check.who} \cap find_stale_devices)
  /\ UNCHANGED <<hub, selected, exclude, entry, moves, hand, opened>>

-----------------------------------------------------------------------------

Next ==
  \/ \E e \in Entities : DisableEntity(e) \/ EnableEntity(e)
  \/ \E d \in Devices : DisableDevice(d) \/ EnableDevice(d)
  \/ \E p \in Parts : Discover(p) \/ Leave(p) \/ Join(p)
  \/ Choose \/ Setup \/ NotReady \/ Sync \/ Forward \/ Unload \/ UnloadFails \/ Restart
  \/ (\E who \in {Hub} \cup Devices : Ask(who)) \/ RemoveStale \/ Delete

Spec == Init /\ [][Next]_vars

-----------------------------------------------------------------------------
(* Properties.                                                             *)

Registered(e) == ent[e] # "absent"

\* Once an entry is set up no entity of a platform it does not import is left enabled, nor
\* a device with nothing else (sync_platform_entity_registry), unless the user has enabled
\* it since, or the sync itself did by giving back a device that had disabled it.
NoGhosts ==
  at \in {"forwarding", "up"} =>
    /\ \A e \in Entities \ opened :
         Registered(e) /\ DomainOf[e] \notin options.platforms => ent[e] # "enabled"
    /\ \A d \in Devices \ opened :
         /\ \E e \in EntitiesOf(d) : Registered(e)
         /\ \A e \in EntitiesOf(d) : Registered(e) => DomainOf[e] \notin options.platforms
         => device[d] # "enabled"

\* "Disabling ... survives a round trip intact, and is reversible"
\* (sync_platform_entity_registry): whatever was deselected in between, after it no entity
\* of a selected platform is disabled unless the user disabled it or its device, or it is
\* off by default and the user never enabled it.
Reversible ==
  [][at = "making" /\ at' = "forwarding" =>
       \A e \in Entities \ (DefaultOff \ asked) :
         Registered(e) /\ DomainOf[e] \in options.platforms /\ {e, DeviceOf[e]} \cap mine = {} =>
           ent'[e] = "enabled"]_vars

\* "Anything you disabled by hand is never touched" (README.md): it is disabled_by USER
\* through every change of the options, reload and failed setup until the user enables it.
HandsOff ==
  /\ \A e \in Entities : ent[e] = "user" <=> e \in mine
  /\ \A d \in Devices : device[d] = "user" <=> d \in mine

\* A reload unloads what was set up, also when the options changed in between
\* (async_unload_entry, test_platform_filtering.py): no platform is left without an owner,
\* unless the unload failed, and then until Home Assistant restarts.
NoOrphans ==
  at # "failed" => running = (IF at \in {"forwarding", "up"} THEN options.platforms ELSE {})

\* "A split device only goes once its last half is gone from the hub" (on_message), nor does
\* any other before the hub has lost it, however its list, the check, the user's deletions and
\* the filters of the import interleave (stale_devices.py).  The exception is a device that
\* joins the hub between its answer and the comparison.
Gone(d) == \A p \in hub : d \notin Carries[p]
OnlyTheLost ==
  [][\A d \in Devices :
       device[d] # "absent" /\ device'[d] = "absent" => Gone(d) \/ d \in joined]_vars

\* "Clearing a platform hides its existing entities" (README.md): none of a platform that
\* is not imported is enabled while the user does nothing by hand.
FilterHides ==
  at \in {"forwarding", "up"} =>
    \A e \in Entities :
      Registered(e) /\ DomainOf[e] \notin options.platforms => ent[e] # "enabled"

\* "This only ever touches what it disabled itself" (sync_platform_entity_registry): an
\* entity that is disabled by default stays so until the user enables it.
DefaultStaysOff == \A e \in DefaultOff \ asked : ent[e] # "enabled"
=============================================================================
