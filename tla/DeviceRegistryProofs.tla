------------------------ MODULE DeviceRegistryProofs ------------------------
(***************************************************************************)
(* Proofs about DeviceRegistry, for any devices, entities, platforms and   *)
(* filters, and any number of interventions by hand.                       *)
(***************************************************************************)
EXTENDS DeviceRegistry, TLAPS

EntityStates == {"absent", "enabled", "integration", "user", "device"}
DeviceStates == {"absent", "enabled", "integration", "user"}
Off(state) == state \in {"integration", "user"}

\* Only under a device that is off is an entity disabled by its device.
Consistent == \A e \in Entities : ent[e] = "device" => Off(device[DeviceOf[e]])

\* While a check is under way the hub lists nothing but what the check knows and what has
\* joined since the hub answered it.
KnownOrJoined == check.who # Nobody => known_identifiers \subseteq check.known \cup joined

IInv == TypeOK /\ HandsOff /\ NoOrphans /\ Consistent /\ NoGhosts /\ KnownOrJoined

-----------------------------------------------------------------------------

\* Home Assistant's cascade: whose choice a "user" is, and what is registered, it leaves
\* alone; it never enables what was not its device's doing.
LEMMA CascadeLemma ==
  ASSUME NEW es \in [Entities -> EntityStates], NEW ds \in [Devices -> DeviceStates]
  PROVE  /\ Cascade(es, ds) \in [Entities -> EntityStates]
         /\ \A e \in Entities :
              /\ Cascade(es, ds)[e] = "user" <=> es[e] = "user"
              /\ Cascade(es, ds)[e] = "absent" <=> es[e] = "absent"
              /\ Cascade(es, ds)[e] = "device" => Off(ds[DeviceOf[e]])
              /\ Cascade(es, ds)[e] = "enabled" =>
                   es[e] = "enabled" \/ (es[e] = "device" /\ ~Off(ds[DeviceOf[e]]))
              /\ es[e] \in {"enabled", "device"} /\ ~Off(ds[DeviceOf[e]]) =>
                   Cascade(es, ds)[e] = "enabled"
BY RegistryAssumption DEF Cascade, EntityStates, DeviceStates, Off

\* The sync of an entity and of a device: types, and the same two facts.
LEMMA SyncLemma ==
  ASSUME TypeOK, NEW wanted \in SUBSET Domains
  PROVE  /\ [e \in Entities |-> SyncEntity(e, wanted)] \in [Entities -> EntityStates]
         /\ [d \in Devices |-> SyncDevice(d, wanted)] \in [Devices -> DeviceStates]
         /\ \A e \in Entities : /\ SyncEntity(e, wanted) = "user" <=> ent[e] = "user"
                                /\ SyncEntity(e, wanted) = "absent" <=> ent[e] = "absent"
         /\ \A d \in Devices : /\ SyncDevice(d, wanted) = "user" <=> device[d] = "user"
                               /\ SyncDevice(d, wanted) = "absent" <=> device[d] = "absent"
BY RegistryAssumption DEF TypeOK, SyncEntity, SyncDevice, EntityStates, DeviceStates

\* What Home Assistant registers: the devices and entities asked for and no others; nobody's
\* choice changes.
LEMMA RegisteringLemma ==
  ASSUME TypeOK, Consistent, NEW es \in SUBSET Entities, Registering(es)
  PROVE  /\ device' \in [Devices -> DeviceStates] /\ ent' \in [Entities -> EntityStates]
         /\ \A d \in Devices : device'[d] = device[d] \/
              (device[d] = "absent" /\ device'[d] = "enabled" /\ EntitiesOf(d) \cap es # {})
         /\ \A e \in Entities : /\ ent'[e] = "user" <=> ent[e] = "user"
                                /\ ent'[e] = "absent" => ent[e] = "absent" /\ e \notin es
                                /\ e \notin es => ent'[e] = ent[e] \/ ent'[e] = "device"
                                /\ ent'[e] = "device" => Off(device'[DeviceOf[e]])
                                /\ e \notin es /\ ent[e] = "absent" => ent'[e] = "absent"
<1> DEFINE new == [e \in Entities |->
                     IF e \notin es \/ ent[e] # "absent" THEN ent[e]
                     ELSE IF e \in DefaultOff THEN "integration" ELSE "enabled"]
<1>1. device' \in [Devices -> DeviceStates] /\ new \in [Entities -> EntityStates]
  BY DEF Registering, TypeOK, EntityStates, DeviceStates
<1>2. ent' = Cascade(new, device')
  BY DEF Registering
<1>3. \A d \in Devices : device'[d] = device[d] \/
        (device[d] = "absent" /\ device'[d] = "enabled" /\ EntitiesOf(d) \cap es # {})
  BY DEF Registering, TypeOK
<1>4. \A e \in Entities : Off(device[DeviceOf[e]]) => Off(device'[DeviceOf[e]])
  BY <1>3, RegistryAssumption DEF Off
<1>5. ASSUME NEW e \in Entities PROVE
        /\ new[e] = "user" <=> ent[e] = "user"
        /\ new[e] = "absent" => ent[e] = "absent" /\ e \notin es
        /\ e \notin es => new[e] = ent[e]
  BY DEF TypeOK
<1> HIDE DEF new
<1>6. ent' \in [Entities -> EntityStates]
  BY <1>1, <1>2, CascadeLemma
<1>7. ASSUME NEW e \in Entities, e \notin es PROVE ent'[e] = ent[e] \/ ent'[e] = "device"
  BY <1>1, <1>2, <1>4, <1>5, <1>7, RegistryAssumption DEF Cascade, Consistent, Off
<1> QED
  BY <1>1, <1>2, <1>3, <1>5, <1>6, <1>7, CascadeLemma

\* Only entities of platforms that are set up are added.
LEMMA AddedLemma ==
  \A ps : /\ Added(ps) \subseteq Entities /\ Added(ps) \ AtSetup \subseteq Entities
          /\ \A e \in Added(ps) : DomainOf[e] \in options.platforms
BY DEF Added

LEMMA ResolveLemma ==
  ASSUME NEW p \in SUBSET Domains
  PROVE  resolve_platforms(p) \in SUBSET Domains
BY DEF resolve_platforms

LEMMA NobodyLemma == Nobody \notin Devices /\ Hub \notin Devices /\ Nobody # Hub
BY RegistryAssumption DEF Nobody, Hub

-----------------------------------------------------------------------------

\* Both registries keep their types through every step of the user, the entry and the hub.
LEMMA TypeStep == TypeOK /\ Consistent /\ [Next]_vars => TypeOK'
<1> SUFFICES ASSUME TypeOK, Consistent, [Next]_vars PROVE TypeOK'
  OBVIOUS
<1> USE RegistryAssumption DEF TypeOK, EntityStates, DeviceStates
<1>1. ASSUME NEW e \in Entities, DisableEntity(e) \/ EnableEntity(e) PROVE TypeOK'
  BY <1>1 DEF DisableEntity, EnableEntity, ByHand, entry
<1>2. ASSUME NEW d \in Devices, DisableDevice(d) \/ EnableDevice(d) PROVE TypeOK'
  <2>1. device' \in [Devices -> DeviceStates]
    BY <1>2 DEF DisableDevice, EnableDevice
  <2>2. ent' \in [Entities -> EntityStates]
    BY <1>2, <2>1, CascadeLemma DEF DisableDevice, EnableDevice
  <2> QED
    BY <1>2, <2>1, <2>2 DEF DisableDevice, EnableDevice, ByHand, entry, EntitiesOf
<1>3. ASSUME NEW p \in Parts, Discover(p) PROVE TypeOK'
  <2>1. PICK es \in SUBSET Entities : Registering(es)
    BY <1>3, AddedLemma DEF Discover
  <2>2. device' \in [Devices -> DeviceStates] /\ ent' \in [Entities -> EntityStates]
    BY <2>1, RegisteringLemma
  <2> QED
    BY <1>3, <2>2 DEF Discover, history
<1>4. ASSUME NEW p \in Parts, Leave(p) \/ Join(p) PROVE TypeOK'
  BY <1>4 DEF Leave, Join, entry, registry, history
<1>5. CASE Choose
  BY <1>5 DEF Choose, entry, registry, history
<1>6. CASE Setup
  BY <1>6, ResolveLemma DEF Setup, registry, history
<1>7. CASE NotReady
  BY <1>7 DEF NotReady, registry, history, Unset
<1>8. CASE Sync
  <2>1. device' \in [Devices -> DeviceStates] /\ ent' \in [Entities -> EntityStates]
    BY <1>8, SyncLemma, CascadeLemma DEF Sync
  <2>2. found' \subseteq Parts
    BY <1>8 DEF Sync, Imported
  <2> QED
    BY <1>8, <2>1, <2>2 DEF Sync
<1>9. CASE Forward
  <2>1. PICK es \in SUBSET Entities : Registering(es)
    BY <1>9, AddedLemma DEF Forward
  <2>2. device' \in [Devices -> DeviceStates] /\ ent' \in [Entities -> EntityStates]
    BY <2>1, RegisteringLemma
  <2> QED
    BY <1>9, <2>2 DEF Forward, history
<1>10. CASE Unload
  BY <1>10 DEF Unload, Unset, registry
<1>11. ASSUME NEW who \in {Hub} \cup Devices, Ask(who) PROVE TypeOK'
  BY <1>11 DEF Ask, known_identifiers, entry, registry, history
<1>12. ASSUME NEW ds \in SUBSET Devices, Remove(ds) PROVE
         /\ device' \in [Devices -> DeviceStates] /\ ent' \in [Entities -> EntityStates]
         /\ mine' \subseteq Entities \cup Devices
         /\ asked' \subseteq DefaultOff
  BY <1>12 DEF Remove
<1>13. CASE RemoveStale
  <2>1. find_stale_devices \in SUBSET Devices
    BY DEF find_stale_devices
  <2>2. PICK ds \in SUBSET Devices : Remove(ds)
    BY <1>13, <2>1 DEF RemoveStale
  <2> QED
    BY <1>13, <2>2, <1>12 DEF RemoveStale, entry
<1>14. CASE Delete
  <2>1. PICK ds \in SUBSET Devices : Remove(ds)
    BY <1>14 DEF Delete, find_stale_devices
  <2> QED
    BY <1>14, <2>1, <1>12 DEF Delete, entry
<1>15. CASE UnloadFails
  <2>1. Unset \in [platforms : SUBSET Domains, exclude : BOOLEAN]
    BY DEF Unset
  <2>2. running' \subseteq running /\ options' \in {options, Unset}
    BY <1>15 DEF UnloadFails
  <2> HIDE DEF TypeOK
  <2>3. at' = "failed" /\ found' = {} /\ opened' = {}
        /\ UNCHANGED <<hub, selected, exclude, ent, device, check, moves, hand, mine, asked, joined>>
    BY <1>15 DEF UnloadFails, registry
  <2> QED
    BY <2>1, <2>2, <2>3 DEF TypeOK
<1>16. CASE Restart
  BY <1>16 DEF Restart, Unset, registry
<1>17. CASE UNCHANGED vars
  BY <1>17 DEF vars, entry, registry, history
<1> QED
  BY <1>1, <1>2, <1>3, <1>4, <1>5, <1>6, <1>7, <1>8, <1>9, <1>10, <1>11, <1>13, <1>14, <1>15,
     <1>16, <1>17 DEF Next

\* The entry, the hub and a check leave both registries alone.
LEMMA QuietStep ==
  ASSUME \/ Choose \/ Setup \/ NotReady \/ Unload \/ UnloadFails \/ Restart
         \/ \E p \in Parts : Leave(p) \/ Join(p)
         \/ \E who \in {Hub} \cup Devices : Ask(who)
         \/ UNCHANGED vars
  PROVE  UNCHANGED <<ent, device, mine>>
BY DEF Choose, Setup, NotReady, Unload, UnloadFails, Restart, Leave, Join, Ask, registry,
       history, vars

\* A device that is off keeps its entities.
LEMMA ConsistentStep == TypeOK /\ Consistent /\ [Next]_vars => Consistent'
<1> SUFFICES ASSUME TypeOK, Consistent, [Next]_vars PROVE Consistent'
  OBVIOUS
<1>1. ASSUME NEW e \in Entities, DisableEntity(e) \/ EnableEntity(e) PROVE Consistent'
  BY <1>1 DEF DisableEntity, EnableEntity, Consistent, TypeOK
<1>2. ASSUME NEW d \in Devices, DisableDevice(d) \/ EnableDevice(d) PROVE Consistent'
  <2>1. device' \in [Devices -> DeviceStates] /\ ent \in [Entities -> EntityStates]
    BY <1>2 DEF DisableDevice, EnableDevice, TypeOK, DeviceStates, EntityStates
  <2> QED
    BY <1>2, <2>1, CascadeLemma DEF DisableDevice, EnableDevice, Consistent
<1>3. ASSUME NEW es \in SUBSET Entities, Registering(es) PROVE Consistent'
  BY <1>3, RegisteringLemma DEF Consistent
<1>4. ASSUME NEW p \in Parts, Discover(p) PROVE Consistent'
  BY <1>3, <1>4, AddedLemma DEF Discover
<1>5. CASE Forward
  BY <1>3, <1>5, AddedLemma DEF Forward
<1>6. CASE Sync
  <2>1. options.platforms \in SUBSET Domains
    BY DEF TypeOK
  <2> QED
    BY <1>6, <2>1, SyncLemma, CascadeLemma DEF Sync, Consistent
<1>7. ASSUME NEW ds \in SUBSET Devices, Remove(ds) PROVE Consistent'
  BY <1>7, RegistryAssumption DEF Remove, Consistent, TypeOK
<1>8. CASE RemoveStale
  <2>1. PICK ds \in SUBSET Devices : Remove(ds)
    BY <1>8 DEF RemoveStale, find_stale_devices
  <2> QED
    BY <2>1, <1>7
<1>9. CASE Delete
  <2>1. PICK ds \in SUBSET Devices : Remove(ds)
    BY <1>9 DEF Delete, find_stale_devices
  <2> QED
    BY <2>1, <1>7
<1> QED
  BY <1>1, <1>2, <1>4, <1>5, <1>6, <1>8, <1>9, QuietStep DEF Next, Consistent

\* A user's choice ends by the user's own hand, or with the device.
LEMMA HandsStep == TypeOK /\ Consistent /\ HandsOff /\ [Next]_vars => HandsOff'
<1> SUFFICES ASSUME TypeOK, Consistent, HandsOff, [Next]_vars PROVE HandsOff'
  OBVIOUS
<1>1. ASSUME NEW e \in Entities, DisableEntity(e) \/ EnableEntity(e) PROVE HandsOff'
  BY <1>1, RegistryAssumption DEF DisableEntity, EnableEntity, HandsOff, TypeOK
<1>2. ASSUME NEW d \in Devices, DisableDevice(d) \/ EnableDevice(d) PROVE HandsOff'
  <2>1. device' \in [Devices -> DeviceStates] /\ ent \in [Entities -> EntityStates]
    BY <1>2 DEF DisableDevice, EnableDevice, TypeOK, DeviceStates, EntityStates
  <2>2. \A e \in Entities : ent'[e] = "user" <=> ent[e] = "user"
    BY <1>2, <2>1, CascadeLemma DEF DisableDevice, EnableDevice
  <2> QED
    BY <1>2, <2>2, RegistryAssumption DEF DisableDevice, EnableDevice, HandsOff, TypeOK
<1>3. ASSUME NEW es \in SUBSET Entities, Registering(es), mine' = mine PROVE HandsOff'
  BY <1>3, RegisteringLemma DEF HandsOff
<1>4. ASSUME NEW p \in Parts, Discover(p) PROVE HandsOff'
  BY <1>3, <1>4, AddedLemma DEF Discover, history
<1>5. CASE Forward
  BY <1>3, <1>5, AddedLemma DEF Forward, history
<1>6. CASE Sync
  <2>1. options.platforms \in SUBSET Domains
    BY DEF TypeOK
  <2>2. \A e \in Entities : ent'[e] = "user" <=> ent[e] = "user"
    BY <1>6, <2>1, SyncLemma, CascadeLemma DEF Sync
  <2> QED
    BY <1>6, <2>1, <2>2, SyncLemma DEF Sync, HandsOff
<1>7. ASSUME NEW ds \in SUBSET Devices, Remove(ds) PROVE HandsOff'
  BY <1>7, RegistryAssumption DEF Remove, HandsOff, TypeOK, EntitiesOf
<1>8. CASE RemoveStale
  <2>1. PICK ds \in SUBSET Devices : Remove(ds)
    BY <1>8 DEF RemoveStale, find_stale_devices
  <2> QED
    BY <2>1, <1>7
<1>9. CASE Delete
  <2>1. PICK ds \in SUBSET Devices : Remove(ds)
    BY <1>9 DEF Delete, find_stale_devices
  <2> QED
    BY <2>1, <1>7
<1> QED
  BY <1>1, <1>2, <1>4, <1>5, <1>6, <1>8, <1>9, QuietStep DEF Next, HandsOff

\* The options are read once per setup, and the platforms follow them.
LEMMA OrphansStep == TypeOK /\ NoOrphans /\ [Next]_vars => NoOrphans'
BY DEF TypeOK, NoOrphans, Next, vars, entry, Choose, Setup, NotReady, Sync, Forward, Discover,
       Unload, UnloadFails, Restart, Leave, Join, Ask, RemoveStale, Delete, DisableEntity,
       EnableEntity, DisableDevice, EnableDevice, ByHand, Unloaded

\* An identifier the check does not know came with an entry that joined while it was under way.
LEMMA KnownStep == TypeOK /\ KnownOrJoined /\ [Next]_vars => KnownOrJoined'
<1> SUFFICES ASSUME TypeOK, KnownOrJoined, [Next]_vars PROVE KnownOrJoined'
  OBVIOUS
<1>1. ASSUME NEW p \in Parts, Leave(p) PROVE KnownOrJoined'
  BY <1>1 DEF Leave, history, KnownOrJoined, known_identifiers
<1>2. ASSUME NEW p \in Parts, Join(p) PROVE KnownOrJoined'
  BY <1>2 DEF Join, KnownOrJoined, known_identifiers
<1>3. ASSUME NEW who \in {Hub} \cup Devices, Ask(who) PROVE KnownOrJoined'
  BY <1>3 DEF Ask, history, KnownOrJoined, known_identifiers
<1>4. CASE RemoveStale \/ Delete \/ Restart
  BY <1>4 DEF RemoveStale, Delete, Restart, KnownOrJoined
<1>5. CASE \/ \E e \in Entities : DisableEntity(e) \/ EnableEntity(e)
           \/ \E d \in Devices : DisableDevice(d) \/ EnableDevice(d)
           \/ \E p \in Parts : Discover(p)
           \/ Choose \/ Setup \/ NotReady \/ Sync \/ Forward \/ Unload \/ UnloadFails
           \/ UNCHANGED vars
  <2>1. UNCHANGED <<hub, check, joined>>
    BY <1>5 DEF DisableEntity, EnableEntity, DisableDevice, EnableDevice, ByHand, Discover, Choose,
         Setup, NotReady, Sync, Forward, Unload, UnloadFails, history, vars
  <2> QED
    BY <2>1 DEF KnownOrJoined, known_identifiers
<1> QED
  BY <1>1, <1>2, <1>3, <1>4, <1>5 DEF Next

\* A check compares with what it knows: what it removes no entry names, or it has just joined.
LEMMA LostStep ==
  ASSUME TypeOK, Consistent, KnownOrJoined, [Next]_vars, NEW d \in Devices,
         device[d] # "absent", device'[d] = "absent"
  PROVE  Gone(d) \/ d \in joined
<1>1. ASSUME check.who # Nobody, d \in find_stale_devices PROVE Gone(d) \/ d \in joined
  BY <1>1 DEF find_stale_devices, KnownOrJoined, known_identifiers, Gone
<1>2. CASE RemoveStale
  <2>1. d \in find_stale_devices /\ check.who # Nobody
    BY <1>2, NobodyLemma DEF RemoveStale, Remove, TypeOK
  <2> QED
    BY <1>1, <2>1
<1>3. CASE Delete
  <2>1. d \in find_stale_devices /\ check.who # Nobody
    BY <1>3, NobodyLemma DEF Delete, Remove, TypeOK
  <2> QED
    BY <1>1, <2>1
<1>4. ASSUME NEW es \in SUBSET Entities, Registering(es) PROVE FALSE
  BY <1>4, RegisteringLemma
<1>5. CASE Sync
  <2>1. options.platforms \in SUBSET Domains
    BY DEF TypeOK
  <2> QED
    BY <1>5, <2>1, SyncLemma DEF Sync
<1>6. CASE Forward \/ \E p \in Parts : Discover(p)
  BY <1>4, <1>6, AddedLemma DEF Forward, Discover
<1>7. CASE \/ \E e \in Entities : DisableEntity(e) \/ EnableEntity(e)
           \/ \E x \in Devices : DisableDevice(x) \/ EnableDevice(x)
  BY <1>7 DEF DisableEntity, EnableEntity, DisableDevice, EnableDevice, TypeOK
<1> QED
  BY <1>2, <1>3, <1>5, <1>6, <1>7, QuietStep DEF Next

\* The sync disables every entity that is unwanted, and only a device given back enables one.
LEMMA SyncHides ==
  ASSUME TypeOK, Consistent, Sync
  PROVE  NoGhosts'
<1> DEFINE wanted == options.platforms
           es == [e \in Entities |-> SyncEntity(e, wanted)]
<1>1. /\ wanted \in SUBSET Domains /\ options' = options
      /\ opened' = {e \in Entities : ent[e] = "device"}
      /\ device' = [d \in Devices |-> SyncDevice(d, wanted)] /\ ent' = Cascade(es, device')
  BY DEF Sync, TypeOK
<1>2. es \in [Entities -> EntityStates] /\ device' \in [Devices -> DeviceStates]
  BY <1>1, SyncLemma
<1>3. \A e \in Entities : ent'[e] = "absent" <=> ent[e] = "absent"
  BY <1>1, <1>2, SyncLemma, CascadeLemma
<1>4. ASSUME NEW e \in Entities \ opened', DomainOf[e] \notin wanted PROVE ent'[e] # "enabled"
  <2>1. es[e] \notin {"enabled", "device"}
    BY <1>1, <1>4 DEF SyncEntity, TypeOK
  <2> QED
    BY <1>1, <1>2, <2>1, CascadeLemma
<1>5. ASSUME NEW d \in Devices, \E e \in EntitiesOf(d) : ent'[e] # "absent",
             \A e \in EntitiesOf(d) : ent'[e] # "absent" => DomainOf[e] \notin wanted
      PROVE  device'[d] # "enabled"
  <2>1. /\ {e \in EntitiesOf(d) : ent[e] # "absent"} # {}
        /\ ~\E e \in {x \in EntitiesOf(d) : ent[x] # "absent"} : DomainOf[e] \in wanted
    BY <1>3, <1>5 DEF EntitiesOf
  <2> QED
    BY <1>1, <2>1 DEF SyncDevice
<1> QED
  BY <1>1, <1>4, <1>5 DEF NoGhosts, Registered

\* Until the next sync only the user enables what the setup left out.
LEMMA GhostsStep == TypeOK /\ Consistent /\ NoGhosts /\ [Next]_vars => NoGhosts'
<1> SUFFICES ASSUME TypeOK, Consistent, NoGhosts, [Next]_vars PROVE NoGhosts'
  OBVIOUS
<1>1. ASSUME NEW e \in Entities, DisableEntity(e) \/ EnableEntity(e) PROVE NoGhosts'
  <2>1. /\ \A x \in Entities : ent'[x] = "absent" <=> ent[x] = "absent"
        /\ \A x \in Entities \ opened' : ent'[x] = "enabled" => ent[x] = "enabled"
    BY <1>1 DEF DisableEntity, EnableEntity, TypeOK
  <2>2. UNCHANGED <<at, options, device>> /\ opened \subseteq opened'
    BY <1>1 DEF DisableEntity, EnableEntity, ByHand, entry
  <2> QED
    BY <2>1, <2>2 DEF NoGhosts, Registered, EntitiesOf
<1>2. ASSUME NEW d \in Devices, DisableDevice(d) \/ EnableDevice(d) PROVE NoGhosts'
  <2>1. /\ device' \in [Devices -> DeviceStates] /\ device \in [Devices -> DeviceStates]
        /\ ent \in [Entities -> EntityStates]
    BY <1>2 DEF DisableDevice, EnableDevice, TypeOK, DeviceStates, EntityStates
  <2>2. /\ opened \subseteq opened' /\ UNCHANGED <<at, options>>
        /\ \A x \in Devices \ opened' : device'[x] = "enabled" => device[x] = "enabled"
    BY <1>2 DEF DisableDevice, EnableDevice, ByHand, entry, TypeOK
  <2>3. \A e \in Entities : ent'[e] = "absent" <=> ent[e] = "absent"
    BY <1>2, <2>1, CascadeLemma DEF DisableDevice, EnableDevice
  <2>4. \A e \in Entities \ opened' : ent'[e] = "enabled" => ent[e] = "enabled"
    <3>1. \A e \in Entities \ opened' : Off(device[DeviceOf[e]]) => Off(device'[DeviceOf[e]])
      BY <1>2, RegistryAssumption DEF DisableDevice, EnableDevice, EntitiesOf, Off, TypeOK
    <3> QED
      BY <1>2, <2>1, <3>1, CascadeLemma DEF DisableDevice, EnableDevice, Consistent
  <2> QED
    BY <2>2, <2>3, <2>4 DEF NoGhosts, Registered, EntitiesOf
<1>3. ASSUME NEW ps, NEW es \in SUBSET Added(ps), Registering(es), UNCHANGED <<options, opened>>,
             at \in {"forwarding", "up"}
      PROVE  NoGhosts'
  <2>1. es \in SUBSET Entities /\ Registering(es)
    BY <1>3, AddedLemma
  <2>2. \A e \in Entities : DomainOf[e] \notin options.platforms =>
          e \notin es /\ (ent'[e] = "enabled" => ent[e] = "enabled")
                      /\ (ent'[e] # "absent" => ent[e] # "absent")
    BY <1>3, <2>1, AddedLemma, RegisteringLemma
  <2>3. \A e \in Entities : ent[e] # "absent" => ent'[e] # "absent"
    BY <2>1, RegisteringLemma
  <2>4. ASSUME NEW d \in Devices \ opened, \E e \in EntitiesOf(d) : ent'[e] # "absent",
               \A e \in EntitiesOf(d) : ent'[e] # "absent" => DomainOf[e] \notin options.platforms
        PROVE  device'[d] # "enabled"
    <3>1. EntitiesOf(d) \cap es = {}
      BY <1>3, <2>1, <2>4, AddedLemma, RegisteringLemma DEF EntitiesOf
    <3>2. device'[d] = device[d]
      BY <2>1, <3>1, RegisteringLemma
    <3> QED
      BY <1>3, <2>2, <2>3, <2>4, <3>2 DEF NoGhosts, Registered, EntitiesOf
  <2> QED
    BY <1>3, <2>2, <2>4 DEF NoGhosts, Registered
<1>4. CASE \E p \in Parts : Discover(p)
  BY <1>3, <1>4 DEF Discover, history
<1>5. CASE Forward
  BY <1>3, <1>5 DEF Forward, history
<1>6. CASE Sync
  BY <1>6, SyncHides
<1>7. ASSUME NEW ds \in SUBSET Devices, Remove(ds), UNCHANGED <<at, options, opened>>
      PROVE  NoGhosts'
  BY <1>7 DEF Remove, NoGhosts, Registered, EntitiesOf, TypeOK
<1>8. CASE RemoveStale
  <2>1. PICK ds \in SUBSET Devices : Remove(ds)
    BY <1>8 DEF RemoveStale, find_stale_devices
  <2> QED
    BY <2>1, <1>7, <1>8 DEF RemoveStale, entry
<1>9. CASE Delete
  <2>1. PICK ds \in SUBSET Devices : Remove(ds)
    BY <1>9 DEF Delete, find_stale_devices
  <2> QED
    BY <2>1, <1>7, <1>9 DEF Delete, entry
<1>10. CASE Setup \/ NotReady \/ Unload \/ UnloadFails \/ Restart
  BY <1>10 DEF Setup, NotReady, Unload, UnloadFails, Restart, NoGhosts
<1>11. CASE \/ \E p \in Parts : Leave(p) \/ Join(p)
            \/ \E who \in {Hub} \cup Devices : Ask(who)
            \/ Choose \/ UNCHANGED vars
  BY <1>11 DEF Leave, Join, Ask, Choose, entry, registry, history, vars, NoGhosts, Registered
<1> QED
  BY <1>1, <1>2, <1>4, <1>5, <1>6, <1>8, <1>9, <1>10, <1>11 DEF Next

\* What the integration disabled it enables again, and the entity's device with it: also what
\* is off by default, which Reversible does not ask for.
LEMMA SyncShows ==
  ASSUME TypeOK, HandsOff, Sync, NEW e \in Entities, Registered(e),
         DomainOf[e] \in options.platforms, {e, DeviceOf[e]} \cap mine = {}
  PROVE  ent'[e] = "enabled"
<1> DEFINE wanted == options.platforms
           es == [x \in Entities |-> SyncEntity(x, wanted)]
<1>1. wanted \in SUBSET Domains /\ DeviceOf[e] \in Devices
  BY RegistryAssumption DEF TypeOK
<1>2. es \in [Entities -> EntityStates] /\ device' \in [Devices -> DeviceStates]
  BY <1>1, SyncLemma DEF Sync
<1>3. es[e] \in {"enabled", "device"}
  BY <1>1 DEF SyncEntity, HandsOff, Registered, TypeOK
<1>4. ~Off(device'[DeviceOf[e]])
  <2>1. /\ {x \in EntitiesOf(DeviceOf[e]) : ent[x] # "absent"} # {}
        /\ \E x \in {y \in EntitiesOf(DeviceOf[e]) : ent[y] # "absent"} : DomainOf[x] \in wanted
    BY DEF EntitiesOf, Registered
  <2>2. device'[DeviceOf[e]] = SyncDevice(DeviceOf[e], wanted)
    BY <1>1 DEF Sync
  <2>3. device[DeviceOf[e]] \in {"absent", "enabled", "integration"}
    BY <1>1 DEF HandsOff, TypeOK
  <2> QED
    BY <2>1, <2>2, <2>3 DEF SyncDevice, Off
<1>5. ent' = Cascade(es, device')
  BY DEF Sync
<1> HIDE DEF es
<1> QED
  BY <1>2, <1>3, <1>4, <1>5, CascadeLemma

-----------------------------------------------------------------------------

LEMMA InitHolds == Init => IInv
<1> SUFFICES ASSUME Init PROVE IInv
  OBVIOUS
<1>1. TypeOK
  <2>1. hand \in 0 .. MaxHand /\ moves \in 0 .. MaxMoves
    BY RegistryAssumption DEF Init
  <2>2. check \in [who : {Nobody, Hub} \cup Devices, known : SUBSET Devices]
    BY DEF Init
  <2>3. options \in [platforms : SUBSET Domains, exclude : BOOLEAN]
    BY DEF Init, Unset
  <2> QED
    BY <2>1, <2>2, <2>3 DEF Init, TypeOK
<1>2. HandsOff /\ Consistent /\ NoOrphans /\ NoGhosts
  BY RegistryAssumption DEF Init, HandsOff, Consistent, NoOrphans, NoGhosts
<1>3. KnownOrJoined
  BY DEF Init, KnownOrJoined
<1> QED
  BY <1>1, <1>2, <1>3 DEF IInv

LEMMA InvHolds == Spec => []IInv
<1>1. IInv /\ [Next]_vars => IInv'
  BY TypeStep, ConsistentStep, HandsStep, OrphansStep, GhostsStep, KnownStep DEF IInv
<1> QED
  BY <1>1, InitHolds, PTL DEF Spec

\* The registries keep their types.
THEOREM TypeCorrect == Spec => []TypeOK
BY InvHolds, PTL DEF IInv

\* What the user has disabled stays disabled, whatever is selected, reloaded or removed
\* (sync_platform_entity_registry, _sync_device_registry, stale_devices.py).
THEOREM UsersChoiceStands == Spec => []HandsOff
BY InvHolds, PTL DEF IInv

\* Every platform that was set up is unloaded, whatever the options say by then
\* (async_setup_entry, async_unload_entry).
THEOREM UnloadsWhatItSetUp == Spec => []NoOrphans
BY InvHolds, PTL DEF IInv

\* Nothing of a platform that is not imported is left enabled by the integration
\* (sync_platform_entity_registry, _sync_device_registry).
THEOREM NothingUnwantedEnabled == Spec => []NoGhosts
BY InvHolds, PTL DEF IInv

\* No device that an entry of the hub still names, by its id, its relationId or a device set,
\* is removed, but one that joined while the check was under way (stale_devices.py).
THEOREM OnlyTheLostRemoved == Spec => OnlyTheLost
<1>1. /\ IInv /\ [Next]_vars
      => [\A d \in Devices :
            device[d] # "absent" /\ device'[d] = "absent" => Gone(d) \/ d \in joined]_vars
  BY LostStep DEF IInv
<1> QED
  BY <1>1, InvHolds, PTL DEF Spec, OnlyTheLost

\* A platform that is selected again gets back all its entities, except those that are off by
\* default and were never enabled (sync_platform_entity_registry).
THEOREM SelectionIsReversible == Spec => Reversible
<1>1. /\ IInv /\ [Next]_vars
      => [at = "making" /\ at' = "forwarding" =>
           \A e \in Entities \ (DefaultOff \ asked) :
             Registered(e) /\ DomainOf[e] \in options.platforms
             /\ {e, DeviceOf[e]} \cap mine = {} => ent'[e] = "enabled"]_vars
  <2> SUFFICES ASSUME IInv, [Next]_vars, at = "making", at' = "forwarding" PROVE Sync
    BY SyncShows DEF IInv
  <2> QED
    BY DEF Next, vars, DisableEntity, EnableEntity, DisableDevice, EnableDevice, ByHand, Discover,
       Leave, Join, Choose, Setup, NotReady, Forward, Unload, UnloadFails, Restart, Ask,
       RemoveStale, Delete, entry
<1> QED
  BY <1>1, InvHolds, PTL DEF Spec, Reversible
=============================================================================
