--------------------------- MODULE HubEntryProofs ---------------------------
(***************************************************************************)
(* Proofs about HubEntry, for any devices of any types, any selection of   *)
(* platforms and any number of setups.                                     *)
(***************************************************************************)
EXTENDS HubEntry, FiniteSetTheorems, TLAPS

\* Between Forward and the removal of the entities the present setup has a coordinator, and
\* Home Assistant what it was handed.
Up == phase \in {"forwarding", "loaded", "stopping", "deleting", "failed"}
Flying(g) == {t \in tasks : t.gen = g /\ t.at # "start"}

\* Which phases have what: messages are handled while the entry is loaded and until the
\* thread is joined, platforms wait only in forwarding, and before that no call belongs to
\* this setup.
PhaseFits ==
  /\ phase # "idle" => gen \in Gens
  /\ listening => phase \in {"loaded", "stopping"}
  /\ waiting # {} => phase = "forwarding"
  /\ phase = "making" /\ todo = Types => built = {}
  /\ \A t \in tasks : t.gen <= gen /\ (phase \in {"making", "forwarding"} => t.gen # gen)
  /\ phase \in {"idle", "making"} =>
       \A d \in Devices : entity[d] = None /\ handed[d] = 0 /\ companions[d] = 0

\* Coordinated without counting: one call for each pending device, of a platform whose
\* callback the coordinator has.
OneCallEach ==
  /\ IsFiniteSet(tasks)
  /\ \A g \in Gens :
       /\ coord[g].pending = {t.dev : t \in Flying(g)}
       /\ \A t, u \in Flying(g) : t.dev = u.dev => t = u
       /\ coord[g].pending \cap (coord[g].known \cup coord[g].unsupported) = {}
       /\ \A d \in coord[g].pending : Platform(d) \in coord[g].callbacks

\* The coordinator knows what the platforms that are set up show, and nothing else is shown.
KnownIsShown ==
  Up =>
    /\ \A d \in Devices : handed[d] = IF d \in coord[gen].known THEN 1 ELSE 0
    /\ \A d \in Devices : entity[d] = IF d \notin coord[gen].known THEN None
                                      ELSE IF d \in built THEN Made(gen) ELSE Found(gen)
    /\ \A d \in built : Platform(d) \in coord[gen].callbacks => d \in coord[gen].known
    /\ waiting \cap coord[gen].callbacks = {}
    /\ phase = "forwarding" =>
         coord[gen].known \subseteq {d \in built : Platform(d) \notin waiting}

\* Companions come once: with the sensor platform for what setup made, with the entity for
\* what discovery found.
CompanionsFit ==
  /\ \A d \in Devices : companions[d] <= 1
  /\ Up => \A d \in Devices : companions[d] = 1 => d \in built \cup coord[gen].known
  /\ Up /\ "sensor" \in waiting => \A d \in Devices : companions[d] = 0
  /\ Up /\ "sensor" \in coord[gen].callbacks =>
       /\ \A d \in built : TypeOf[d] \in SetupCompanions => companions[d] = 1
       /\ \A d \in coord[gen].known \ bare : TypeOf[d] \in FoundCompanions => companions[d] = 1

\* Whom the events of a device go to: nobody, its object, or an object of an earlier setup.
RegistryFits ==
  \A d \in Devices \ orphaned :
    registry[d] = IF phase \in {"idle", "deleting", "unloading", "failed"} THEN None
                  ELSE IF d \in built THEN Made(gen)
                  ELSE IF phase \in {"loaded", "stopping"} /\ d \in coord[gen].known
                       THEN Found(gen)
                  ELSE None

\* This also while the platforms are being unloaded, when the coordinator goes first.
HandedOnce == \A d \in Devices : handed[d] <= 1

IInv == /\ TypeOK /\ PhaseFits /\ OneCallEach /\ KnownIsShown /\ CompanionsFit
        /\ RegistryFits /\ HandedOnce

-----------------------------------------------------------------------------

\* What the steps of a call do to the coordinator of its setup.
New(t) ==
  /\ t.dev \notin coord[t.gen].pending \cup coord[t.gen].known \cup coord[t.gen].unsupported
  /\ Platform(t.dev) \in coord[t.gen].callbacks

LEMMA StartEffect ==
  ASSUME TypeOK, NEW t \in tasks, Start(t), New(t)
  PROVE  /\ t.gen \in Gens /\ t.dev \in Devices
         /\ coord' \in [Gens -> Coordinator]
         /\ coord'[t.gen].pending = coord[t.gen].pending \cup {t.dev}
         /\ coord'[t.gen].known = coord[t.gen].known
         /\ coord'[t.gen].unsupported = coord[t.gen].unsupported
         /\ coord'[t.gen].callbacks = coord[t.gen].callbacks
         /\ \A g \in Gens \ {t.gen} : coord'[g] = coord[g]
         /\ tasks' = (tasks \ {t}) \cup {[t EXCEPT !.at = "fetch"]}
<1>1. t \in Task /\ t.gen \in Gens /\ t.dev \in Devices /\ coord[t.gen] \in Coordinator
  BY DEF TypeOK, Task
<1>2. PICK c : /\ c = [coord[t.gen] EXCEPT !.pending = @ \cup {t.dev}]
               /\ coord' = [coord EXCEPT ![t.gen] = c]
  BY DEF Start, New
<1>3. c \in Coordinator
  BY <1>1, <1>2 DEF Coordinator
<1>4. coord \in [Gens -> Coordinator]
  BY DEF TypeOK
<1> QED
  BY <1>1, <1>2, <1>3, <1>4 DEF Start, New, Move, Coordinator

LEMMA EndEffect ==
  ASSUME TypeOK, NEW t \in tasks, FetchFails(t) \/ GiveUp(t) \/ \E full \in BOOLEAN : Deliver(t, full)
  PROVE  /\ t.gen \in Gens /\ t.dev \in Devices
         /\ coord' \in [Gens -> Coordinator]
         /\ coord'[t.gen].callbacks = coord[t.gen].callbacks
         /\ coord'[t.gen].pending = coord[t.gen].pending \ {t.dev}
         /\ coord'[t.gen].unsupported \subseteq coord[t.gen].unsupported \cup {t.dev}
         /\ coord'[t.gen].known = IF FetchFails(t) \/ GiveUp(t) THEN coord[t.gen].known
                                 ELSE coord[t.gen].known \cup {t.dev}
         /\ \A g \in Gens \ {t.gen} : coord'[g] = coord[g]
         /\ tasks' = tasks \ {t}
<1>1. t \in Task /\ t.gen \in Gens /\ t.dev \in Devices /\ coord[t.gen] \in Coordinator
  BY DEF TypeOK, Task
<1>2. coord \in [Gens -> Coordinator]
  BY DEF TypeOK
<1>3. CASE FetchFails(t)
  <2>1. PICK c : /\ c = [coord[t.gen] EXCEPT !.pending = @ \ {t.dev}]
                 /\ coord' = [coord EXCEPT ![t.gen] = c]
    BY <1>3 DEF FetchFails
  <2>2. c \in Coordinator
    BY <1>1, <2>1 DEF Coordinator
  <2> QED
    BY <1>1, <1>2, <1>3, <2>1, <2>2 DEF FetchFails, End, Coordinator
<1>4. CASE GiveUp(t)
  <2>1. PICK c : /\ c = [coord[t.gen] EXCEPT !.pending = @ \ {t.dev},
                                            !.unsupported = @ \cup {t.dev}]
                 /\ coord' = [coord EXCEPT ![t.gen] = c]
    BY <1>1, <1>2, <1>4 DEF GiveUp
  <2>2. c \in Coordinator
    BY <1>1, <2>1 DEF Coordinator
  <2> QED
    BY <1>1, <1>2, <1>4, <2>1, <2>2 DEF GiveUp, End, Coordinator
<1>5. CASE ~FetchFails(t) /\ ~GiveUp(t) /\ \E full \in BOOLEAN : Deliver(t, full)
  <2>1. PICK c : /\ c = [coord[t.gen] EXCEPT !.pending = @ \ {t.dev}, !.known = @ \cup {t.dev}]
                 /\ coord' = [coord EXCEPT ![t.gen] = c]
    BY <1>1, <1>2, <1>5 DEF Deliver
  <2>2. c \in Coordinator
    BY <1>1, <2>1 DEF Coordinator
  <2> QED
    BY <1>1, <1>2, <1>5, <2>1, <2>2 DEF Deliver, End, Coordinator
<1> QED
  BY <1>3, <1>4, <1>5

\* What a platform that is set up tells the coordinator.
LEMMA PlatformEffect ==
  ASSUME TypeOK, PhaseFits, NEW p \in Selected, SetUpPlatform(p)
  PROVE  /\ phase = "forwarding" /\ gen \in Gens
         /\ coord' \in [Gens -> Coordinator]
         /\ coord'[gen].pending = coord[gen].pending
         /\ coord'[gen].callbacks = coord[gen].callbacks \cup {p}
         /\ coord'[gen].known = coord[gen].known \cup {d \in built : Platform(d) = p}
         /\ \A g \in Gens \ {gen} : coord'[g] = coord[g]
<1>1. phase = "forwarding" /\ gen \in Gens
  BY DEF PhaseFits, SetUpPlatform
<1>2. coord \in [Gens -> Coordinator] /\ coord[gen] \in Coordinator /\ built \subseteq Devices
  BY <1>1 DEF TypeOK
<1>3. PICK c : /\ c = [coord[gen] EXCEPT !.callbacks = @ \cup {p},
                         !.known = @ \cup {d \in built : Platform(d) = p}]
               /\ coord' = [coord EXCEPT ![gen] = c]
  BY <1>1, <1>2 DEF SetUpPlatform
<1>4. c \in Coordinator
  BY <1>2, <1>3 DEF Coordinator
<1>5. /\ coord'[gen] = c
      /\ \A g \in Gens \ {gen} : coord'[g] = coord[g]
  BY <1>1, <1>2, <1>3
<1> QED
  BY <1>1, <1>2, <1>3, <1>4, <1>5 DEF Coordinator

\* Every step keeps the types; that nothing is handed over twice keeps the counts small.
LEMMA TypeStep == IInv /\ [Next]_vars => TypeOK'
<1> SUFFICES ASSUME IInv, [Next]_vars PROVE TypeOK'
  OBVIOUS
<1> USE SetupsAssumption, DevicesAssumption DEF TypeOK, IInv, Gens
<1>1. CASE BeginSetup
  BY <1>1 DEF BeginSetup, Phases, shownVars
<1>2. CASE MakeDevices
  <2>1. PICK t \in todo :
          /\ LET new == {d \in snapshot' : TypeOf[d] = t}
             IN built' = built \cup new /\ Register(new, Made(gen))
          /\ todo' = todo \ {t}
    BY <1>2 DEF MakeDevices
  <2>2. gen \in Gens
    BY <1>2 DEF MakeDevices, PhaseFits
  <2>3. snapshot' \subseteq Devices /\ built' \subseteq snapshot'
    BY <1>2, <2>1 DEF MakeDevices, PhaseFits
  <2>4. Made(gen) \in Object
    BY <2>2 DEF Made, Object
  <2>5. registry' \in [Devices -> Object \cup {None}]
    BY <2>1, <2>4 DEF Register
  <2> QED
    BY <1>2, <2>1, <2>3, <2>5 DEF MakeDevices, shownVars
<1>3. CASE MakeFails
  BY <1>3 DEF MakeFails, ForgetGateway, Phases, shownVars
<1>4. CASE Forward
  <2>1. NewCoordinator \in Coordinator
    BY DEF NewCoordinator, Coordinator
  <2> QED
    BY <1>4, <2>1 DEF Forward, Phases, shownVars
<1>5. CASE StartListener
  BY <1>5 DEF StartListener, Phases, shownVars
<1>6. ASSUME NEW p \in Selected, SetUpPlatform(p) PROVE TypeOK'
  <2>1. gen \in Gens /\ Made(gen) \in Object
    BY <1>6 DEF SetUpPlatform, PhaseFits, Made, Object
  <2>2. entity' \in [Devices -> Object \cup {None}]
    BY <1>6, <2>1 DEF SetUpPlatform
  <2>3. handed' \in [Devices -> 0 .. 2]
    <3>1. \A d \in Devices : handed[d] \in 0 .. 1
      BY DEF HandedOnce
    <3> QED
      BY <1>6, <3>1 DEF SetUpPlatform
  <2>4. companions' \in [Devices -> 0 .. 2] /\ bare' = bare
    <3>1. \A d \in Devices : companions[d] \in 0 .. 1
      BY DEF CompanionsFit
    <3> QED
      BY <1>6, <3>1 DEF SetUpPlatform, AddCompanions
  <2>5. coord' \in [Gens -> Coordinator]
    BY <1>6, PlatformEffect
  <2> QED
    BY <1>6, <2>2, <2>3, <2>4, <2>5 DEF SetUpPlatform
<1>7. ASSUME NEW p \in Selected, SetUpPlatformFails(p) PROVE TypeOK'
  BY <1>7 DEF SetUpPlatformFails, shownVars
<1>8. CASE Unload
  BY <1>8 DEF Unload, Phases, shownVars
<1>9. CASE Stopped
  BY <1>9 DEF Stopped, Phases, shownVars
<1>10. CASE DeleteScenes
  BY <1>10 DEF DeleteScenes, Phases, shownVars
<1>11. NewCoordinator \in Coordinator
  BY DEF NewCoordinator, Coordinator
<1>12. CASE UnloadPlatforms
  BY <1>11, <1>12 DEF UnloadPlatforms, ForgetGateway, Phases
<1>13. CASE Restart
  <2>1. coord' \in [Gens -> Coordinator] /\ gen' \in 0 .. MaxSetups
    BY <1>11, <1>13 DEF Restart, Fresh
  <2>2. handed' \in [Devices -> 0 .. 2] /\ companions' \in [Devices -> 0 .. 2]
    BY <1>13 DEF Restart, Fresh
  <2> QED
    BY <1>13, <2>1, <2>2 DEF Restart, Fresh, Phases
<1>14. ASSUME NEW d \in Devices, Pair(d) \/ Unpair(d) \/ HearUnknown(d) PROVE TypeOK'
  <2>1. listening => gen \in Gens
    BY DEF PhaseFits
  <2> QED
    BY <1>14, <2>1 DEF Pair, Unpair, HearUnknown, Schedule, Task, setupVars, shownVars
<1>15. ASSUME NEW t \in tasks, Start(t) \/ FetchFails(t) \/ GiveUp(t) PROVE TypeOK'
  <2>2. tasks' \subseteq Task
    BY <1>15 DEF Start, FetchFails, GiveUp, Move, End, Task
  <2>3. coord' \in [Gens -> Coordinator]
    <3>1. CASE Start(t) /\ ~New(t)
      BY <3>1 DEF Start, New
    <3> QED
      BY <1>15, <3>1, StartEffect, EndEffect
  <2> QED
    BY <1>15, <2>2, <2>3 DEF Start, FetchFails, GiveUp, setupVars, shownVars
<1>16. ASSUME NEW t \in tasks, FetchMerged(t) PROVE TypeOK'
  <2>1. tasks' \subseteq Task
    BY <1>16 DEF FetchMerged, Move, Task
  <2> QED
    BY <1>16, <2>1 DEF FetchMerged, setupVars, shownVars
<1>17. ASSUME NEW t \in tasks, NEW full \in BOOLEAN, Deliver(t, full) PROVE TypeOK'
  <2>1. t \in Task /\ t.gen \in Gens /\ t.dev \in Devices
    BY DEF Task
  <2>2. Found(t.gen) \in Object
    BY <2>1 DEF Found, Object
  <2>3. registry' \in [Devices -> Object \cup {None}]
    BY <1>17, <2>2 DEF Deliver, Register
  <2>4. entity' \in [Devices -> Object \cup {None}]
    BY <1>17, <2>1, <2>2 DEF Deliver
  <2>5. handed' \in [Devices -> 0 .. 2]
    BY <1>17, <2>1 DEF Deliver, HandedOnce
  <2>6. companions' \in [Devices -> 0 .. 2]
    BY <1>17, <2>1 DEF Deliver, HandCompanions, CompanionsFit
  <2>7. coord' \in [Gens -> Coordinator]
    BY <1>17, EndEffect
  <2>8. bare' \subseteq Devices /\ orphaned' \subseteq Devices /\ tasks' \subseteq Task
    BY <1>17, <2>1 DEF Deliver, End
  <2> QED
    BY <1>17, <2>3, <2>4, <2>5, <2>6, <2>7, <2>8 DEF Deliver, setupVars
<1>18. CASE UNCHANGED vars
  BY <1>18 DEF vars, setupVars, shownVars
<1> QED
  BY <1>1, <1>2, <1>3, <1>4, <1>5, <1>6, <1>7, <1>8, <1>9, <1>10, <1>12, <1>13, <1>14, <1>15,
     <1>16, <1>17, <1>18 DEF Next, Setup, Unloading, Discovery, Discovered, DiscoveredBare

\* Steps that leave alone what the other parts of the invariant relate.
LEMMA QuietStep ==
  ASSUME TypeOK, \/ Unload \/ DeleteScenes \/ StartListener \/ UNCHANGED vars
                 \/ \E p \in Selected : SetUpPlatformFails(p)
                 \/ \E d \in Devices : Pair(d) \/ Unpair(d) \/ HearUnknown(d)
  PROVE  /\ UNCHANGED <<gen, todo, built, entity, registry, coord, shownVars, orphaned>>
         /\ waiting' \subseteq waiting
BY DEF Unload, DeleteScenes, StartListener, vars, SetUpPlatformFails, Pair, Unpair, HearUnknown,
       setupVars, shownVars

LEMMA PhaseStep == IInv /\ [Next]_vars => PhaseFits'
<1> SUFFICES ASSUME IInv, [Next]_vars PROVE PhaseFits'
  OBVIOUS
<1>1. TypeOK /\ PhaseFits
  BY DEF IInv
<1> USE SetupsAssumption DEF Gens, PhaseFits
<1>2. CASE BeginSetup
  <2>1. gen' \in Gens /\ gen < gen'
    BY <1>1, <1>2 DEF BeginSetup, TypeOK
  <2>2. \A t \in tasks : t.gen \in Nat
    BY <1>1 DEF TypeOK, Task
  <2> QED
    BY <1>1, <1>2, <2>1, <2>2 DEF BeginSetup, shownVars, TypeOK
<1>3. CASE MakeDevices
  BY <1>1, <1>3 DEF MakeDevices, shownVars, TypeOK
<1>4. CASE MakeFails \/ Forward \/ Unload \/ StartListener
  BY <1>1, <1>4 DEF MakeFails, ForgetGateway, Forward, Unload, StartListener, shownVars
<1>5. CASE \E p \in Selected : SetUpPlatform(p) \/ SetUpPlatformFails(p)
  BY <1>1, <1>5 DEF SetUpPlatform, SetUpPlatformFails, shownVars
<1>6. CASE Stopped \/ DeleteScenes
  BY <1>1, <1>6 DEF Stopped, DeleteScenes, shownVars
<1>7. CASE UnloadPlatforms
  BY <1>1, <1>7 DEF UnloadPlatforms, ForgetGateway
<1>8. CASE Restart
  BY <1>8 DEF Restart, Fresh
<1>9. ASSUME NEW d \in Devices, Pair(d) \/ Unpair(d) \/ HearUnknown(d) PROVE PhaseFits'
  <2>1. UNCHANGED <<phase, gen, todo, waiting, built, entity, handed, companions, listening>>
    BY <1>9 DEF Pair, Unpair, HearUnknown, setupVars, shownVars
  <2>2. tasks' = tasks \/ (listening /\ tasks' = tasks \cup {[gen |-> gen, dev |-> d, at |-> "start"]})
    BY <1>9 DEF Pair, Unpair, HearUnknown, Schedule
  <2>3. gen <= gen
    BY <1>1 DEF TypeOK
  <2> QED
    BY <1>1, <2>1, <2>2, <2>3
<1>10. ASSUME NEW t \in tasks, Start(t) \/ FetchFails(t) \/ GiveUp(t) \/ FetchMerged(t)
       PROVE  PhaseFits'
  <2>1. UNCHANGED <<phase, gen, todo, waiting, built, entity, handed, companions, listening>>
    BY <1>10 DEF Start, FetchFails, GiveUp, FetchMerged, setupVars, shownVars
  <2>2. \A u \in tasks' : u \in tasks \/ u.gen = t.gen
    BY <1>1, <1>10 DEF Start, FetchFails, GiveUp, FetchMerged, Move, End, TypeOK, Task
  <2> QED
    BY <1>1, <2>1, <2>2
<1>11. ASSUME NEW t \in tasks, NEW full \in BOOLEAN, Deliver(t, full) PROVE PhaseFits'
  BY <1>1, <1>11 DEF Deliver, End, setupVars
<1>12. CASE UNCHANGED vars
  BY <1>1, <1>12 DEF vars, setupVars, shownVars
<1> QED
  BY <1>2, <1>3, <1>4, <1>5, <1>6, <1>7, <1>8, <1>9, <1>10, <1>11, <1>12
  DEF Next, Setup, Unloading, Discovery, Discovered, DiscoveredBare

\* A call is pending from its first await to its end, and ends what it began.
LEMMA CallsStep == IInv /\ [Next]_vars => OneCallEach'
<1> SUFFICES ASSUME IInv, [Next]_vars PROVE OneCallEach'
  OBVIOUS
<1>1. TypeOK /\ PhaseFits /\ OneCallEach
  BY DEF IInv
<1>2. ASSUME UNCHANGED coord, UNCHANGED tasks PROVE OneCallEach'
  BY <1>1, <1>2 DEF OneCallEach, Flying
<1>3. CASE BeginSetup \/ MakeDevices \/ MakeFails \/ StartListener \/ Unload \/ Stopped
           \/ DeleteScenes \/ UNCHANGED vars \/ \E p \in Selected : SetUpPlatformFails(p)
  BY <1>2, <1>3 DEF BeginSetup, MakeDevices, MakeFails, StartListener, Unload, Stopped,
                    DeleteScenes, SetUpPlatformFails, vars
<1>4. CASE Forward
  <2>1. gen \in Gens /\ Flying(gen) = {}
    BY <1>1, <1>4 DEF Forward, PhaseFits, Flying
  <2>2. coord' = [coord EXCEPT ![gen] = NewCoordinator] /\ tasks' = tasks
    BY <1>4 DEF Forward
  <2>3. coord'[gen] = NewCoordinator /\ \A g \in Gens \ {gen} : coord'[g] = coord[g]
    BY <1>1, <2>1, <2>2 DEF TypeOK
  <2> QED
    BY <1>1, <2>1, <2>2, <2>3 DEF OneCallEach, Flying, NewCoordinator
<1>5. ASSUME NEW p \in Selected, SetUpPlatform(p) PROVE OneCallEach'
  <2>1. gen \in Gens /\ Flying(gen) = {} /\ tasks' = tasks
    BY <1>1, <1>5, PlatformEffect DEF SetUpPlatform, PhaseFits, Flying
  <2>2. /\ coord'[gen].pending = {} /\ coord[gen].pending = {}
        /\ \A g \in Gens \ {gen} : coord'[g] = coord[g]
    BY <1>1, <1>5, <2>1, PlatformEffect DEF OneCallEach
  <2> QED
    BY <1>1, <2>1, <2>2 DEF OneCallEach, Flying
<1>6. CASE UnloadPlatforms
  <2>1. tasks' = tasks /\ \A g \in Gens : coord'[g] = IF \E t \in tasks : t.gen = g
                                                     THEN coord[g] ELSE NewCoordinator
    BY <1>6 DEF UnloadPlatforms
  <2> QED
    BY <1>1, <2>1 DEF OneCallEach, Flying, NewCoordinator
<1>7. CASE Restart
  <2>1. tasks' = {} /\ \A g \in Gens : coord'[g] = NewCoordinator
    BY <1>7 DEF Restart, Fresh
  <2> QED
    BY <2>1, FS_EmptySet DEF OneCallEach, Flying, NewCoordinator
<1>8. ASSUME NEW d \in Devices, Pair(d) \/ Unpair(d) \/ HearUnknown(d) PROVE OneCallEach'
  <2>1. PICK t : /\ t = [gen |-> gen, dev |-> d, at |-> "start"]
                 /\ tasks' = tasks \/ tasks' = tasks \cup {t}
    BY <1>8 DEF Pair, Unpair, HearUnknown, Schedule
  <2>2. IsFiniteSet(tasks')
    <3>1. IsFiniteSet(tasks)
      BY <1>1 DEF OneCallEach
    <3>2. IsFiniteSet(tasks \cup {t})
      BY <3>1, FS_AddElement
    <3> QED
      BY <2>1, <3>1, <3>2
  <2>3. coord' = coord /\ \A g : Flying(g)' = Flying(g)
    BY <1>1, <1>8, <2>1, QuietStep DEF Flying
  <2> QED
    BY <1>1, <2>2, <2>3 DEF OneCallEach
<1>9. ASSUME NEW t \in tasks, Start(t), New(t) PROVE OneCallEach'
  <2> DEFINE u == [t EXCEPT !.at = "fetch"]
  <2>1. /\ t \in Task /\ u.gen = t.gen /\ u.dev = t.dev /\ u.at = "fetch" /\ t.at = "start"
        /\ tasks' = (tasks \ {t}) \cup {u}
    BY <1>1, <1>9, StartEffect DEF TypeOK, Task, Start
  <2> HIDE DEF u
  <2>2. IsFiniteSet(tasks')
    BY <1>1, <2>1, FS_AddElement, FS_RemoveElement DEF OneCallEach
  <2>3. Flying(t.gen)' = Flying(t.gen) \cup {u} /\ \A g \in Gens \ {t.gen} : Flying(g)' = Flying(g)
    BY <2>1 DEF Flying
  <2>4. /\ coord'[t.gen].pending = coord[t.gen].pending \cup {t.dev}
        /\ coord'[t.gen].known = coord[t.gen].known
        /\ coord'[t.gen].unsupported = coord[t.gen].unsupported
        /\ coord'[t.gen].callbacks = coord[t.gen].callbacks
    BY <1>1, <1>9, StartEffect
  <2>5. t.gen \in Gens /\ \A g \in Gens \ {t.gen} : coord'[g] = coord[g]
    BY <1>1, <1>9, StartEffect
  <2>6. \A v \in Flying(t.gen) : v.dev # t.dev
    BY <1>1, <1>9, <2>5 DEF OneCallEach, New
  <2>7. ASSUME NEW g \in Gens PROVE
          /\ coord'[g].pending = {v.dev : v \in Flying(g)'}
          /\ \A v, w \in Flying(g)' : v.dev = w.dev => v = w
          /\ coord'[g].pending \cap (coord'[g].known \cup coord'[g].unsupported) = {}
          /\ \A d \in coord'[g].pending : Platform(d) \in coord'[g].callbacks
    <3>1. CASE g # t.gen
      BY <1>1, <2>3, <2>5, <3>1 DEF OneCallEach
    <3>2. CASE g = t.gen
      BY <1>1, <1>9, <2>1, <2>3, <2>4, <2>6, <3>2 DEF OneCallEach, New
    <3> QED
      BY <3>1, <3>2
  <2> QED
    BY <2>2, <2>7 DEF OneCallEach
<1>10. ASSUME NEW t \in tasks, Start(t), ~New(t) PROVE OneCallEach'
  <2>1. coord' = coord /\ tasks' = tasks \ {t} /\ t.at = "start"
    BY <1>10 DEF Start, New, End
  <2>2. IsFiniteSet(tasks') /\ \A g : Flying(g)' = Flying(g)
    BY <1>1, <2>1, FS_RemoveElement DEF Flying, OneCallEach
  <2> QED
    BY <1>1, <2>1, <2>2 DEF OneCallEach
<1>11. ASSUME NEW t \in tasks, FetchMerged(t) PROVE OneCallEach'
  <2> DEFINE u == [t EXCEPT !.at = "merge"]
  <2>1. /\ t \in Task /\ u.gen = t.gen /\ u.dev = t.dev /\ u.at = "merge" /\ t.at = "fetch"
        /\ tasks' = (tasks \ {t}) \cup {u} /\ coord' = coord
    BY <1>1, <1>11 DEF TypeOK, Task, FetchMerged, Move
  <2> HIDE DEF u
  <2>2. IsFiniteSet(tasks')
    BY <1>1, <2>1, FS_AddElement, FS_RemoveElement DEF OneCallEach
  <2>3. \A g : Flying(g)' = IF g = t.gen THEN (Flying(g) \ {t}) \cup {u} ELSE Flying(g)
    BY <2>1 DEF Flying
  <2>4. t \in Flying(t.gen)
    BY <2>1 DEF Flying
  <2> QED
    BY <1>1, <2>1, <2>2, <2>3, <2>4 DEF OneCallEach
<1>12. ASSUME NEW t \in tasks, t.at # "start",
              FetchFails(t) \/ GiveUp(t) \/ \E full \in BOOLEAN : Deliver(t, full)
       PROVE  OneCallEach'
  <2>1. tasks' = tasks \ {t} /\ t \in Flying(t.gen) /\ t.gen \in Gens
    BY <1>1, <1>12, EndEffect DEF Flying
  <2>2. IsFiniteSet(tasks') /\ \A g : Flying(g)' = Flying(g) \ {t}
    BY <1>1, <2>1, FS_RemoveElement DEF OneCallEach, Flying
  <2>3. \A g \in Gens \ {t.gen} : coord'[g] = coord[g] /\ t \notin Flying(g)
    BY <1>1, <1>12, EndEffect DEF Flying
  <2>4. /\ coord'[t.gen].pending = coord[t.gen].pending \ {t.dev}
        /\ coord'[t.gen].callbacks = coord[t.gen].callbacks
        /\ coord'[t.gen].known \subseteq coord[t.gen].known \cup {t.dev}
        /\ coord'[t.gen].unsupported \subseteq coord[t.gen].unsupported \cup {t.dev}
    BY <1>1, <1>12, EndEffect
  <2>5. ASSUME NEW g \in Gens PROVE
          /\ coord'[g].pending = {v.dev : v \in Flying(g)'}
          /\ \A v, w \in Flying(g)' : v.dev = w.dev => v = w
          /\ coord'[g].pending \cap (coord'[g].known \cup coord'[g].unsupported) = {}
          /\ \A d \in coord'[g].pending : Platform(d) \in coord'[g].callbacks
    <3>1. CASE g # t.gen
      BY <1>1, <2>2, <2>3, <3>1 DEF OneCallEach
    <3>2. CASE g = t.gen
      BY <1>1, <2>1, <2>2, <2>4, <3>2 DEF OneCallEach
    <3> QED
      BY <3>1, <3>2
  <2> QED
    BY <2>2, <2>5 DEF OneCallEach
<1> QED
  BY <1>3, <1>4, <1>5, <1>6, <1>7, <1>8, <1>9, <1>10, <1>11, <1>12
  DEF Next, Setup, Unloading, Discovery, Discovered, DiscoveredBare, FetchFails, GiveUp

\* The steps of a call before the last change nothing but what is pending.
LEMMA CallQuiet ==
  ASSUME TypeOK, NEW t \in tasks, Start(t) \/ FetchFails(t) \/ GiveUp(t) \/ FetchMerged(t)
  PROVE  /\ UNCHANGED <<phase, gen, todo, built, waiting, entity, registry, listening, shownVars,
                        orphaned>>
         /\ \A g \in Gens : /\ coord'[g].known = coord[g].known
                           /\ coord'[g].callbacks = coord[g].callbacks
<1>1. CASE Start(t) /\ New(t)
  BY <1>1, StartEffect DEF Start, setupVars
<1>2. CASE Start(t) /\ ~New(t)
  BY <1>2 DEF Start, New, setupVars
<1>3. CASE FetchFails(t) \/ GiveUp(t)
  BY <1>3, EndEffect DEF FetchFails, GiveUp, setupVars
<1>4. CASE FetchMerged(t)
  BY <1>4 DEF FetchMerged, setupVars
<1> QED
  BY <1>1, <1>2, <1>3, <1>4

\* The last step hands over one entity of a device nobody has shown yet, if the setup is
\* still there, and is of no consequence to another setup.
LEMMA DeliverEffect ==
  ASSUME IInv, Up, NEW t \in tasks, t.at # "start", NEW full \in BOOLEAN, Deliver(t, full)
  PROVE  /\ UNCHANGED <<phase, gen, waiting, built, listening>> /\ gen \in Gens
         /\ coord'[gen].callbacks = coord[gen].callbacks
         /\ t.gen # gen => UNCHANGED <<entity, handed, companions, bare>> /\ coord'[gen] = coord[gen]
         /\ t.gen = gen =>
              /\ phase # "forwarding"
              /\ t.dev \in Devices /\ t.dev \notin coord[gen].known /\ t.dev \notin built
              /\ entity' = [entity EXCEPT ![t.dev] = Found(gen)]
              /\ handed' = [handed EXCEPT ![t.dev] = 1]
              /\ HandCompanions(t, full)
              /\ bare' = IF full THEN bare ELSE bare \cup {t.dev}
              /\ coord'[gen].known = coord[gen].known \cup {t.dev}
<1>1. TypeOK /\ PhaseFits /\ OneCallEach /\ KnownIsShown
  BY DEF IInv
<1>2. UNCHANGED <<phase, gen, waiting, built, listening>> /\ gen \in Gens
  BY <1>1 DEF Deliver, setupVars, PhaseFits, Up
<1>3. /\ t.gen \in Gens /\ t.dev \in Devices
      /\ coord'[t.gen].callbacks = coord[t.gen].callbacks
      /\ \A g \in Gens \ {t.gen} : coord'[g] = coord[g]
  BY <1>1, EndEffect
<1>4. coord'[t.gen].known = coord[t.gen].known \cup {t.dev}
  <2>1. coord \in [Gens -> Coordinator]
    BY <1>1 DEF TypeOK
  <2> QED
    BY <1>3, <2>1 DEF Deliver, Coordinator
<1>5. CASE t.gen # gen
  BY <1>2, <1>3, <1>5 DEF Deliver
<1>6. CASE t.gen = gen
  <2>1. phase \in {"loaded", "stopping", "deleting", "failed"}
    BY <1>1, <1>6 DEF PhaseFits, Up
  <2>2. t.dev \in coord[gen].pending
    BY <1>1, <1>2, <1>6 DEF OneCallEach, Flying
  <2>3. t.dev \notin coord[gen].known /\ Platform(t.dev) \in coord[gen].callbacks
    BY <1>1, <1>2, <2>2 DEF OneCallEach
  <2>4. t.dev \notin built /\ entity[t.dev] = None /\ handed[t.dev] = 0
    BY <1>1, <1>3, <2>3 DEF KnownIsShown
  <2>5. entity' = [entity EXCEPT ![t.dev] = Found(gen)] /\ bare' = IF full THEN bare ELSE bare \cup {t.dev}
    BY <1>6, <2>1, <2>4 DEF Deliver
  <2>6. handed' = [handed EXCEPT ![t.dev] = 1] /\ HandCompanions(t, full)
    BY <1>1, <1>3, <1>6, <2>1, <2>4 DEF Deliver, TypeOK
  <2> QED
    BY <1>2, <1>3, <1>4, <1>6, <2>1, <2>3, <2>4, <2>5, <2>6
<1> QED
  BY <1>2, <1>3, <1>5, <1>6

LEMMA KnownStep == IInv /\ [Next]_vars => KnownIsShown'
<1> SUFFICES ASSUME IInv, [Next]_vars, Up' PROVE KnownIsShown'
  BY DEF KnownIsShown
<1>1. TypeOK /\ PhaseFits /\ OneCallEach /\ KnownIsShown
  BY DEF IInv
<1>2. ASSUME Up, phase' = "forwarding" => phase = "forwarding", waiting' \subseteq waiting,
             UNCHANGED <<gen, built, entity, handed, coord>>
      PROVE  KnownIsShown'
  BY <1>1, <1>2 DEF KnownIsShown
<1>3. CASE BeginSetup \/ MakeDevices \/ MakeFails \/ UnloadPlatforms \/ Restart
  BY <1>3 DEF BeginSetup, MakeDevices, MakeFails, UnloadPlatforms, Restart, Fresh, Up
<1>4. CASE Forward
  <2>1. gen \in Gens /\ coord'[gen] = NewCoordinator
    BY <1>1, <1>4 DEF Forward, PhaseFits, TypeOK
  <2> QED
    BY <1>1, <1>4, <2>1 DEF Forward, PhaseFits, NewCoordinator, KnownIsShown, shownVars
<1>5. CASE StartListener \/ Unload \/ Stopped \/ DeleteScenes \/ UNCHANGED vars
  BY <1>2, <1>5 DEF StartListener, Unload, Stopped, DeleteScenes, Up, shownVars, vars, setupVars
<1>6. ASSUME NEW p \in Selected, SetUpPlatformFails(p) PROVE KnownIsShown'
  BY <1>2, <1>6 DEF SetUpPlatformFails, Up, shownVars
<1>7. ASSUME NEW p \in Selected, SetUpPlatform(p) PROVE KnownIsShown'
  <2> DEFINE new == {d \in built : Platform(d) = p}
  <2>1. /\ phase = "forwarding" /\ gen \in Gens
        /\ coord'[gen].callbacks = coord[gen].callbacks \cup {p}
        /\ coord'[gen].known = coord[gen].known \cup new
    BY <1>1, <1>7, PlatformEffect
  <2>2. /\ p \in waiting /\ waiting' = waiting \ {p} /\ UNCHANGED <<gen, built, phase>>
        /\ entity' = [d \in Devices |-> IF d \in new THEN Made(gen) ELSE entity[d]]
        /\ handed' = [d \in Devices |-> handed[d] + IF d \in new THEN 1 ELSE 0]
    BY <1>7 DEF SetUpPlatform
  <2>3. new \cap coord[gen].known = {} /\ new \subseteq built
    BY <1>1, <2>1, <2>2 DEF KnownIsShown, Up
  <2>4. Up
    BY <2>1 DEF Up
  <2>5. \A d \in Devices : handed'[d] = IF d \in coord'[gen].known THEN 1 ELSE 0
    <3>1. \A d \in Devices : handed[d] = IF d \in coord[gen].known THEN 1 ELSE 0
      BY <1>1, <2>4 DEF KnownIsShown
    <3> HIDE DEF new
    <3> QED
      BY <2>1, <2>2, <2>3, <3>1
  <2>6. \A d \in Devices : entity'[d] = IF d \notin coord'[gen].known THEN None
                                       ELSE IF d \in built THEN Made(gen) ELSE Found(gen)
    BY <1>1, <2>1, <2>2, <2>3, <2>4 DEF KnownIsShown
  <2> QED
    BY <1>1, <2>1, <2>2, <2>4, <2>5, <2>6 DEF KnownIsShown
<1>8. ASSUME NEW d \in Devices, Pair(d) \/ Unpair(d) \/ HearUnknown(d) PROVE KnownIsShown'
  BY <1>2, <1>8, QuietStep DEF Pair, Unpair, HearUnknown, setupVars, shownVars, Up
<1>9. ASSUME NEW t \in tasks, Start(t) \/ FetchFails(t) \/ GiveUp(t) \/ FetchMerged(t)
      PROVE  KnownIsShown'
  <2>1. Up /\ gen \in Gens
    BY <1>1, <1>9, CallQuiet DEF Up, PhaseFits
  <2> QED
    BY <1>1, <1>9, <2>1, CallQuiet DEF KnownIsShown, shownVars
<1>10. ASSUME NEW t \in tasks, t.at # "start", NEW full \in BOOLEAN, Deliver(t, full)
       PROVE  KnownIsShown'
  <2>1. Up
    BY <1>10 DEF Deliver, setupVars, Up
  <2>2. CASE t.gen # gen
    BY <1>1, <1>10, <2>1, <2>2, DeliverEffect DEF KnownIsShown
  <2>3. CASE t.gen = gen
    BY <1>1, <1>10, <2>1, <2>3, DeliverEffect DEF KnownIsShown, TypeOK
  <2> QED
    BY <2>2, <2>3
<1> QED
  BY <1>3, <1>4, <1>5, <1>6, <1>7, <1>8, <1>9, <1>10
  DEF Next, Setup, Unloading, Discovery, Discovered, DiscoveredBare

\* Whoever is not known has no companions yet, unless setup made it and they came with the
\* sensor platform.
LEMMA CompanionsStep == IInv /\ [Next]_vars => CompanionsFit'
<1> SUFFICES ASSUME IInv, [Next]_vars PROVE CompanionsFit'
  OBVIOUS
<1>1. TypeOK /\ PhaseFits /\ KnownIsShown /\ CompanionsFit
  BY DEF IInv
<1>2. ASSUME Up' => Up, waiting' \subseteq waiting, UNCHANGED <<gen, built, shownVars, coord>>
      PROVE  CompanionsFit'
  BY <1>1, <1>2 DEF CompanionsFit, shownVars
<1>3. CASE BeginSetup \/ MakeDevices \/ MakeFails
  BY <1>1, <1>3 DEF BeginSetup, MakeDevices, MakeFails, CompanionsFit, shownVars, Up
<1>4. CASE UnloadPlatforms \/ Restart
  BY <1>4 DEF UnloadPlatforms, Restart, Fresh, CompanionsFit, Up
<1>5. CASE Forward
  <2>1. gen \in Gens /\ coord'[gen] = NewCoordinator
    BY <1>1, <1>5 DEF Forward, PhaseFits, TypeOK
  <2> QED
    BY <1>1, <1>5, <2>1 DEF Forward, PhaseFits, NewCoordinator, CompanionsFit, shownVars
<1>6. CASE StartListener \/ Unload \/ Stopped \/ DeleteScenes \/ UNCHANGED vars
  BY <1>2, <1>6 DEF StartListener, Unload, Stopped, DeleteScenes, Up, vars, setupVars
<1>7. ASSUME NEW p \in Selected, SetUpPlatformFails(p) PROVE CompanionsFit'
  BY <1>2, <1>7 DEF SetUpPlatformFails, Up
<1>8. ASSUME NEW p \in Selected, SetUpPlatform(p) PROVE CompanionsFit'
  <2>1. /\ phase = "forwarding" /\ gen \in Gens
        /\ coord'[gen].callbacks = coord[gen].callbacks \cup {p}
        /\ coord'[gen].known = coord[gen].known \cup {d \in built : Platform(d) = p}
    BY <1>1, <1>8, PlatformEffect
  <2>2. /\ p \in waiting /\ waiting' = waiting \ {p} /\ UNCHANGED <<gen, built, phase, bare>>
        /\ \A d \in Devices : companions'[d] = companions[d] +
             IF p = "sensor" /\ d \in built /\ TypeOf[d] \in SetupCompanions THEN 1 ELSE 0
    BY <1>8 DEF SetUpPlatform, AddCompanions
  <2>3. Up /\ built \subseteq Devices /\ coord[gen].known \subseteq built
    BY <1>1, <2>1 DEF Up, TypeOK, KnownIsShown
  <2>4. FoundCompanions \subseteq SetupCompanions
    BY DEF FoundCompanions, SetupCompanions
  <2>5. CASE p = "sensor"
    <3>1. \A d \in Devices : companions[d] = 0
      BY <1>1, <2>2, <2>3, <2>5 DEF CompanionsFit
    <3>2. \A d \in Devices : companions'[d] =
            IF d \in built /\ TypeOf[d] \in SetupCompanions THEN 1 ELSE 0
      BY <2>2, <2>5, <3>1
    <3> QED
      BY <2>1, <2>2, <2>3, <2>4, <2>5, <3>2 DEF CompanionsFit
  <2>6. CASE p # "sensor"
    <3>1. \A d \in Devices : companions'[d] = companions[d]
      BY <1>1, <2>2, <2>6 DEF TypeOK
    <3> QED
      BY <1>1, <2>1, <2>2, <2>3, <2>4, <2>6, <3>1 DEF CompanionsFit
  <2> QED
    BY <2>5, <2>6
<1>9. ASSUME NEW d \in Devices, Pair(d) \/ Unpair(d) \/ HearUnknown(d) PROVE CompanionsFit'
  BY <1>2, <1>9, QuietStep DEF Pair, Unpair, HearUnknown, setupVars, Up
<1>10. ASSUME NEW t \in tasks, Start(t) \/ FetchFails(t) \/ GiveUp(t) \/ FetchMerged(t)
       PROVE  CompanionsFit'
  <2>1. Up' => Up /\ gen \in Gens
    BY <1>1, <1>10, CallQuiet DEF Up, PhaseFits
  <2> QED
    BY <1>1, <1>10, <2>1, CallQuiet DEF CompanionsFit, shownVars
<1>11. ASSUME NEW t \in tasks, t.at # "start", NEW full \in BOOLEAN, Deliver(t, full)
       PROVE  CompanionsFit'
  <2>1. phase' = phase
    BY <1>11 DEF Deliver, setupVars
  <2>2. CASE ~Up
    <3>1. companions' = companions
      BY <1>11, <2>2 DEF Deliver, Up
    <3> QED
      BY <1>1, <2>1, <2>2, <3>1 DEF CompanionsFit, Up
  <2>3. CASE Up /\ t.gen # gen
    BY <1>1, <1>11, <2>1, <2>3, DeliverEffect DEF CompanionsFit, Up
  <2>4. CASE Up /\ t.gen = gen
    <3> DEFINE has == /\ "sensor" \in coord[t.gen].callbacks
                      /\ TypeOf[t.dev] \in FoundCompanions /\ full
    <3>1. /\ UNCHANGED <<gen, waiting, built>> /\ phase # "forwarding"
          /\ t.dev \in Devices /\ t.dev \notin coord[gen].known /\ t.dev \notin built
          /\ coord'[gen].callbacks = coord[gen].callbacks
          /\ coord'[gen].known = coord[gen].known \cup {t.dev}
          /\ HandCompanions(t, full) /\ bare' = IF full THEN bare ELSE bare \cup {t.dev}
      BY <1>11, <2>4, DeliverEffect
    <3>2. companions[t.dev] = 0
      BY <1>1, <2>4, <3>1 DEF CompanionsFit, TypeOK
    <3>3. companions' = IF has THEN [companions EXCEPT ![t.dev] = 1] ELSE companions
      BY <1>1, <3>1, <3>2 DEF HandCompanions, TypeOK
    <3>4. waiting = {}
      BY <1>1, <3>1 DEF PhaseFits
    <3>5. /\ companions'[t.dev] \in 0 .. 1 /\ (has => companions'[t.dev] = 1)
          /\ \A d \in Devices \ {t.dev} : companions'[d] = companions[d]
      BY <1>1, <3>1, <3>2, <3>3 DEF TypeOK
    <3>6. /\ \A d \in Devices : companions'[d] <= 1
          /\ \A d \in Devices : companions'[d] = 1 => d \in built \cup coord'[gen].known
      BY <1>1, <2>4, <3>1, <3>5 DEF CompanionsFit
    <3>7. "sensor" \in coord[gen].callbacks =>
           /\ \A d \in built : TypeOf[d] \in SetupCompanions => companions'[d] = 1
           /\ \A d \in coord'[gen].known \ bare' :
                TypeOf[d] \in FoundCompanions => companions'[d] = 1
      <4>1. built \subseteq Devices /\ coord[gen].known \subseteq Devices
        <5>1. gen \in Gens
          BY <1>1, <2>4 DEF PhaseFits, Up
        <5> QED
          BY <1>1, <5>1 DEF TypeOK, Coordinator
      <4> QED
        BY <1>1, <2>4, <3>1, <3>5, <4>1 DEF CompanionsFit
    <3> QED
      BY <3>1, <3>4, <3>6, <3>7 DEF CompanionsFit
  <2> QED
    BY <2>2, <2>3, <2>4
<1> QED
  BY <1>3, <1>4, <1>5, <1>6, <1>7, <1>8, <1>9, <1>10, <1>11
  DEF Next, Setup, Unloading, Discovery, Discovered, DiscoveredBare

\* The first object of a device to register stays: the present one, while what earlier ones
\* left behind is orphaned.
LEMMA RegistryStep == IInv /\ [Next]_vars => RegistryFits'
<1> SUFFICES ASSUME IInv, [Next]_vars PROVE RegistryFits'
  OBVIOUS
<1>1. TypeOK /\ PhaseFits /\ KnownIsShown /\ RegistryFits /\ OneCallEach
  BY DEF IInv
<1> USE DEF RegistryFits
<1>2. CASE BeginSetup
  BY <1>1, <1>2 DEF BeginSetup
<1>3. CASE MakeDevices
  <2>1. PICK t \in todo :
          /\ built' = built \cup {d \in snapshot' : TypeOf[d] = t}
          /\ Register({d \in snapshot' : TypeOf[d] = t}, Made(gen))
    BY <1>3 DEF MakeDevices
  <2>2. Made(gen) # None
    BY DEF Made, None
  <2> QED
    BY <1>1, <1>3, <2>1, <2>2 DEF MakeDevices, Register
<1>4. CASE MakeFails
  BY <1>1, <1>4 DEF MakeFails, ForgetGateway
<1>5. CASE Forward
  BY <1>1, <1>5 DEF Forward
<1>6. ASSUME NEW p \in Selected, SetUpPlatform(p) \/ SetUpPlatformFails(p) PROVE RegistryFits'
  <2>1. phase = "forwarding"
    BY <1>1, <1>6 DEF SetUpPlatform, SetUpPlatformFails, PhaseFits
  <2> QED
    BY <1>1, <1>6, <2>1 DEF SetUpPlatform, SetUpPlatformFails
<1>7. CASE StartListener
  BY <1>1, <1>7 DEF StartListener, KnownIsShown, Up
<1>8. CASE Unload \/ DeleteScenes \/ UNCHANGED vars
  BY <1>1, <1>8 DEF Unload, DeleteScenes, vars, setupVars
<1>9. CASE Stopped \/ Restart
  BY <1>9 DEF Stopped, Restart, Fresh
<1>10. CASE UnloadPlatforms
  BY <1>1, <1>10 DEF UnloadPlatforms, ForgetGateway
<1>11. ASSUME NEW d \in Devices, Pair(d) \/ Unpair(d) \/ HearUnknown(d) PROVE RegistryFits'
  BY <1>1, <1>11 DEF Pair, Unpair, HearUnknown, setupVars
<1>12. ASSUME NEW t \in tasks, Start(t) \/ FetchFails(t) \/ GiveUp(t) \/ FetchMerged(t)
       PROVE  RegistryFits'
  <2>1. phase \in {"loaded", "stopping"} => gen \in Gens
    BY <1>1 DEF PhaseFits
  <2> QED
    BY <1>1, <1>12, <2>1, CallQuiet
<1>13. ASSUME NEW t \in tasks, t.at # "start", NEW full \in BOOLEAN, Deliver(t, full)
       PROVE  RegistryFits'
  <2>1. UNCHANGED <<phase, gen, built>>
    BY <1>13 DEF Deliver, setupVars
  <2>2. \A d \in Devices : registry'[d] = IF d = t.dev /\ registry[d] = None
                                         THEN Found(t.gen) ELSE registry[d]
    BY <1>13 DEF Deliver, Register
  <2>3. CASE t.gen # gen \/ phase \notin {"loaded", "stopping"}
    <3>1. orphaned' = IF registry[t.dev] = None THEN orphaned \cup {t.dev} ELSE orphaned
      BY <1>13, <2>3 DEF Deliver
    <3>2. phase \in {"loaded", "stopping"} => coord'[gen].known = coord[gen].known
      BY <1>13, <2>3, DeliverEffect DEF Up
    <3> QED
      BY <1>1, <2>1, <2>2, <3>1, <3>2
  <2>4. CASE t.gen = gen /\ phase \in {"loaded", "stopping"}
    <3>1. orphaned' = orphaned
      BY <1>13, <2>4 DEF Deliver
    <3>2. /\ t.dev \notin coord[gen].known /\ t.dev \notin built
          /\ coord'[gen].known = coord[gen].known \cup {t.dev}
      BY <1>13, <2>4, DeliverEffect DEF Up
    <3> QED
      BY <1>1, <2>1, <2>2, <2>4, <3>1, <3>2
  <2> QED
    BY <2>3, <2>4
<1> QED
  BY <1>2, <1>3, <1>4, <1>5, <1>6, <1>7, <1>8, <1>9, <1>10, <1>11, <1>12, <1>13
  DEF Next, Setup, Unloading, Discovery, Discovered, DiscoveredBare

\* While the platforms are unloaded nothing more is handed over.
LEMMA HandedStep == IInv /\ KnownIsShown' /\ PhaseFits' /\ [Next]_vars => HandedOnce'
<1> SUFFICES ASSUME IInv, KnownIsShown', PhaseFits', [Next]_vars PROVE HandedOnce'
  OBVIOUS
<1>1. TypeOK /\ HandedOnce
  BY DEF IInv
<1>2. CASE Up' \/ phase' \in {"idle", "making"}
  BY <1>2 DEF KnownIsShown, HandedOnce, PhaseFits
<1>3. CASE ~Up' /\ phase' \notin {"idle", "making"}
  <2>1. phase' = "unloading"
    <3>1. phase' \in Phases
      BY TypeStep DEF TypeOK
    <3> QED
      BY <1>3, <3>1 DEF Phases, Up
  <2>2. handed' = handed
    BY <2>1 DEF Next, vars, setupVars, shownVars, Setup, Unloading, Discovery, BeginSetup,
         MakeDevices, MakeFails, Forward, StartListener, SetUpPlatform, SetUpPlatformFails,
         Unload, Stopped, DeleteScenes, UnloadPlatforms, Restart, Fresh, Pair, Unpair,
         HearUnknown, Start, FetchFails, GiveUp, FetchMerged, Discovered, DiscoveredBare,
         Deliver, IInv, PhaseFits
  <2> QED
    BY <1>1, <2>2 DEF HandedOnce
<1> QED
  BY <1>2, <1>3

-----------------------------------------------------------------------------

LEMMA InitHolds == Init => IInv
<1> SUFFICES ASSUME Init PROVE IInv
  OBVIOUS
<1>1. TypeOK
  <2>1. NewCoordinator \in Coordinator /\ 0 \in 0 .. MaxSetups
    BY SetupsAssumption DEF NewCoordinator, Coordinator
  <2>2. /\ coord \in [Gens -> Coordinator] /\ gen \in 0 .. MaxSetups
        /\ entity \in [Devices -> Object \cup {None}] /\ registry \in [Devices -> Object \cup {None}]
    BY <2>1 DEF Init
  <2>3. handed \in [Devices -> 0 .. 2] /\ companions \in [Devices -> 0 .. 2]
    BY DEF Init
  <2> QED
    BY <2>2, <2>3 DEF Init, TypeOK, Phases
<1>2. OneCallEach
  BY FS_EmptySet DEF Init, OneCallEach, Flying, NewCoordinator
<1>3. PhaseFits /\ KnownIsShown /\ CompanionsFit /\ RegistryFits /\ HandedOnce
  BY DEF Init, PhaseFits, KnownIsShown, CompanionsFit, RegistryFits, HandedOnce, Up
<1> QED
  BY <1>1, <1>2, <1>3 DEF IInv

LEMMA InvHolds == Spec => []IInv
<1>1. IInv /\ [Next]_vars => IInv'
  BY TypeStep, PhaseStep, CallsStep, KnownStep, CompanionsStep, RegistryStep, HandedStep DEF IInv
<1> QED
  BY <1>1, InitHolds, PTL DEF Spec

\* Setup, registry and discovery keep their types through every life of the entry.
THEOREM TypeCorrect == Spec => []TypeOK
BY InvHolds, PTL DEF IInv

\* State pushed by the hub reaches the entity that is shown (register, unregister_hub).
THEOREM UpdatesReach == Spec => []UpdatesReachEntity
<1>1. IInv => UpdatesReachEntity
  BY DEF IInv, UpdatesReachEntity, RegistryFits, KnownIsShown, Up
<1> QED
  BY <1>1, InvHolds, PTL

\* Setup and discovery together hand over one entity per device, and its companions once
\* (discover_device, async_setup_entry of the platforms).
THEOREM HandedOverOnce == Spec => []AddedOnce
<1>1. IInv => AddedOnce
  BY DEF IInv, AddedOnce, HandedOnce, CompanionsFit
<1> QED
  BY <1>1, InvHolds, PTL

\* Whoever made a device, its companions come with it (_add_battery_companion,
\* _add_registered_companions).
THEOREM CompanionsCome == Spec => []CompanionsToo
<1>1. IInv => CompanionsToo
  BY DEF IInv, CompanionsToo, CompanionsFit, KnownIsShown, Up, TypeOK
<1> QED
  BY <1>1, InvHolds, PTL

\* A pending device has one call under way, and is none that was shown or given up on
\* (discover_device).
THEOREM PendingFits == Spec => []Coordinated
<1>1. ASSUME IInv, NEW g \in Gens
      PROVE  Cardinality(Flying(g)) = Cardinality(coord[g].pending)
  <2>1. OneCallEach /\ IsFiniteSet(Flying(g))
    BY <1>1, FS_Subset DEF IInv, OneCallEach, Flying
  <2> DEFINE f == [t \in Flying(g) |-> t.dev]
  <2>2. f \in Bijection(Flying(g), coord[g].pending)
    <3>1. f \in [Flying(g) -> coord[g].pending]
      BY <2>1 DEF OneCallEach
    <3>2. \A t, u \in Flying(g) : f[t] = f[u] => t = u
      BY <2>1 DEF OneCallEach
    <3>3. \A d \in coord[g].pending : \E t \in Flying(g) : f[t] = d
      BY <2>1 DEF OneCallEach
    <3> HIDE DEF f
    <3> QED
      BY <3>1, <3>2, <3>3 DEF Bijection, Injection, Surjection, IsInjective
  <2> QED
    BY <2>1, <2>2, FS_Bijection DEF ExistsBijection
<1>2. IInv => Coordinated
  BY <1>1 DEF IInv, OneCallEach, Coordinated, Flying
<1> QED
  BY <1>2, InvHolds, PTL
=============================================================================
