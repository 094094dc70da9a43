------------------------ MODULE ConfigEntriesProofs ------------------------
(***************************************************************************)
(* Proofs about ConfigEntries, for any hubs, addresses, entries and        *)
(* dialogs, and any number of saves and of hubs that move or are reset.    *)
(***************************************************************************)
EXTENDS ConfigEntries, TLAPS

\* Every save reloads at most twice.
Counted == \A e \in Entries : reloads[e] <= 2 * saves

\* A dialog that has gone past its first form has an address.
Addressed ==
  \A f \in Flows : flow[f].at \in Requests \cup {"action"} => flow[f].ip \in Addresses

\* The unique_id of an entry is its address, until the options dialog changes the address;
\* it has one as soon as it was set up.
Named ==
  \A e \in Stored :
    /\ entry[e].uid = None \/ entry[e].uid = entry[e].ip \/ e \in moved
    /\ entry[e].uid = None => state[e] = "none"

\* What was asked for is what is stored.
AskedIsStored ==
  \A e \in Stored : asked[e] = [ip |-> entry[e].ip, matter |-> entry[e].matter]

\* From the beginning of its setup to the end of its unload an entry hears of every save.
Listens == \A e \in Entries : state[e] \in {"setup", "loaded", "unloading"} => listens[e]

\* What a setup, finished or not, works with is stored, or a reload will end it.
RunsWhatIsStored ==
  \A e \in Stored :
    state[e] \in {"setup", "loaded"} =>
      reloads[e] > 0 \/ (running[e].ip = entry[e].ip /\ running[e].matter = entry[e].matter)

IInv == /\ TypeOK /\ Counted /\ Addressed /\ TokenFitsAddress /\ AddedOnce /\ Named
        /\ AskedIsStored /\ Listens /\ RunsWhatIsStored

\* The steps of a dialog before its last, and one that comes to nothing.
Talks(f) ==
  \/ Cancel(f) \/ PairingStep(f) \/ OpenAdd(f) \/ SubmitRetry(f) \/ CheckFails(f) \/ SaveFails(f)
  \/ \E ip \in Addresses, matter \in Settings : SubmitUser(f, ip, matter) \/ SubmitInit(f, ip, matter)
  \/ \E e \in Entries : OpenOptions(f, e)

-----------------------------------------------------------------------------

LEMMA NothingIsHere == None \notin Addresses \cup Hubs /\ Void \notin Hubs
BY ValuesAssumption

LEMMA StoredIsData ==
  ASSUME TypeOK, NEW e \in Stored
  PROVE  e \in Entries /\ entry[e] \in Data
BY DEF TypeOK, Stored

\* A form, as Show leaves a dialog.
LEMMA FormLemma ==
  ASSUME TypeOK, NEW f \in Flows, NEW form \in Forms, Show(f, form)
  PROVE  flow' \in [Flows -> Flow] /\ flow'[f].at = form /\ \A g \in Flows \ {f} : flow'[g] = flow[g]
<1>1. flow \in [Flows -> Flow] /\ flow[f].of \in Entries \cup {None} /\ flow[f].ip \in Addresses \cup {None}
  BY DEF TypeOK, Flow
<1>2. PICK r : /\ r = [NoFlow EXCEPT !.at = form, !.of = flow[f].of,
                         !.ip = IF flow[f].of = None THEN flow[f].ip ELSE None]
               /\ flow' = [flow EXCEPT ![f] = r]
  BY DEF Show, Set
<1>3. r \in Flow /\ r.at = form
  BY <1>1, <1>2 DEF NoFlow, Flow, Forms, Settings, Defaults
<1> QED
  BY <1>1, <1>2, <1>3

\* Until its last step a dialog changes nothing but itself.
LEMMA TalkLemma ==
  ASSUME TypeOK, Addressed, NEW f \in Flows, Talks(f)
  PROVE  flow' \in [Flows -> Flow] /\ Addressed' /\ UNCHANGED <<at, upsets, lifeVars, storeVars>>
<1>1. flow \in [Flows -> Flow] /\ flow[f] \in Flow
  BY DEF TypeOK
<1>2. UNCHANGED <<at, upsets, lifeVars, storeVars>>
  BY DEF Talks, Cancel, PairingStep, Challenged, ChallengeFails, SubmitAction, TokenFails, OpenAdd,
         SubmitRetry, CheckFails, SaveFails, SubmitUser, SubmitInit, OpenOptions
<1>3. ASSUME NEW form \in Forms \ {"action"}, Show(f, form)
      PROVE  flow' \in [Flows -> Flow] /\ Addressed'
  BY <1>3, FormLemma DEF Addressed, Forms, Requests
<1>4. ASSUME NEW r \in Flow, r.at \in Requests \cup {"action"} => r.ip \in Addresses, Set(f, r)
      PROVE  flow' \in [Flows -> Flow] /\ Addressed'
  BY <1>1, <1>4 DEF Set, Addressed
<1>5. CASE ChallengeFails(f) \/ TokenFails(f) \/ OpenAdd(f) \/ SubmitRetry(f) \/ SaveFails(f)
  BY <1>3, <1>5 DEF ChallengeFails, TokenFails, OpenAdd, SubmitRetry, SaveFails, Forms
<1>6. NoFlow \in Flow /\ NoFlow.at = "none"
  BY DEF NoFlow, Flow, Defaults, Settings
<1>7. CASE Cancel(f)
  BY <1>4, <1>6, <1>7 DEF Cancel, Requests
<1>8. CASE Challenged(f)
  <2>1. PICK h \in Hubs : Set(f, [flow[f] EXCEPT !.at = "action", !.code = h])
    BY <1>8 DEF Challenged
  <2>2. flow[f].ip \in Addresses
    BY <1>8 DEF Challenged, Addressed, Requests
  <2> DEFINE r == [flow[f] EXCEPT !.at = "action", !.code = h]
  <2>3. r \in Flow /\ r.ip = flow[f].ip
    BY <1>1 DEF Flow, Forms
  <2>4. flow' = [flow EXCEPT ![f] = r]
    BY <2>1 DEF Set
  <2> HIDE DEF r
  <2> QED
    BY <1>2, <1>4, <2>2, <2>3, <2>4 DEF Set
<1>9. CASE SubmitAction(f)
  <2>1. flow[f].ip \in Addresses
    BY <1>9 DEF SubmitAction, Addressed
  <2>2. [flow[f] EXCEPT !.at = "token"] \in Flow /\ [flow[f] EXCEPT !.at = "token"].ip = flow[f].ip
    BY <1>1 DEF Flow, Requests
  <2> QED
    BY <1>4, <1>9, <2>1, <2>2 DEF SubmitAction, Goto
<1>10. CASE CheckFails(f)
  <2>1. flow[f].ip \in Addresses
    BY <1>10 DEF CheckFails, Addressed, Requests
  <2>2. /\ [flow[f] EXCEPT !.at = "challenge", !.token = None] \in Flow
        /\ [flow[f] EXCEPT !.at = "challenge", !.token = None].ip = flow[f].ip
    BY <1>1 DEF Flow, Requests
  <2> QED
    BY <1>4, <1>10, <2>1, <2>2 DEF CheckFails
<1>11. ASSUME NEW ip \in Addresses, NEW matter \in Settings, NEW token \in Tokens \cup {None},
              NEW label \in Requests
       PROVE  /\ [flow[f] EXCEPT !.at = label, !.ip = ip, !.matter = matter] \in Flow
              /\ [flow[f] EXCEPT !.at = label, !.ip = ip, !.matter = matter].ip = ip
              /\ [flow[f] EXCEPT !.at = label, !.ip = ip, !.matter = matter, !.token = token] \in Flow
              /\ [flow[f] EXCEPT !.at = label, !.ip = ip, !.matter = matter, !.token = token].ip = ip
  BY <1>1 DEF Flow
<1>12. ASSUME NEW ip \in Addresses, NEW matter \in Settings, SubmitUser(f, ip, matter)
       PROVE  flow' \in [Flows -> Flow] /\ Addressed'
  <2>1. \/ Set(f, NoFlow)
        \/ Set(f, [flow[f] EXCEPT !.at = "challenge", !.ip = ip, !.matter = matter])
    BY <1>12 DEF SubmitUser
  <2>2. "challenge" \in Requests
    BY DEF Requests
  <2>3. /\ [flow[f] EXCEPT !.at = "challenge", !.ip = ip, !.matter = matter] \in Flow
        /\ [flow[f] EXCEPT !.at = "challenge", !.ip = ip, !.matter = matter].ip = ip
    BY <1>11, <2>2
  <2>4. NoFlow.at \notin Requests \cup {"action"}
    BY <1>6 DEF Requests
  <2> QED
    BY <1>4, <1>6, <2>1, <2>3, <2>4
<1>13. ASSUME NEW ip \in Addresses, NEW matter \in Settings, SubmitInit(f, ip, matter)
       PROVE  flow' \in [Flows -> Flow] /\ Addressed'
  <2> DEFINE e == flow[f].of
             r == [flow[f] EXCEPT !.ip = ip, !.matter = matter]
  <2>1. CASE e \in Stored /\ entry[e].ip = ip
    <3>1. flow' = [flow EXCEPT ![f] = [r EXCEPT !.at = "check", !.token = entry[e].token]]
      BY <1>13, <2>1 DEF SubmitInit, Set
    <3>2. entry[e].token \in Tokens
      BY <2>1, StoredIsData DEF Data
    <3>3. /\ [r EXCEPT !.at = "check", !.token = entry[e].token] \in Flow
          /\ [r EXCEPT !.at = "check", !.token = entry[e].token].ip = ip
      BY <1>1, <3>2 DEF Flow, Requests
    <3> QED
      BY <1>4, <3>1, <3>3 DEF Set
  <2>2. CASE ~(e \in Stored /\ entry[e].ip = ip)
    <3>1. flow' = [flow EXCEPT ![f] = [r EXCEPT !.at = "challenge"]]
      BY <1>13, <2>2 DEF SubmitInit, Set
    <3>2. [r EXCEPT !.at = "challenge"] \in Flow /\ [r EXCEPT !.at = "challenge"].ip = ip
      BY <1>1 DEF Flow, Requests
    <3> QED
      BY <1>4, <3>1, <3>2 DEF Set
  <2> QED
    BY <2>1, <2>2
<1>14. ASSUME NEW e \in Entries, OpenOptions(f, e) PROVE flow' \in [Flows -> Flow] /\ Addressed'
  <2>1. [NoFlow EXCEPT !.at = "form", !.of = e] \in Flow /\ [NoFlow EXCEPT !.at = "form", !.of = e].at = "form"
    BY DEF NoFlow, Flow, Forms, Defaults, Settings
  <2> QED
    BY <1>4, <1>14, <2>1 DEF OpenOptions, Requests
<1> QED
  BY <1>2, <1>5, <1>7, <1>8, <1>9, <1>10, <1>12, <1>13, <1>14 DEF Talks, PairingStep

\* What the add dialog writes: address and token of one hub.
Created(f, e, ip, token, matter) ==
  LET gone == {g \in Stored : entry[g].uid = ip} IN
  /\ at[token] = ip /\ e \notin Stored \ gone
  /\ entry' = [g \in Entries |->
       IF g = e THEN [ip |-> ip, token |-> token, matter |-> matter, uid |-> ip]
       ELSE IF g \in gone THEN None ELSE entry[g]]
  /\ opted' = opted \ {e}
  /\ state' = [state EXCEPT ![e] = "none"] /\ running' = [running EXCEPT ![e] = None]
  /\ listens' = [listens EXCEPT ![e] = FALSE] /\ reloads' = [reloads EXCEPT ![e] = 0]
  /\ asked' = [asked EXCEPT ![e] = [ip |-> ip, matter |-> matter]]
  /\ slipped' = IF \E g \in Stored \ gone :
                       entry[g].ip = ip /\ entry[g].uid = None /\ state[g] = "none"
                THEN slipped \cup {e} ELSE slipped \ {e}
  /\ moved' = moved \ {e} /\ stale' = stale \ {e}
  /\ flow' = [flow EXCEPT ![f] = NoFlow]
  /\ saves < MaxSaves /\ saves' = saves + 1 /\ UNCHANGED <<at, upsets>>

LEMMA CreateEffect ==
  ASSUME TypeOK, Addressed, NEW f \in Flows, CreateEntry(f)
  PROVE  \E e \in Entries, ip \in Addresses, token \in Hubs, matter \in Settings :
           Created(f, e, ip, token, matter)
<1>1. /\ flow[f].ip \in Addresses /\ flow[f].code \in Hubs /\ at[flow[f].code] = flow[f].ip
      /\ flow[f].matter \in Settings
  BY DEF CreateEntry, Minted, Works, Addressed, Requests, TypeOK, Flow
<1>2. \E e \in Entries : Created(f, e, flow[f].ip, flow[f].code, flow[f].matter)
  BY <1>1 DEF CreateEntry, NewData, Set, Created
<1> QED
  BY <1>1, <1>2

\* What the options dialog writes: address and token of one hub, here too.
LEMMA SaveEffect ==
  ASSUME TypeOK, Addressed, NEW f \in Flows, SaveOptions(f)
  PROVE  \E e \in Stored, ip \in Addresses, token \in Hubs, matter \in Settings :
           /\ at[token] = ip /\ Store(e, ip, token, matter)
           /\ flow' = [flow EXCEPT ![f] = NoFlow]
           /\ saves < MaxSaves /\ saves' = saves + 1
           /\ UNCHANGED <<at, upsets, state, running, listens, slipped>>
<1> DEFINE token == IF flow[f].at = "check" THEN flow[f].token ELSE flow[f].code
<1>1. flow[f].ip \in Addresses /\ token \in Hubs /\ at[token] = flow[f].ip
  BY DEF SaveOptions, Minted, Works, Addressed, Requests
<1>2. flow[f].matter \in Settings /\ flow[f].of \in Stored
  BY DEF TypeOK, Flow, SaveOptions
<1>3. Store(flow[f].of, flow[f].ip, token, flow[f].matter)
  BY DEF SaveOptions
<1> HIDE DEF token
<1>4. /\ flow' = [flow EXCEPT ![f] = NoFlow] /\ saves < MaxSaves /\ saves' = saves + 1
      /\ UNCHANGED <<at, upsets, state, running, listens, slipped>>
  BY DEF SaveOptions, Set
<1> QED
  BY <1>1, <1>2, <1>3, <1>4

\* A save calls the update listener at most twice, and at least once if it changes anything.
LEMMA CallsLemma ==
  ASSUME TypeOK, NEW e \in Stored, NEW new
  PROVE  Calls(e, new) \in 0 .. 2 /\ (Saved(entry[e]) # new => Calls(e, new) > 0)
BY DEF Calls

LEMMA NoFlowLemma ==
  ASSUME TypeOK, Addressed, NEW f \in Flows, flow' = [flow EXCEPT ![f] = NoFlow]
  PROVE  flow' \in [Flows -> Flow] /\ Addressed'
<1>1. NoFlow \in Flow /\ NoFlow.at = "none"
  BY DEF NoFlow, Flow, Defaults, Settings
<1> QED
  BY <1>1 DEF TypeOK, Addressed, Requests

\* A hub that is reset voids tokens and changes nothing else of an entry, a setup or a dialog.
LEMMA ResetEffect ==
  ASSUME TypeOK, NEW h \in Hubs, ResetHub(h)
  PROVE  /\ entry' \in [Entries -> Data \cup {None}]
         /\ running' \in [Entries -> SavedData \cup {None}]
         /\ flow' \in [Flows -> Flow]
         /\ \A f \in Flows : flow'[f].at = flow[f].at /\ flow'[f].ip = flow[f].ip
         /\ \A e \in Entries : running'[e] = running[e] \/ 
              (running[e] \in SavedData /\ running'[e].ip = running[e].ip
                                        /\ running'[e].matter = running[e].matter)
         /\ \A e \in Entries : entry'[e] = entry[e] \/ e \in Stored
         /\ \A e \in Stored :
              /\ entry'[e].ip = entry[e].ip /\ entry'[e].matter = entry[e].matter
              /\ entry'[e].uid = entry[e].uid
              /\ entry'[e].token = entry[e].token \/ entry[e].token = h
<1> DEFINE Voided(r) == IF r # None /\ r.token = h THEN [r EXCEPT !.token = Void] ELSE r
<1>1. /\ entry' = [e \in Entries |-> Voided(entry[e])]
      /\ running' = [e \in Entries |-> Voided(running[e])]
      /\ flow' = [f \in Flows |-> Voided(flow[f])]
  BY DEF ResetHub
<1>2. ASSUME NEW r \in Data
      PROVE  /\ Voided(r) \in Data /\ Voided(r).ip = r.ip /\ Voided(r).matter = r.matter
             /\ Voided(r).uid = r.uid /\ (Voided(r).token = r.token \/ r.token = h)
  BY <1>2 DEF Data, Tokens
<1>3. ASSUME NEW r \in SavedData
      PROVE  Voided(r) \in SavedData /\ Voided(r).ip = r.ip /\ Voided(r).matter = r.matter
  BY <1>3 DEF SavedData, Tokens
<1>4. ASSUME NEW r \in Flow
      PROVE  Voided(r) \in Flow /\ Voided(r).at = r.at /\ Voided(r).ip = r.ip
  BY <1>4 DEF Flow, Tokens
<1>5. Voided(None) = None
  OBVIOUS
<1> HIDE DEF Voided
<1>6. entry \in [Entries -> Data \cup {None}] /\ running \in [Entries -> SavedData \cup {None}]
      /\ flow \in [Flows -> Flow]
  BY DEF TypeOK
<1> QED
  BY <1>1, <1>2, <1>3, <1>4, <1>5, <1>6 DEF Stored

-----------------------------------------------------------------------------

LEMMA TypeStep == TypeOK /\ Addressed /\ Counted /\ [Next]_vars => TypeOK' /\ Addressed' /\ Counted'
<1> SUFFICES ASSUME TypeOK, Addressed, Counted, [Next]_vars PROVE TypeOK' /\ Addressed' /\ Counted'
  OBVIOUS
<1>0. /\ MaxSaves \in Nat /\ MaxUpsets \in Nat /\ saves \in 0 .. MaxSaves
      /\ reloads \in [Entries -> 0 .. 2 * MaxSaves]
  BY ValuesAssumption DEF TypeOK
<1>1. ASSUME NEW f \in Flows, Talks(f) PROVE TypeOK' /\ Addressed' /\ Counted'
  BY <1>1, TalkLemma DEF TypeOK, Counted, Stored, lifeVars, storeVars, history
<1>2. ASSUME NEW h \in Hubs, Upset(h)
      PROVE  stale' \subseteq Entries /\ upsets' \in 0 .. MaxUpsets
             /\ UNCHANGED <<asked, moved, slipped, saves>>
  BY <1>0, <1>2 DEF Upset, TypeOK, Stored
<1>3. ASSUME NEW h \in Hubs, MoveHub(h) PROVE TypeOK' /\ Addressed' /\ Counted'
  <2>1. at' \in [Hubs -> Addresses \cup {None}]
    BY <1>3 DEF MoveHub, TypeOK
  <2> QED
    BY <1>2, <1>3, <2>1 DEF MoveHub, lifeVars, TypeOK, Addressed, Counted
<1>4. ASSUME NEW h \in Hubs, ResetHub(h) PROVE TypeOK' /\ Addressed' /\ Counted'
  BY <1>2, <1>4, ResetEffect DEF ResetHub, TypeOK, Addressed, Counted
<1>5. ASSUME NEW f \in Flows, CreateEntry(f) PROVE TypeOK' /\ Addressed' /\ Counted'
  <2>1. PICK e \in Entries, ip \in Addresses, token \in Hubs, matter \in Settings :
          Created(f, e, ip, token, matter)
    BY <1>5, CreateEffect
  <2>2. [ip |-> ip, token |-> token, matter |-> matter, uid |-> ip] \in Data
    BY DEF Data, Tokens
  <2>3. entry' \in [Entries -> Data \cup {None}]
    BY <2>1, <2>2 DEF TypeOK, Created
  <2>4. /\ reloads' \in [Entries -> 0 .. 2 * MaxSaves] /\ Counted'
        /\ saves' \in 0 .. MaxSaves
    BY <1>0, <2>1 DEF Counted, Created
  <2>5. /\ state' \in [Entries -> {"none", "setup", "loaded", "error", "unloading", "failed"}]
        /\ running' \in [Entries -> SavedData \cup {None}] /\ listens' \in [Entries -> BOOLEAN]
        /\ asked' \in [Entries -> [ip : Addresses, matter : Settings] \cup {None}]
        /\ opted' \subseteq Entries /\ moved' \subseteq Entries /\ slipped' \subseteq Entries
        /\ stale' \subseteq Entries
    BY <2>1 DEF TypeOK, Created
  <2>6. flow' \in [Flows -> Flow] /\ Addressed'
    BY <2>1, NoFlowLemma DEF Created
  <2> QED
    BY <2>1, <2>3, <2>4, <2>5, <2>6 DEF TypeOK, Created
<1>6. ASSUME NEW f \in Flows, SaveOptions(f) PROVE TypeOK' /\ Addressed' /\ Counted'
  <2>1. PICK e \in Stored, ip \in Addresses, token \in Hubs, matter \in Settings :
          /\ Store(e, ip, token, matter)
          /\ flow' = [flow EXCEPT ![f] = NoFlow]
          /\ saves < MaxSaves /\ saves' = saves + 1
          /\ UNCHANGED <<at, upsets, state, running, listens, slipped>>
    BY <1>6, SaveEffect
  <2> DEFINE new == [ip |-> ip, token |-> token, matter |-> matter]
  <2>2. e \in Entries /\ entry[e] \in Data
    BY StoredIsData
  <2>3. entry' \in [Entries -> Data \cup {None}]
    <3>1. [entry[e] EXCEPT !.ip = ip, !.token = token, !.matter = matter] \in Data
      BY <2>2 DEF Data, Tokens
    <3>2. entry' = [entry EXCEPT ![e] = [entry[e] EXCEPT !.ip = ip, !.token = token, !.matter = matter]]
      BY <2>1, <2>2 DEF Store, TypeOK
    <3> QED
      BY <3>1, <3>2 DEF TypeOK
  <2>4. /\ reloads' \in [Entries -> 0 .. 2 * MaxSaves] /\ Counted'
        /\ saves' \in 0 .. MaxSaves
    <3>1. reloads' = reloads \/ reloads' = [reloads EXCEPT ![e] = @ + Calls(e, new)]
      BY <2>1 DEF Store
    <3>2. PICK n \in 0 .. 2 : n = Calls(e, new)
      BY CallsLemma
    <3>3. reloads[e] <= 2 * saves
      BY <2>2 DEF Counted
    <3> HIDE DEF new
    <3>4. \A g \in Entries : reloads'[g] = reloads[g] \/ (g = e /\ reloads'[g] = reloads[g] + n)
      BY <1>0, <2>2, <3>1, <3>2
    <3>5. \A g \in Entries : reloads'[g] \in 0 .. 2 * (saves + 1)
      BY <1>0, <3>2, <3>4 DEF Counted
    <3>6. DOMAIN reloads' = Entries /\ reloads' \in [Entries -> Nat]
      BY <1>0, <2>2, <3>1, <3>2
    <3> QED
      BY <1>0, <2>1, <3>5, <3>6 DEF Counted
  <2>5. asked' \in [Entries -> [ip : Addresses, matter : Settings] \cup {None}]
    BY <2>1, <2>2 DEF Store, TypeOK
  <2>6. opted' \subseteq Entries /\ moved' \subseteq Entries /\ stale' \subseteq Entries
    BY <2>1, <2>2 DEF Store, TypeOK
  <2>7. flow' \in [Flows -> Flow] /\ Addressed'
    BY <2>1, NoFlowLemma
  <2> QED
    BY <2>1, <2>3, <2>4, <2>5, <2>6, <2>7 DEF TypeOK
<1>7. ASSUME NEW e \in Entries, BeginSetup(e) PROVE TypeOK' /\ Addressed' /\ Counted'
  <2>1. entry[e] \in Data
    BY <1>7, StoredIsData DEF BeginSetup
  <2>2. entry' \in [Entries -> Data \cup {None}]
    <3>1. [entry[e] EXCEPT !.uid = entry[e].ip] \in Data
      BY <2>1 DEF Data
    <3>2. entry' = entry \/ entry' = [entry EXCEPT ![e] = [entry[e] EXCEPT !.uid = entry[e].ip]]
      BY <1>7 DEF BeginSetup, TypeOK
    <3> QED
      BY <3>1, <3>2 DEF TypeOK
  <2>3. running' \in [Entries -> SavedData \cup {None}]
    BY <1>7, <2>1 DEF BeginSetup, TypeOK, Saved, SavedData, Data
  <2> QED
    BY <1>7, <2>2, <2>3 DEF BeginSetup, TypeOK, Addressed, Counted, history
<1>8. ASSUME NEW e \in Entries,
             SetupDone(e) \/ SetupFails(e) \/ Unloaded(e) \/ UnloadFails(e)
      PROVE  TypeOK' /\ Addressed' /\ Counted'
  BY <1>8 DEF SetupDone, SetupFails, Unloaded, UnloadFails, TypeOK, Addressed, Counted, storeVars, history
<1>9. ASSUME NEW e \in Entries, BeginReload(e) PROVE TypeOK' /\ Addressed' /\ Counted'
  <2>1. reloads' \in [Entries -> 0 .. 2 * MaxSaves] /\ \A g \in Entries : reloads'[g] <= reloads[g]
    BY <1>0, <1>9 DEF BeginReload
  <2>2. Counted'
    BY <1>0, <1>9, <2>1 DEF BeginReload, Counted, storeVars
  <2>3. state' \in [Entries -> {"none", "setup", "loaded", "error", "unloading", "failed"}]
    BY <1>9 DEF BeginReload, TypeOK
  <2> QED
    BY <1>9, <2>1, <2>2, <2>3 DEF BeginReload, TypeOK, Addressed, storeVars, history
<1>10. ASSUME NEW e \in Entries, Remove(e) PROVE TypeOK' /\ Addressed' /\ Counted'
  <2>1. reloads' \in [Entries -> 0 .. 2 * MaxSaves] /\ Counted'
    BY <1>0, <1>10 DEF Remove, Unborn, Counted
  <2> QED
    BY <1>10, <2>1 DEF Remove, Unborn, TypeOK, Addressed
<1>11. CASE Restart
  <2>1. NoFlow \in Flow /\ NoFlow.at \notin Requests \cup {"action"}
    BY DEF NoFlow, Flow, Defaults, Settings, Requests
  <2>2. flow' \in [Flows -> Flow] /\ Addressed'
    BY <1>11, <2>1 DEF Restart, Addressed
  <2>3. reloads' \in [Entries -> 0 .. 2 * MaxSaves] /\ Counted'
    BY <1>0, <1>11 DEF Restart, Counted, storeVars
  <2> QED
    BY <1>11, <2>2, <2>3 DEF Restart, TypeOK, storeVars, history
<1>12. CASE UNCHANGED vars
  BY <1>12 DEF vars, lifeVars, storeVars, history, TypeOK, Addressed, Counted
<1> QED
  BY <1>1, <1>3, <1>4, <1>5, <1>6, <1>7, <1>8, <1>9, <1>10, <1>11, <1>12
  DEF Next, Talks, PairingStep, AddStep, OptionsStep, LifeStep

\* A dialog pairs address and token of one hub; only the hub parts them later.
LEMMA TokenStep == TypeOK /\ Addressed /\ TokenFitsAddress /\ [Next]_vars => TokenFitsAddress'
<1> SUFFICES ASSUME TypeOK, Addressed, TokenFitsAddress, [Next]_vars PROVE TokenFitsAddress'
  OBVIOUS
<1>1. ASSUME UNCHANGED <<at, stale>>, \A e \in Entries : entry'[e] = entry[e] \/ e \notin Stored'
                \/ (e \in Stored /\ entry'[e].ip = entry[e].ip /\ entry'[e].token = entry[e].token)
      PROVE  TokenFitsAddress'
  BY <1>1 DEF TokenFitsAddress, Works, Stored
<1>2. ASSUME NEW f \in Flows, Talks(f) PROVE TokenFitsAddress'
  BY <1>1, <1>2, TalkLemma DEF storeVars, history
<1>3. ASSUME NEW h \in Hubs, MoveHub(h) PROVE TokenFitsAddress'
  <2>1. \A g \in Hubs \ {h} : at'[g] = at[g]
    BY <1>3 DEF MoveHub, TypeOK
  <2> QED
    BY <1>3, <2>1 DEF MoveHub, Upset, TokenFitsAddress, Works, Stored
<1>4. ASSUME NEW h \in Hubs, ResetHub(h) PROVE TokenFitsAddress'
  <2>1. at' = at /\ stale' = stale \cup {e \in Stored : entry[e].token = h}
    BY <1>4 DEF ResetHub, Upset
  <2> QED
    BY <1>4, <2>1, ResetEffect DEF TokenFitsAddress, Works, Stored
<1>5. ASSUME NEW f \in Flows, CreateEntry(f) PROVE TokenFitsAddress'
  <2>1. PICK e \in Entries, ip \in Addresses, token \in Hubs, matter \in Settings :
          Created(f, e, ip, token, matter)
    BY <1>5, CreateEffect
  <2> QED
    BY <2>1 DEF Created, TokenFitsAddress, Works, Stored
<1>6. ASSUME NEW f \in Flows, SaveOptions(f) PROVE TokenFitsAddress'
  <2>1. PICK e \in Stored, ip \in Addresses, token \in Hubs, matter \in Settings :
          at[token] = ip /\ Store(e, ip, token, matter) /\ at' = at
    BY <1>6, SaveEffect
  <2>2. e \in Entries /\ entry[e] \in Data
    BY StoredIsData
  <2>3. /\ entry'[e].ip = ip /\ entry'[e].token = token /\ stale' = stale \ {e}
        /\ \A g \in Entries \ {e} : entry'[g] = entry[g]
    BY <2>1, <2>2 DEF Store, TypeOK, Data
  <2> QED
    BY <2>1, <2>2, <2>3 DEF TokenFitsAddress, Works, Stored
<1>7. ASSUME NEW e \in Entries, BeginSetup(e) PROVE TokenFitsAddress'
  <2>1. entry[e] \in Data /\ e \in Stored
    BY <1>7, StoredIsData DEF BeginSetup
  <2>2. /\ entry'[e].ip = entry[e].ip /\ entry'[e].token = entry[e].token
        /\ \A g \in Entries \ {e} : entry'[g] = entry[g]
    BY <1>7, <2>1 DEF BeginSetup, TypeOK, Data
  <2> QED
    BY <1>1, <1>7, <2>1, <2>2 DEF BeginSetup, history
<1>8. ASSUME NEW e \in Entries, Remove(e) PROVE TokenFitsAddress'
  BY <1>8 DEF Remove, TokenFitsAddress, Works, Stored, TypeOK
<1>9. CASE \/ \E e \in Entries : SetupDone(e) \/ SetupFails(e) \/ BeginReload(e)
                              \/ Unloaded(e) \/ UnloadFails(e)
           \/ Restart \/ UNCHANGED vars
  BY <1>1, <1>9 DEF SetupDone, SetupFails, BeginReload, Unloaded, UnloadFails, Restart, vars,
                    storeVars, history
<1> QED
  BY <1>2, <1>3, <1>4, <1>5, <1>6, <1>7, <1>8, <1>9
  DEF Next, Talks, PairingStep, AddStep, OptionsStep, LifeStep

\* What a step that writes no entry leaves of the unique_ids and of what was asked for.
LEMMA NamesKept ==
  ASSUME TypeOK, Named, AddedOnce, AskedIsStored, UNCHANGED <<asked, moved, slipped>>,
         \A e \in Entries : entry'[e] = entry[e] \/ e \in Stored,
         \A e \in Stored : e \in Stored' =>
           /\ entry'[e].ip = entry[e].ip /\ entry'[e].matter = entry[e].matter
           /\ entry'[e].uid = entry[e].uid \/ entry'[e].uid = entry[e].ip
           /\ entry'[e].uid = None => entry[e].uid = None /\ (state[e] = "none" => state'[e] = "none")
  PROVE  Named' /\ AddedOnce' /\ AskedIsStored'
<1>1. Stored' \subseteq Stored
  BY DEF Stored
<1>2. Named'
  BY <1>1, StoredIsData DEF Named
<1>3. AddedOnce' /\ AskedIsStored'
  BY <1>1 DEF AddedOnce, AskedIsStored
<1> QED
  BY <1>2, <1>3

\* An address is that of one entry, unless a dialog changed it or came before the setup of an
\* entry without a unique_id.
LEMMA NamesStep ==
  /\ TypeOK /\ Addressed /\ Named /\ AddedOnce /\ AskedIsStored /\ [Next]_vars
  => Named' /\ AddedOnce' /\ AskedIsStored'
<1> SUFFICES ASSUME TypeOK, Addressed, Named, AddedOnce, AskedIsStored, [Next]_vars
             PROVE  Named' /\ AddedOnce' /\ AskedIsStored'
  OBVIOUS
<1>1. ASSUME UNCHANGED <<entry, asked, moved, slipped>>,
             \A e \in Stored : entry[e].uid = None /\ state[e] = "none" => state'[e] = "none"
      PROVE  Named' /\ AddedOnce' /\ AskedIsStored'
  BY <1>1, NamesKept DEF Stored
<1>2. ASSUME NEW f \in Flows, Talks(f) PROVE Named' /\ AddedOnce' /\ AskedIsStored'
  BY <1>1, <1>2, TalkLemma DEF storeVars, history, lifeVars
<1>3. ASSUME NEW h \in Hubs, MoveHub(h) PROVE Named' /\ AddedOnce' /\ AskedIsStored'
  BY <1>1, <1>3 DEF MoveHub, Upset, lifeVars
<1>4. ASSUME NEW h \in Hubs, ResetHub(h) PROVE Named' /\ AddedOnce' /\ AskedIsStored'
  BY <1>4, ResetEffect, NamesKept DEF ResetHub, Upset
<1>5. ASSUME NEW f \in Flows, CreateEntry(f) PROVE Named' /\ AddedOnce' /\ AskedIsStored'
  <2>1. PICK e \in Entries, ip \in Addresses, token \in Hubs, matter \in Settings :
          Created(f, e, ip, token, matter)
    BY <1>5, CreateEffect
  <2>2. /\ entry'[e].ip = ip /\ entry'[e].uid = ip /\ entry'[e].matter = matter /\ ip # None
        /\ asked'[e] = [ip |-> ip, matter |-> matter] /\ e \notin moved'
    BY <2>1, NothingIsHere DEF Created, TypeOK
  <2>3. ASSUME NEW g \in Stored' \ {e}
        PROVE  /\ g \in Stored /\ entry'[g] = entry[g] /\ entry[g].uid # ip
               /\ asked'[g] = asked[g] /\ state'[g] = state[g]
               /\ (g \in moved' <=> g \in moved) /\ (g \in slipped' <=> g \in slipped)
    BY <2>1, <2>3 DEF Created, Stored, TypeOK
  <2>4. Named' /\ AskedIsStored'
    BY <2>2, <2>3 DEF Named, AskedIsStored
  <2>5. ASSUME NEW g \in Stored' \ {e}, entry[g].ip = ip, g \notin moved PROVE e \in slipped'
    BY <2>1, <2>3, <2>5 DEF Created, Named
  <2>6. AddedOnce'
    BY <2>2, <2>3, <2>5 DEF AddedOnce
  <2> QED
    BY <2>4, <2>6
<1>6. ASSUME NEW f \in Flows, SaveOptions(f) PROVE Named' /\ AddedOnce' /\ AskedIsStored'
  <2>1. PICK e \in Stored, ip \in Addresses, token \in Hubs, matter \in Settings :
          Store(e, ip, token, matter) /\ UNCHANGED <<state, slipped>>
    BY <1>6, SaveEffect
  <2>2. e \in Entries /\ entry[e] \in Data
    BY StoredIsData
  <2>3. /\ entry'[e].ip = ip /\ entry'[e].matter = matter /\ entry'[e].uid = entry[e].uid
        /\ asked'[e] = [ip |-> ip, matter |-> matter]
        /\ \A g \in Entries \ {e} : entry'[g] = entry[g] /\ asked'[g] = asked[g]
        /\ moved' = IF entry[e].ip # ip THEN moved \cup {e} ELSE moved
    BY <2>1, <2>2 DEF Store, TypeOK, Data
  <2> QED
    BY <2>1, <2>2, <2>3 DEF Named, AddedOnce, AskedIsStored, Stored
<1>7. ASSUME NEW e \in Entries, BeginSetup(e) PROVE Named' /\ AddedOnce' /\ AskedIsStored'
  <2>1. entry[e] \in Data /\ e \in Stored
    BY <1>7, StoredIsData DEF BeginSetup
  <2>2. /\ entry'[e].ip = entry[e].ip /\ entry'[e].matter = entry[e].matter
        /\ entry'[e].uid = IF entry[e].uid = None THEN entry[e].ip ELSE entry[e].uid
        /\ \A g \in Entries \ {e} : entry'[g] = entry[g] /\ state'[g] = state[g]
    BY <1>7, <2>1 DEF BeginSetup, TypeOK, Data
  <2>3. entry'[e].uid # None
    BY <2>1, <2>2, NothingIsHere DEF Data
  <2> QED
    BY <1>7, <2>1, <2>2, <2>3, NamesKept DEF BeginSetup, history, Stored
<1>8. ASSUME NEW e \in Entries, SetupDone(e) \/ SetupFails(e) \/ BeginReload(e) \/ Unloaded(e) \/ UnloadFails(e)
      PROVE  Named' /\ AddedOnce' /\ AskedIsStored'
  <2>1. UNCHANGED <<entry, asked, moved, slipped>>
    BY <1>8 DEF SetupDone, SetupFails, BeginReload, Unloaded, UnloadFails, storeVars, history
  <2>2. \A g \in Entries : state[g] = "none" => state'[g] = "none"
    BY <1>8 DEF SetupDone, SetupFails, BeginReload, Unloaded, UnloadFails, TypeOK
  <2> QED
    BY <1>1, <2>1, <2>2 DEF Stored
<1>9. ASSUME NEW e \in Entries, Remove(e) PROVE Named' /\ AddedOnce' /\ AskedIsStored'
  <2>1. /\ e \notin Stored' /\ \A g \in Stored' : g \in Stored /\ g # e /\ entry'[g] = entry[g]
        /\ \A g \in Entries \ {e} : asked'[g] = asked[g] /\ state'[g] = state[g]
        /\ moved' = moved \ {e} /\ slipped' = slipped \ {e} /\ Stored' \subseteq Entries
    BY <1>9 DEF Remove, Unborn, Stored, TypeOK
  <2> QED
    BY <2>1 DEF Named, AddedOnce, AskedIsStored
<1>10. CASE Restart
  BY <1>1, <1>10 DEF Restart, storeVars, history, Stored
<1>11. CASE UNCHANGED vars
  BY <1>1, <1>11 DEF vars, lifeVars, storeVars, history
<1> QED
  BY <1>2, <1>3, <1>4, <1>5, <1>6, <1>7, <1>8, <1>9, <1>10, <1>11
  DEF Next, Talks, PairingStep, AddStep, OptionsStep, LifeStep

\* The update listener is there from the first step of a setup on.
LEMMA ListensStep == TypeOK /\ Addressed /\ Listens /\ [Next]_vars => Listens'
<1> SUFFICES ASSUME TypeOK, Addressed, Listens, [Next]_vars PROVE Listens'
  OBVIOUS
<1>1. ASSUME UNCHANGED <<state, listens>> PROVE Listens'
  BY <1>1 DEF Listens
<1>2. ASSUME NEW f \in Flows, Talks(f) PROVE Listens'
  BY <1>1, <1>2, TalkLemma DEF lifeVars
<1>3. ASSUME NEW h \in Hubs, MoveHub(h) \/ ResetHub(h) PROVE Listens'
  BY <1>1, <1>3 DEF MoveHub, ResetHub, lifeVars
<1>4. ASSUME NEW f \in Flows, CreateEntry(f) PROVE Listens'
  <2>1. PICK e \in Entries, ip \in Addresses, token \in Hubs, matter \in Settings :
          Created(f, e, ip, token, matter)
    BY <1>4, CreateEffect
  <2> QED
    BY <2>1 DEF Created, Listens, TypeOK
<1>5. ASSUME NEW f \in Flows, SaveOptions(f) PROVE Listens'
  BY <1>1, <1>5 DEF SaveOptions
<1>6. ASSUME NEW e \in Entries, LifeStep(e) PROVE Listens'
  BY <1>6 DEF LifeStep, BeginSetup, SetupDone, SetupFails, BeginReload, Unloaded, UnloadFails,
              Remove, Unborn, Listens, TypeOK
<1>7. CASE Restart \/ UNCHANGED vars
  BY <1>7 DEF Restart, vars, lifeVars, Listens
<1> QED
  BY <1>2, <1>3, <1>4, <1>5, <1>6, <1>7 DEF Next, Talks, PairingStep, AddStep, OptionsStep

\* A setup begins with what is stored, and from then on every change is heard of.
LEMMA RunsStep ==
  TypeOK /\ Addressed /\ Listens /\ RunsWhatIsStored /\ [Next]_vars => RunsWhatIsStored'
<1> SUFFICES ASSUME TypeOK, Addressed, Listens, RunsWhatIsStored, [Next]_vars
             PROVE  RunsWhatIsStored'
  OBVIOUS
<1>1. ASSUME UNCHANGED <<entry, state, running, reloads>> PROVE RunsWhatIsStored'
  BY <1>1 DEF RunsWhatIsStored, Stored
<1>2. ASSUME NEW f \in Flows, Talks(f) PROVE RunsWhatIsStored'
  BY <1>1, <1>2, TalkLemma DEF lifeVars, storeVars
<1>3. ASSUME NEW h \in Hubs, MoveHub(h) PROVE RunsWhatIsStored'
  BY <1>1, <1>3 DEF MoveHub, lifeVars
<1>4. ASSUME NEW h \in Hubs, ResetHub(h) PROVE RunsWhatIsStored'
  <2>1. UNCHANGED <<state, reloads>> /\ Stored' \subseteq Stored
    BY <1>4, ResetEffect DEF ResetHub, Stored
  <2>2. \A e \in Stored : /\ e \in Entries
                         /\ entry'[e].ip = entry[e].ip /\ entry'[e].matter = entry[e].matter
    BY <1>4, ResetEffect, StoredIsData
  <2>3. \A e \in Entries : running'[e].ip = running[e].ip /\ running'[e].matter = running[e].matter
    BY <1>4, ResetEffect
  <2> QED
    BY <2>1, <2>2, <2>3 DEF RunsWhatIsStored
<1>5. ASSUME NEW f \in Flows, CreateEntry(f) PROVE RunsWhatIsStored'
  <2>1. PICK e \in Entries, ip \in Addresses, token \in Hubs, matter \in Settings :
          Created(f, e, ip, token, matter)
    BY <1>5, CreateEffect
  <2>2. state'[e] = "none" /\ \A g \in Stored' \ {e} :
          /\ g \in Stored /\ entry'[g] = entry[g] /\ state'[g] = state[g]
          /\ running'[g] = running[g] /\ reloads'[g] = reloads[g]
    BY <2>1 DEF Created, Stored, TypeOK
  <2> QED
    BY <2>2 DEF RunsWhatIsStored
<1>6. ASSUME NEW f \in Flows, SaveOptions(f) PROVE RunsWhatIsStored'
  <2>1. PICK e \in Stored, ip \in Addresses, token \in Hubs, matter \in Settings :
          Store(e, ip, token, matter) /\ UNCHANGED <<state, running, listens>>
    BY <1>6, SaveEffect
  <2> DEFINE new == [ip |-> ip, token |-> token, matter |-> matter]
  <2>2. e \in Entries /\ entry[e] \in Data /\ reloads[e] \in Nat
    BY StoredIsData, ValuesAssumption DEF TypeOK
  <2>3. /\ entry'[e].ip = ip /\ entry'[e].matter = matter
        /\ \A g \in Entries \ {e} : entry'[g] = entry[g] /\ reloads'[g] = reloads[g]
    BY <2>1, <2>2 DEF Store, TypeOK, Data
  <2>4. ASSUME state[e] \in {"setup", "loaded"}, Saved(entry[e]) # new PROVE reloads'[e] > 0
    <3>1. PICK n \in 1 .. 2 : n = Calls(e, new)
      BY <2>4, CallsLemma
    <3>2. reloads' = [reloads EXCEPT ![e] = @ + Calls(e, new)]
      BY <2>1, <2>2, <2>4 DEF Store, Listens
    <3> HIDE DEF new
    <3> QED
      BY <2>2, <3>1, <3>2 DEF TypeOK
  <2>5. ASSUME Saved(entry[e]) = new PROVE entry[e].ip = ip /\ entry[e].matter = matter
    BY <2>5 DEF Saved
  <2>6. reloads[e] > 0 => reloads'[e] > 0
    <3>1. reloads' = reloads \/ reloads' = [reloads EXCEPT ![e] = @ + Calls(e, new)]
      BY <2>1 DEF Store
    <3>2. PICK n \in 0 .. 2 : n = Calls(e, new)
      BY CallsLemma
    <3> HIDE DEF new
    <3> QED
      BY <2>2, <3>1, <3>2 DEF TypeOK
  <2> HIDE DEF new
  <2> QED
    BY <2>1, <2>2, <2>3, <2>4, <2>5, <2>6 DEF RunsWhatIsStored, Stored
<1>7. ASSUME NEW e \in Entries, BeginSetup(e) PROVE RunsWhatIsStored'
  <2>1. entry[e] \in Data /\ e \in Stored
    BY <1>7, StoredIsData DEF BeginSetup
  <2>2. /\ entry'[e].ip = entry[e].ip /\ entry'[e].matter = entry[e].matter
        /\ running'[e].ip = entry[e].ip /\ running'[e].matter = entry[e].matter
    BY <1>7, <2>1 DEF BeginSetup, TypeOK, Data, Saved
  <2>3. \A g \in Entries \ {e} : /\ entry'[g] = entry[g] /\ state'[g] = state[g]
                                /\ running'[g] = running[g] /\ reloads'[g] = reloads[g]
    BY <1>7 DEF BeginSetup, TypeOK
  <2> QED
    BY <2>2, <2>3 DEF RunsWhatIsStored, Stored
<1>8. ASSUME NEW e \in Entries,
             SetupDone(e) \/ SetupFails(e) \/ BeginReload(e) \/ Unloaded(e) \/ UnloadFails(e)
                \/ Remove(e)
      PROVE  RunsWhatIsStored'
  <2>1. \A g \in Entries \ {e} : /\ entry'[g] = entry[g] /\ state'[g] = state[g]
                                /\ running'[g] = running[g] /\ reloads'[g] = reloads[g]
    BY <1>8 DEF SetupDone, SetupFails, BeginReload, Unloaded, UnloadFails, Remove, Unborn,
                storeVars, TypeOK
  <2>2. CASE SetupDone(e)
    BY <2>1, <2>2 DEF SetupDone, storeVars, RunsWhatIsStored, Stored, TypeOK
  <2>3. CASE ~SetupDone(e)
    <3>1. state'[e] \notin {"setup", "loaded"}
      BY <1>8, <2>3 DEF SetupFails, BeginReload, Unloaded, UnloadFails, Remove, Unborn, TypeOK
    <3> QED
      BY <2>1, <3>1 DEF RunsWhatIsStored, Stored
  <2> QED
    BY <2>2, <2>3
<1>9. CASE Restart \/ UNCHANGED vars
  BY <1>1, <1>9 DEF Restart, vars, lifeVars, storeVars, RunsWhatIsStored, Stored
<1> QED
  BY <1>2, <1>3, <1>4, <1>5, <1>6, <1>7, <1>8, <1>9
  DEF Next, Talks, PairingStep, AddStep, OptionsStep, LifeStep

-----------------------------------------------------------------------------

LEMMA InitHolds == Init => IInv
<1> SUFFICES ASSUME Init PROVE IInv
  OBVIOUS
<1>1. PICK legacy \in {{}} \cup {{e} : e \in Entries}, h \in {g \in Hubs : at[g] # None} :
        /\ entry = [e \in Entries |->
             IF e \in legacy THEN [ip |-> at[h], token |-> h, matter |-> Defaults, uid |-> None] ELSE None]
        /\ asked = [e \in Entries |->
             IF e \in legacy THEN [ip |-> at[h], matter |-> Defaults] ELSE None]
  BY DEF Init
<1>2. h \in Hubs /\ at[h] \in Addresses
  BY <1>1 DEF Init
<1>3. [ip |-> at[h], token |-> h, matter |-> Defaults, uid |-> None] \in Data
  BY <1>2 DEF Data, Tokens, Settings, Defaults
<1>4. \A e \in Stored : e \in legacy /\ entry[e] = [ip |-> at[h], token |-> h, matter |-> Defaults, uid |-> None]
  BY <1>1 DEF Stored
<1>5. NoFlow \in Flow /\ NoFlow.at = "none"
  BY DEF NoFlow, Flow, Defaults, Settings
<1>6. TypeOK
  <2>1. entry \in [Entries -> Data \cup {None}]
    BY <1>1, <1>3
  <2>2. asked \in [Entries -> [ip : Addresses, matter : Settings] \cup {None}]
    BY <1>1, <1>2 DEF Settings, Defaults
  <2>3. saves \in 0 .. MaxSaves /\ upsets \in 0 .. MaxUpsets /\ reloads \in [Entries -> 0 .. 2 * MaxSaves]
    BY ValuesAssumption DEF Init
  <2> QED
    BY <1>5, <2>1, <2>2, <2>3 DEF Init, TypeOK
<1>7. Counted /\ Addressed /\ Listens /\ RunsWhatIsStored
  BY <1>5 DEF Init, Counted, Addressed, Requests, Listens, RunsWhatIsStored, Stored
<1>8. TokenFitsAddress
  BY <1>2, <1>4 DEF TokenFitsAddress, Works
<1>9. AddedOnce
  BY <1>4 DEF AddedOnce
<1>10. Named /\ AskedIsStored
  BY <1>1, <1>4 DEF Named, AskedIsStored, Init, Stored
<1> QED
  BY <1>6, <1>7, <1>8, <1>9, <1>10 DEF IInv

LEMMA InvHolds == Spec => []IInv
<1>1. IInv /\ [Next]_vars => IInv'
  BY TypeStep, TokenStep, NamesStep, ListensStep, RunsStep DEF IInv
<1> QED
  BY <1>1, InitHolds, PTL DEF Spec

\* Entries, setups and dialogs keep their types, and no entry has more reloads to come than
\* two for each save.
THEOREM TypeCorrect == Spec => []TypeOK
BY InvHolds, PTL DEF IInv

\* Address and token of an entry belong to one hub (_store, async_step_action).
THEOREM TokenFits == Spec => []TokenFitsAddress
BY InvHolds, PTL DEF IInv

\* No address is added twice (async_step_user, async_setup_entry).
THEOREM NoAddressTwice == Spec => []AddedOnce
BY InvHolds, PTL DEF IInv

\* What was saved is what runs, or a reload is to come (options_update_listener).
THEOREM SavedIsRun == Spec => []SavedTakesEffect
<1>1. IInv => SavedTakesEffect
  BY DEF IInv, SavedTakesEffect, RunsWhatIsStored, AskedIsStored
<1> QED
  BY <1>1, InvHolds, PTL
=============================================================================
