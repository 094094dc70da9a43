---------------------------- MODULE ConfigEntries ----------------------------
(***************************************************************************)
(* Config entries and the dialogs that make and change them                *)
(* (config_flow.py), with as much of an entry's life (__init__.py) as      *)
(* decides which data a running setup works with.  A dialog sends requests *)
(* to the hub and waits for them; meanwhile other dialogs, setups, reloads *)
(* and the hub itself go on.  The five settings of a dialog are one value: *)
(* whether Matter devices are left out stands for all of them.             *)
(***************************************************************************)
EXTENDS Naturals

CONSTANTS
  Hubs, Addresses, Entries,
  Flows,      \* dialogs that can be open at once
  Void,       \* a token the hub no longer accepts
  None,
  MaxSaves,   \* bound: dialogs that end with an entry written
  MaxUpsets   \* bound: times a hub moves to another address or is reset

ASSUME ValuesAssumption ==
  /\ None \notin Addresses \cup Hubs \cup Entries /\ Void \notin Hubs \cup {None}
  /\ MaxSaves \in Nat /\ MaxUpsets \in Nat

VARIABLES
  at,        \* the address each hub has
  entry,     \* the stored entries: ip, token, settings, unique_id
  opted,     \* entries with entry.options: a copy of the data since the first save
  state,     \* Home Assistant's state of each entry; "none" waits for its setup, or a retry
  running,   \* the data the present setup works with
  listens,   \* options_update_listener is registered
  reloads,   \* calls of it that have not begun to reload
  flow,      \* the dialogs
  saves, upsets,
  asked,     \* history: address and settings of the last dialog that was saved
  moved,     \* history: entries whose address was changed by a dialog
  slipped,   \* history: entries added before the first setup of an older one
  stale      \* history: entries whose hub moved or was reset since they were saved

history == <<asked, moved, slipped, stale>>
lifeVars == <<state, running, listens, reloads>>
storeVars == <<entry, opted, saves, history>>
vars == <<at, flow, upsets, lifeVars, storeVars>>

\* A token is known by the hub that made it.
Tokens == Hubs \cup {Void}
Settings == BOOLEAN
Defaults == FALSE
Data == [ip : Addresses, token : Tokens, matter : Settings, uid : Addresses \cup {None}]
Saved(d) == [ip |-> d.ip, token |-> d.token, matter |-> d.matter]
SavedData == [ip : Addresses, token : Tokens, matter : Settings]

NoFlow == [at |-> "none", of |-> None, ip |-> None, matter |-> Defaults, code |-> None,
           token |-> None]
Forms == {"form", "action", "retry", "dead"}
Requests == {"check", "challenge", "token"}
Flow == [at : {"none"} \cup Forms \cup Requests, of : Entries \cup {None},
         ip : Addresses \cup {None}, matter : Settings, code : Hubs \cup {None},
         token : Tokens \cup {None}]

TypeOK ==
  /\ at \in [Hubs -> Addresses \cup {None}]
  /\ entry \in [Entries -> Data \cup {None}]
  /\ opted \subseteq Entries
  /\ state \in [Entries -> {"none", "setup", "loaded", "error", "unloading", "failed"}]
  /\ running \in [Entries -> SavedData \cup {None}]
  /\ listens \in [Entries -> BOOLEAN] /\ reloads \in [Entries -> 0 .. 2 * MaxSaves]
  /\ flow \in [Flows -> Flow]
  /\ saves \in 0 .. MaxSaves /\ upsets \in 0 .. MaxUpsets
  /\ asked \in [Entries -> [ip : Addresses, matter : Settings] \cup {None}]
  /\ moved \subseteq Entries /\ slipped \subseteq Entries /\ stale \subseteq Entries

Stored == {e \in Entries : entry[e] # None}

\* No entry, or one from before the duplicate guard, without a unique_id.
Init ==
  /\ at \in [Hubs -> Addresses \cup {None}]
  /\ \A g, h \in Hubs : at[g] = at[h] /\ at[g] # None => g = h
  /\ \E legacy \in {{}} \cup {{e} : e \in Entries} :
       \E h \in {g \in Hubs : at[g] # None} :
         LET old == [ip |-> at[h], token |-> h, matter |-> Defaults, uid |-> None] IN
         /\ entry = [e \in Entries |-> IF e \in legacy THEN old ELSE None]
         /\ asked = [e \in Entries |-> IF e \in legacy
                                       THEN [ip |-> at[h], matter |-> Defaults] ELSE None]
  /\ opted = {}
  /\ state = [e \in Entries |-> "none"] /\ running = [e \in Entries |-> None]
  /\ listens = [e \in Entries |-> FALSE] /\ reloads = [e \in Entries |-> 0]
  /\ flow = [f \in Flows |-> NoFlow]
  /\ saves = 0 /\ upsets = 0
  /\ moved = {} /\ slipped = {} /\ stale = {}

\* The hub at the address accepts the token.
Works(ip, token) == token \in Hubs /\ at[token] = ip

-----------------------------------------------------------------------------
(* The hubs.                                                               *)

Upset(h) == upsets < MaxUpsets /\ upsets' = upsets + 1
            /\ stale' = stale \cup {e \in Stored : entry[e].token = h}
            /\ UNCHANGED <<asked, moved, slipped, saves>>

\* A hub gets another address, or none.
MoveHub(h) ==
  /\ Upset(h)
  /\ \E a \in (Addresses \cup {None}) \ {at[h]} :
       /\ a # None => \A g \in Hubs : at[g] # a
       /\ at' = [at EXCEPT ![h] = a]
  /\ UNCHANGED <<entry, opted, lifeVars, flow>>

\* A hub forgets whom it is paired with: its tokens are void, wherever they are kept.
ResetHub(h) ==
  LET Voided(r) == IF r # None /\ r.token = h THEN [r EXCEPT !.token = Void] ELSE r IN
  /\ Upset(h)
  /\ entry' = [e \in Entries |-> Voided(entry[e])]
  /\ running' = [e \in Entries |-> Voided(running[e])]
  /\ flow' = [f \in Flows |-> Voided(flow[f])]
  /\ UNCHANGED <<at, opted, state, listens, reloads>>

-----------------------------------------------------------------------------
(* Both dialogs.                                                           *)

Set(f, r) == flow' = [flow EXCEPT ![f] = r]
Goto(f, label) == Set(f, [flow[f] EXCEPT !.at = label])
\* A form is shown.  What the dialog still holds will be replaced when the first form is
\* submitted, except for the unique_id of an add dialog, its address.
Show(f, form) ==
  Set(f, [NoFlow EXCEPT !.at = form, !.of = flow[f].of,
                        !.ip = IF flow[f].of = None THEN flow[f].ip ELSE None])
IsAdd(f) == flow[f].at # "none" /\ flow[f].of = None
IsOptions(f) == flow[f].at # "none" /\ flow[f].of # None

\* The user closes a dialog that shows a form.
Cancel(f) ==
  /\ flow[f].at \in Forms
  /\ Set(f, NoFlow)
  /\ UNCHANGED <<at, upsets, lifeVars, storeVars>>

\* get_dirigera_token_step_one is answered: press the button, then submit the next form.
Challenged(f) ==
  /\ flow[f].at = "challenge"
  /\ \E h \in Hubs : /\ at[h] = flow[f].ip
                     /\ Set(f, [flow[f] EXCEPT !.at = "action", !.code = h])
  /\ UNCHANGED <<at, upsets, lifeVars, storeVars>>

\* ... or not: the first form again, with an error.
ChallengeFails(f) ==
  /\ flow[f].at = "challenge"
  /\ Show(f, "form")
  /\ UNCHANGED <<at, upsets, lifeVars, storeVars>>

\* async_step_action asks for the token.
SubmitAction(f) ==
  /\ flow[f].at = "action"
  /\ Goto(f, "token")
  /\ UNCHANGED <<at, upsets, lifeVars, storeVars>>

\* get_dirigera_token_step_two fails: a form without fields.  Submitting it shows the
\* first form of the add dialog; in the options dialog the step finds no address in its
\* input and raises, whenever it is submitted.
TokenFails(f) ==
  /\ flow[f].at = "token"
  /\ Show(f, IF IsAdd(f) THEN "retry" ELSE "dead")
  /\ UNCHANGED <<at, upsets, lifeVars, storeVars>>

\* get_dirigera_token_step_two mints a token, for the hub that was challenged only.
Minted(f) == flow[f].at = "token" /\ Works(flow[f].ip, flow[f].code)

-----------------------------------------------------------------------------
(* The add dialog: dirigera_platform_config_flow.                          *)

OpenAdd(f) ==
  /\ flow[f] = NoFlow
  /\ Show(f, "form")
  /\ UNCHANGED <<at, upsets, lifeVars, storeVars>>

\* async_step_user, with an address (a blank one only shows the form again).  The address
\* is the unique_id: another dialog for it or an entry that has it ends this one.
SubmitUser(f, ip, matter) ==
  /\ IsAdd(f) /\ flow[f].at = "form"
  /\ IF \/ \E g \in Flows \ {f} : IsAdd(g) /\ flow[g].ip = ip
        \/ \E e \in Stored : entry[e].uid = ip
     THEN Set(f, NoFlow)
     ELSE Set(f, [flow[f] EXCEPT !.at = "challenge", !.ip = ip, !.matter = matter])
  /\ UNCHANGED <<at, upsets, lifeVars, storeVars>>

\* async_step_user without an address, from the form of a failed pairing.
SubmitRetry(f) ==
  /\ flow[f].at = "retry"
  /\ Show(f, "form")
  /\ UNCHANGED <<at, upsets, lifeVars, storeVars>>

\* Mutant of NewData: the dialog's other token.
NewDataUnminted(f) ==
  [ip |-> flow[f].ip, token |-> flow[f].token, matter |-> flow[f].matter, uid |-> flow[f].ip]

\* What the dialog has gathered, with the token just minted.
NewData(f) ==
  [ip |-> flow[f].ip, token |-> flow[f].code, matter |-> flow[f].matter, uid |-> flow[f].ip]

\* async_step_action creates the entry.  Home Assistant first removes an entry that has
\* come to the same unique_id meanwhile.
CreateEntry(f) ==
  /\ IsAdd(f) /\ Minted(f) /\ saves < MaxSaves
  /\ LET ip == flow[f].ip
         gone == {e \in Stored : entry[e].uid = ip}
     IN \E e \in Entries \ (Stored \ gone) :
          /\ gone # {} => e \in gone
          /\ entry' = [g \in Entries |-> IF g = e THEN NewData(f)
                                         ELSE IF g \in gone THEN None ELSE entry[g]]
          /\ opted' = opted \ {e}
          /\ state' = [state EXCEPT ![e] = "none"] /\ running' = [running EXCEPT ![e] = None]
          /\ listens' = [listens EXCEPT ![e] = FALSE] /\ reloads' = [reloads EXCEPT ![e] = 0]
          /\ asked' = [asked EXCEPT ![e] = [ip |-> ip, matter |-> flow[f].matter]]
          /\ slipped' = IF \E g \in Stored \ gone :
                               entry[g].ip = ip /\ entry[g].uid = None /\ state[g] = "none"
                        THEN slipped \cup {e} ELSE slipped \ {e}
          /\ moved' = moved \ {e} /\ stale' = stale \ {e}
  /\ Set(f, NoFlow) /\ saves' = saves + 1
  /\ UNCHANGED <<at, upsets>>

-----------------------------------------------------------------------------
(* The options dialog: OptionsFlowHandler.                                 *)

OpenOptions(f, e) ==
  /\ flow[f] = NoFlow /\ e \in Stored
  /\ Set(f, [NoFlow EXCEPT !.at = "form", !.of = e])
  /\ UNCHANGED <<at, upsets, lifeVars, storeVars>>

\* async_step_init: with the stored address the stored token is tried first, else the hub
\* is paired again.
SubmitInit(f, ip, matter) ==
  /\ IsOptions(f) /\ flow[f].at = "form"
  /\ LET e == flow[f].of
         r == [flow[f] EXCEPT !.ip = ip, !.matter = matter] IN
     IF e \in Stored /\ entry[e].ip = ip
     THEN Set(f, [r EXCEPT !.at = "check", !.token = entry[e].token])
     ELSE Set(f, [r EXCEPT !.at = "challenge"])
  /\ UNCHANGED <<at, upsets, lifeVars, storeVars>>

\* token_still_works is False, for whatever reason: pair.
CheckFails(f) ==
  /\ flow[f].at = "check"
  /\ Set(f, [flow[f] EXCEPT !.at = "challenge", !.token = None])
  /\ UNCHANGED <<at, upsets, lifeVars, storeVars>>

\* async_update_entry with the new data, and async_create_entry, which writes the same to
\* entry.options: each of the two calls the update listener if it changes something.
Calls(e, new) ==
  LET changed == IF Saved(entry[e]) # new THEN 1 ELSE 0
  IN changed + IF e \in opted THEN changed ELSE 1

\* Mutant of Store: what _store did before issue #61.
StoreDropsMatter(e, ip, token, matter) ==
  LET new == [ip |-> ip, token |-> token, matter |-> Defaults]
  IN /\ entry' = [entry EXCEPT ![e] = [@ EXCEPT !.ip = ip, !.token = token, !.matter = Defaults]]
     /\ opted' = opted \cup {e}
     /\ reloads' = IF listens[e] THEN [reloads EXCEPT ![e] = @ + Calls(e, new)] ELSE reloads
     /\ asked' = [asked EXCEPT ![e] = [ip |-> ip, matter |-> matter]]
     /\ moved' = IF entry[e].ip # ip THEN moved \cup {e} ELSE moved
     /\ stale' = stale \ {e}

\* All fields are replaced; the unique_id stays what it was.
Store(e, ip, token, matter) ==
  LET new == [ip |-> ip, token |-> token, matter |-> matter]
  IN /\ entry' = [entry EXCEPT ![e] = [@ EXCEPT !.ip = ip, !.token = token, !.matter = matter]]
     /\ opted' = opted \cup {e}
     /\ reloads' = IF listens[e] THEN [reloads EXCEPT ![e] = @ + Calls(e, new)] ELSE reloads
     /\ asked' = [asked EXCEPT ![e] = [ip |-> ip, matter |-> matter]]
     /\ moved' = IF entry[e].ip # ip THEN moved \cup {e} ELSE moved
     /\ stale' = stale \ {e}

\* Mutant of SaveOptions: the stored token is not tried.
SaveOptionsUntried(f) ==
  /\ IsOptions(f) /\ saves < MaxSaves
  /\ LET r == flow[f]
         token == IF r.at = "check" THEN r.token ELSE r.code IN
     /\ Minted(f) \/ r.at = "check"
     /\ r.of \in Stored
     /\ Store(r.of, r.ip, token, r.matter)
  /\ Set(f, NoFlow) /\ saves' = saves + 1
  /\ UNCHANGED <<at, upsets, state, running, listens, slipped>>

\* The stored token works, or a new one is minted: the entry is updated.
SaveOptions(f) ==
  /\ IsOptions(f) /\ saves < MaxSaves
  /\ LET r == flow[f]
         token == IF r.at = "check" THEN r.token ELSE r.code IN
     /\ Minted(f) \/ (r.at = "check" /\ Works(r.ip, r.token))
     /\ r.of \in Stored
     /\ Store(r.of, r.ip, token, r.matter)
  /\ Set(f, NoFlow) /\ saves' = saves + 1
  /\ UNCHANGED <<at, upsets, state, running, listens, slipped>>

\* ... which raises if the entry was removed: a form again, with an error.
SaveFails(f) ==
  /\ IsOptions(f) /\ flow[f].at \in {"check", "token"} /\ flow[f].of \notin Stored
  /\ Show(f, IF flow[f].at = "check" THEN "form" ELSE "dead")
  /\ UNCHANGED <<at, upsets, lifeVars, storeVars>>

-----------------------------------------------------------------------------
(* The life of an entry.                                                   *)

\* Mutant of BeginSetup: an old entry is not given a unique_id.
BeginSetupUnnamed(e) ==
  /\ e \in Stored /\ state[e] = "none"
  /\ state' = [state EXCEPT ![e] = "setup"]
  /\ running' = [running EXCEPT ![e] = Saved(entry[e])]
  /\ listens' = [listens EXCEPT ![e] = TRUE]
  /\ UNCHANGED <<at, upsets, entry, opted, saves, history, reloads, flow>>

\* async_setup_entry takes its copy of the data, gives an old entry its unique_id and
\* registers the update listener.  A setup that failed for want of the hub is retried.
BeginSetup(e) ==
  /\ e \in Stored /\ state[e] = "none"
  /\ state' = [state EXCEPT ![e] = "setup"]
  /\ running' = [running EXCEPT ![e] = Saved(entry[e])]
  /\ entry' = IF entry[e].uid = None THEN [entry EXCEPT ![e].uid = entry[e].ip] ELSE entry
  /\ listens' = [listens EXCEPT ![e] = TRUE]
  /\ UNCHANGED <<at, upsets, opted, saves, history, reloads, flow>>

SetupDone(e) ==
  /\ state[e] = "setup" /\ Works(running[e].ip, running[e].token)
  /\ state' = [state EXCEPT ![e] = "loaded"]
  /\ UNCHANGED <<at, upsets, flow, running, listens, reloads, storeVars>>

\* ConfigEntryNotReady, to be retried, or another exception, which nobody retries.
SetupFails(e) ==
  /\ state[e] = "setup"
  /\ \E s \in {"none", "error"} : state' = [state EXCEPT ![e] = s]
  /\ running' = [running EXCEPT ![e] = None] /\ listens' = [listens EXCEPT ![e] = FALSE]
  /\ UNCHANGED <<at, upsets, flow, reloads, storeVars>>

\* options_update_listener reloads: a loaded entry is unloaded, one whose setup failed is
\* set up, and after a failed unload nothing is done.
BeginReload(e) ==
  /\ e \in Stored /\ reloads[e] > 0 /\ state[e] \notin {"setup", "unloading"}
  /\ reloads' = [reloads EXCEPT ![e] = @ - 1]
  /\ state' = [state EXCEPT ![e] = CASE @ = "loaded" -> "unloading"
                                     [] @ = "failed" -> "failed"
                                     [] OTHER -> "none"]
  /\ UNCHANGED <<at, upsets, flow, running, listens, storeVars>>

\* async_unload_entry: the hub of the data stored now deletes its empty scenes, ...
Unloaded(e) ==
  /\ state[e] = "unloading" /\ Works(entry[e].ip, entry[e].token)
  /\ state' = [state EXCEPT ![e] = "none"]
  /\ running' = [running EXCEPT ![e] = None] /\ listens' = [listens EXCEPT ![e] = FALSE]
  /\ UNCHANGED <<at, upsets, flow, reloads, storeVars>>

\* ... and if that fails, the unload has failed for good.
UnloadFails(e) ==
  /\ state[e] = "unloading"
  /\ state' = [state EXCEPT ![e] = "failed"]
  /\ UNCHANGED <<at, upsets, flow, running, listens, reloads, storeVars>>

Unborn(e) ==
  /\ state' = [state EXCEPT ![e] = "none"] /\ running' = [running EXCEPT ![e] = None]
  /\ listens' = [listens EXCEPT ![e] = FALSE] /\ reloads' = [reloads EXCEPT ![e] = 0]

\* The user deletes the entry.
Remove(e) ==
  /\ e \in Stored /\ state[e] \notin {"setup", "unloading"}
  /\ entry' = [entry EXCEPT ![e] = None] /\ opted' = opted \ {e}
  /\ Unborn(e)
  /\ asked' = [asked EXCEPT ![e] = None]
  /\ moved' = moved \ {e} /\ slipped' = slipped \ {e} /\ stale' = stale \ {e}
  /\ UNCHANGED <<at, upsets, saves, flow>>

\* Home Assistant restarts: entries are stored, dialogs are not.
Restart ==
  /\ flow' = [f \in Flows |-> NoFlow]
  /\ state' = [e \in Entries |-> "none"] /\ running' = [e \in Entries |-> None]
  /\ listens' = [e \in Entries |-> FALSE] /\ reloads' = [e \in Entries |-> 0]
  /\ UNCHANGED <<at, upsets, storeVars>>

-----------------------------------------------------------------------------

AddStep(f) ==
  \/ OpenAdd(f) \/ SubmitRetry(f) \/ CreateEntry(f)
  \/ \E ip \in Addresses, matter \in Settings : SubmitUser(f, ip, matter)
OptionsStep(f) ==
  \/ \E e \in Entries : OpenOptions(f, e)
  \/ \E ip \in Addresses, matter \in Settings : SubmitInit(f, ip, matter)
  \/ CheckFails(f) \/ SaveOptions(f) \/ SaveFails(f)
PairingStep(f) == Challenged(f) \/ ChallengeFails(f) \/ SubmitAction(f) \/ TokenFails(f)
LifeStep(e) ==
  \/ BeginSetup(e) \/ SetupDone(e) \/ SetupFails(e)
  \/ BeginReload(e) \/ Unloaded(e) \/ UnloadFails(e) \/ Remove(e)
Next ==
  \/ \E h \in Hubs : MoveHub(h) \/ ResetHub(h)
  \/ \E f \in Flows : Cancel(f) \/ PairingStep(f) \/ AddStep(f) \/ OptionsStep(f)
  \/ \E e \in Entries : LifeStep(e)
  \/ Restart

Spec == Init /\ [][Next]_vars

-----------------------------------------------------------------------------
(* Properties.                                                             *)

\* The address and the token of an entry belong together: the one authenticates at the
\* other, or the hub was moved or reset after they were saved.  However often a dialog
\* goes back, and whatever other dialogs do meanwhile, no entry pairs the address of one
\* submission with the token of another (_store, async_step_action).
TokenFitsAddress ==
  \A e \in Stored : Works(entry[e].ip, entry[e].token) \/ e \in stale

\* No address is added twice (issue #39), by overlapping dialogs or next to an entry from
\* before the guard once that was set up.  What the options dialog does to an address is
\* another matter.
AddedOnce ==
  \A e, f \in Stored :
    e # f /\ entry[e].ip = entry[f].ip => {e, f} \cap (moved \cup slipped) # {}

\* What the last dialog asked for is what a loaded entry works with, or a reload is still
\* to come, also when the dialog was saved during a setup or an unload, and on both ways
\* of saving, with and without pairing (options_update_listener, issue #61).
SavedTakesEffect ==
  \A e \in Stored :
    state[e] = "loaded" /\ [ip |-> running[e].ip, matter |-> running[e].matter] # asked[e]
      => reloads[e] > 0

\* "The integration now refuses to add the same hub a second time and back-fills existing
\* setups so a stray duplicate can't sneak in" (README.md).
HubAddedOnce ==
  \A e, f \in {g \in Stored \ slipped : entry[g].uid # None} :
    e # f => entry[e].token = Void \/ entry[e].token # entry[f].token

\* "Exactly once [...].  It used to be registered twice [...], so every options save
\* triggered two reloads" (comment in async_setup_entry): now a save triggers one.
OneReloadPerSave == [][\A e \in Entries : reloads'[e] <= reloads[e] + 1]_vars

\* "check IP & Token" (strings.json): after an error the user can correct what was entered.
ErrorsCanBeCorrected == \A f \in Flows : flow[f].at # "dead"
=============================================================================
