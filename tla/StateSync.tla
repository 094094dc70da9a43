------------------------------ MODULE StateSync ------------------------------
(***************************************************************************)
(* How the state of the hub's devices gets to Home Assistant               *)
(* (hub_event_listener.py): events over the WebSocket and, after every     *)
(* reconnect, a resync that fetches /devices and replays the answer.  The  *)
(* state of a device is the number of its changes so far.                  *)
(***************************************************************************)
EXTENDS Naturals, Sequences

CONSTANTS
  Devices,
  MaxChanges,  \* bound: changes of one device
  MaxOpens     \* bound: connections opened

ASSUME BoundsAssumption == MaxChanges \in Nat /\ MaxOpens \in Nat

VARIABLES
  hub,         \* the state of each device on the hub
  wire,        \* events sent on the connection and not handled yet
  connected,   \* the WebSocket is open
  opens,       \* connections opened so far: _has_opened is opens > 0
  at,          \* where the resync of each connection stands
  snap,        \* the /devices answer of each resync
  left,        \* the devices a resync has not replayed yet
  held,        \* the state the device object holds in Home Assistant
  early,       \* history: devices that changed before the first connection
  failed,      \* history: the resync of the latest reconnect got no answer
  newest       \* history: the newest state ever held

vars == <<hub, wire, connected, opens, at, snap, left, held, early, failed, newest>>

Opens == 1 .. MaxOpens
States == [Devices -> Nat]
Event == [dev : Devices, val : Nat]

TypeOK ==
  /\ hub \in States /\ held \in States /\ newest \in States
  /\ wire \in Seq(Event)
  /\ connected \in BOOLEAN /\ failed \in BOOLEAN
  /\ opens \in 0 .. MaxOpens
  /\ at \in [Opens -> {"none", "fetch", "answered", "replay", "done"}]
  /\ snap \in [Opens -> States]
  /\ left \in [Opens -> SUBSET Devices]
  /\ early \subseteq Devices

\* The objects of make_devices hold what the setup's fetch found.
Init ==
  /\ hub = [d \in Devices |-> 0] /\ held = hub /\ newest = hub
  /\ wire = <<>> /\ connected = FALSE /\ opens = 0
  /\ at = [n \in Opens |-> "none"]
  /\ snap = [n \in Opens |-> hub] /\ left = [n \in Opens |-> {}]
  /\ early = {} /\ failed = FALSE

-----------------------------------------------------------------------------
(* The hub and the connection.                                             *)

\* A device changes; only what happens during a connection is sent.
Change(d) ==
  /\ hub[d] < MaxChanges
  /\ hub' = [hub EXCEPT ![d] = @ + 1]
  /\ wire' = IF connected THEN Append(wire, [dev |-> d, val |-> hub[d] + 1]) ELSE wire
  /\ early' = IF opens = 0 THEN early \cup {d} ELSE early
  /\ UNCHANGED <<connected, opens, at, snap, left, held, failed, newest>>

\* The connection breaks and takes the events on it along.
Drop ==
  /\ connected /\ connected' = FALSE
  /\ wire' = <<>>
  /\ UNCHANGED <<hub, opens, at, snap, left, held, early, failed, newest>>

-----------------------------------------------------------------------------
(* The listener.                                                           *)

\* Mutant of Open: the resync is scheduled on the second reconnect and later.
OpenLate ==
  /\ ~connected /\ opens < MaxOpens
  /\ connected' = TRUE /\ opens' = opens + 1
  /\ at' = IF opens > 1 THEN [at EXCEPT ![opens'] = "fetch"] ELSE at
  /\ early' = IF opens > 0 THEN {} ELSE early
  /\ failed' = FALSE
  /\ UNCHANGED <<hub, wire, snap, left, held, newest>>

\* _on_open: a resync is scheduled, except on the first connection.
Open ==
  /\ ~connected /\ opens < MaxOpens
  /\ connected' = TRUE /\ opens' = opens + 1
  /\ at' = IF opens > 0 THEN [at EXCEPT ![opens'] = "fetch"] ELSE at
  /\ early' = IF opens > 0 THEN {} ELSE early
  /\ failed' = FALSE
  /\ UNCHANGED <<hub, wire, snap, left, held, newest>>

\* on_message: whatever the message says is set on the object.
Apply(d, val) ==
  /\ held' = [held EXCEPT ![d] = val]
  /\ newest' = [newest EXCEPT ![d] = IF val > @ THEN val ELSE @]

\* An event, on the listener's thread.
Receive ==
  /\ wire # <<>>
  /\ wire' = Tail(wire)
  /\ Apply(Head(wire).dev, Head(wire).val)
  /\ UNCHANGED <<hub, connected, opens, at, snap, left, early, failed>>

-----------------------------------------------------------------------------
(* _resync_all_states, of connection n.                                    *)

\* The executor's request is answered.
Answer(n) ==
  /\ at[n] = "fetch"
  /\ at' = [at EXCEPT ![n] = "answered"] /\ snap' = [snap EXCEPT ![n] = hub]
  /\ UNCHANGED <<hub, wire, connected, opens, left, held, early, failed, newest>>

\* It fails, or the answer is empty: nothing is replayed, and nothing is retried.
FetchFails(n) ==
  /\ at[n] = "fetch"
  /\ at' = [at EXCEPT ![n] = "done"]
  /\ failed' = (failed \/ n = opens)
  /\ UNCHANGED <<hub, wire, connected, opens, snap, left, held, early, newest>>

\* Mutant of BeginReplay: some device is passed over.
BeginReplayPartly(n) ==
  /\ at[n] = "answered" /\ \A m \in Opens : at[m] # "replay"
  /\ at' = [at EXCEPT ![n] = "replay"]
  /\ \E d \in Devices : left' = [left EXCEPT ![n] = Devices \ {d}]
  /\ UNCHANGED <<hub, wire, connected, opens, snap, held, early, failed, newest>>

\* The answer reaches the event loop, which replays it without a pause: no other resync
\* comes between, but the listener's thread does.
BeginReplay(n) ==
  /\ at[n] = "answered" /\ \A m \in Opens : at[m] # "replay"
  /\ at' = [at EXCEPT ![n] = "replay"]
  /\ left' = [left EXCEPT ![n] = Devices]
  /\ UNCHANGED <<hub, wire, connected, opens, snap, held, early, failed, newest>>

Replay(n, d) ==
  /\ at[n] = "replay" /\ d \in left[n]
  /\ left' = [left EXCEPT ![n] = @ \ {d}]
  /\ Apply(d, snap[n][d])
  /\ UNCHANGED <<hub, wire, connected, opens, at, snap, early, failed>>

EndReplay(n) ==
  /\ at[n] = "replay" /\ left[n] = {}
  /\ at' = [at EXCEPT ![n] = "done"]
  /\ UNCHANGED <<hub, wire, connected, opens, snap, left, held, early, failed, newest>>

-----------------------------------------------------------------------------

Resync(n) ==
  Answer(n) \/ FetchFails(n) \/ BeginReplay(n) \/ EndReplay(n) \/ \E d \in Devices : Replay(n, d)
Next ==
  \/ \E d \in Devices : Change(d)
  \/ Drop \/ Open \/ Receive
  \/ \E n \in Opens : Resync(n)

Spec == Init /\ [][Next]_vars

\* The listener's thread reconnects and handles what arrives; a scheduled resync runs.
Fairness == WF_vars(Open) /\ WF_vars(Receive) /\ \A n \in Opens : WF_vars(Resync(n))

-----------------------------------------------------------------------------
(* Properties.                                                             *)

\* The latest state of d is on its way: an event, or the latest resync has yet to fetch
\* it or to replay it.
UnderWay(d) ==
  \/ \E i \in 1 .. Len(wire) : wire[i] = [dev |-> d, val |-> hub[d]]
  \/ \E n \in Opens :
       /\ n = opens
       /\ at[n] \in {"fetch", "answered"} \/ (at[n] = "replay" /\ d \in left[n])

\* Why d may nevertheless stay stale: it changed between the setup's fetch and the first
\* connection, the resync failed, or a replay put back an older state than Home Assistant
\* already had.
Excused(d) == d \in early \/ failed \/ held[d] < newest[d]

\* With a connection, no state is lost for any other reason, however events, drops,
\* reconnects and overlapping resyncs interleave (_on_open, _resync_all_states).
StaleIsExcused ==
  connected => \A d \in Devices : held[d] = hub[d] \/ UnderWay(d) \/ Excused(d)

\* "all device state is automatically re-synced on every reconnect, so entities never
\* silently go stale after the hub drops the connection" (README.md): not even when the
\* resync gets its answer.
NeverSilentlyStale ==
  connected /\ opens > 1 /\ ~failed =>
    \A d \in Devices : held[d] = hub[d] \/ UnderWay(d)
=============================================================================
