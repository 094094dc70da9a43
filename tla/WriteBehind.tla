----------------------------- MODULE WriteBehind -----------------------------
(***************************************************************************)
(* What the push throttle promises, whatever its threads, flags and timers *)
(* do: Home Assistant shows one reading of a device, it only ever replaces *)
(* it by the reading the device has at that moment, and while the entity   *)
(* is shown a difference does not last.  Between the two a throttle may    *)
(* skip any number of readings.                                            *)
(***************************************************************************)
CONSTANT Values

VARIABLES
  value,    \* the device's reading
  shown,    \* what Home Assistant shows
  client,   \* the entity: not added yet, added, or given up
  running   \* the event loop is running

vars == <<value, shown, client, running>>

Init ==
  /\ value \in Values /\ shown = value
  /\ client = "unset" /\ running = TRUE

\* The device reports another reading.
Put ==
  /\ running
  /\ value' \in Values \ {value}
  /\ UNCHANGED <<shown, client, running>>

\* The entity is added and its state is written for the first time.
Open ==
  /\ client = "unset" /\ running
  /\ client' = "set" /\ shown' = value
  /\ UNCHANGED <<value, running>>

GiveUp ==
  /\ client = "set" /\ running
  /\ client' = "aborted"
  /\ UNCHANGED <<value, shown, running>>

Stop ==
  /\ running /\ running' = FALSE
  /\ UNCHANGED <<value, shown, client>>

\* A write: of the present reading, and only for an entity that is shown.
Show ==
  /\ client = "set" /\ running
  /\ shown # value /\ shown' = value
  /\ UNCHANGED <<value, client, running>>

Next == Put \/ Open \/ GiveUp \/ Stop \/ Show

SafeSpec == Init /\ [][Next]_vars
Spec == SafeSpec /\ WF_vars(Show)
=============================================================================
