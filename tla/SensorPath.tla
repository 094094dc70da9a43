----------------------------- MODULE SensorPath -----------------------------
(***************************************************************************)
(* The whole way of a reading, from the hub to what Home Assistant shows:  *)
(* StateSync brings it to the device object, and a WriteBehind per device, *)
(* which is what PushThrottle implements, from there to Home Assistant.    *)
(***************************************************************************)
EXTENDS StateSync

VARIABLES
  shown,    \* what Home Assistant shows of each device
  client    \* its entity: not added yet, added, or given up (disabled)

pathVars == <<vars, shown, client>>

Path(d) == INSTANCE WriteBehind WITH Values <- Nat, value <- held[d], shown <- shown[d],
                                     client <- client[d], running <- TRUE

PathTypeOK ==
  /\ TypeOK
  /\ shown \in States /\ client \in [Devices -> {"unset", "set", "aborted"}]

PathInit ==
  /\ Init
  /\ shown = held /\ client = [d \in Devices |-> "unset"]

\* The platforms add their entities before the listener is started (async_setup_entry),
\* a discovered one is added later.
Attach(d) ==
  /\ client[d] = "unset"
  /\ client' = [client EXCEPT ![d] = "set"]
  /\ shown' = [shown EXCEPT ![d] = held[d]]
  /\ UNCHANGED vars

GiveUp(d) ==
  /\ client[d] = "set"
  /\ client' = [client EXCEPT ![d] = "aborted"]
  /\ UNCHANGED <<vars, shown>>

\* A push that was let through, or a flush: what the object holds at that moment.
Show(d) ==
  /\ client[d] = "set" /\ shown[d] # held[d]
  /\ shown' = [shown EXCEPT ![d] = held[d]]
  /\ UNCHANGED <<vars, client>>

PathNext ==
  \/ Next /\ UNCHANGED <<shown, client>>
  \/ \E d \in Devices : Attach(d) \/ GiveUp(d) \/ Show(d)

PathSpec == PathInit /\ [][PathNext]_pathVars

\* The throttle's promise is what makes Show fair.
PathFairSpec == PathSpec /\ Fairness /\ \A d \in Devices : WF_pathVars(Show(d))

-----------------------------------------------------------------------------
\* What is shown catches up with the hub for good, through every drop, reconnect, resync
\* and throttled push, or the excuse StateSync names is still good.
ShownCatchesUp ==
  \A d \in Devices :
    <>[](connected /\ client[d] = "set" => shown[d] = hub[d] \/ Excused(d))
=============================================================================
