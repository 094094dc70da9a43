---------------------------- MODULE ListenerThread ----------------------------
(***************************************************************************)
(* The threads of hub_event_listener.py: the listener's own loop around    *)
(* the blocking WebSocketApp.run_forever, the threading.Timer objects of   *)
(* the keepalive, each of which is a thread, and stop(), which runs in an  *)
(* executor thread.  They share _keepalive_timer, _wsapp, the stop flag    *)
(* and the stop event without a lock, so each access is a step.            *)
(***************************************************************************)
EXTENDS Naturals, FiniteSets

CONSTANTS
  Timers,     \* the Timer objects that can exist at once (bounds the model)
  None,       \* no timer
  MaxChains   \* bound: keepalives alive when the hub drops a connection

ASSUME NoneAssumption == None \notin Timers

VARIABLES
  pc,         \* the listener's thread
  app,        \* the WebSocketApp of _wsapp; "running" is its keep_running
  hasOpened,  \* _has_opened
  stopper,    \* where stop() is
  field,      \* _keepalive_timer
  timer,      \* per Timer: what its thread does
  fresh,      \* timers started since the connection was last open
  opened,     \* history: some connection was opened,
  resync,     \* history: what the connection now open owes and has scheduled
  missed,     \* history: stop() closed a WebSocketApp that was not running yet
  escaped     \* history: a running keepalive was forgotten

threadVars == <<pc, app, hasOpened, stopper, field, timer, fresh, opened, resync, missed, escaped>>

OnOpenSteps == {"open_cancel", "open_clear", "open_new", "open_daemon", "open_start",
                "open_resync"}
Gap == {"backoff", "create", "enter", "connect", "close_cancel", "close_clear", "check"}
          \cup OnOpenSteps

\* _request_to_stop and _stop_event, in the order stop() sets them.
RequestToStop == stopper # "none"
StopEvent == stopper \notin {"none", "event"}

Running(t) == timer[t] \in {"awake", "create", "daemon", "start"}
Busy(t) == timer[t] = "armed" \/ Running(t)
Unused == {t \in Timers : ~Busy(t) /\ t # field}
\* Which object a Timer(...) call returns does not matter.
NewTimer == CHOOSE t \in Unused : TRUE
Startable(t) == t # None /\ timer[t] \in {"new", "revoked"}

ThreadTypeOK ==
  /\ pc \in Gap \cup {"open", "exited"}
  /\ app \in {"none", "built", "running", "closed"}
  /\ hasOpened \in BOOLEAN /\ opened \in BOOLEAN
  /\ stopper \in {"none", "event", "close", "join", "done"}
  /\ field \in Timers \cup {None}
  /\ timer \in [Timers -> {"over", "new", "revoked", "armed", "awake", "create",
                           "daemon", "start"}]
  /\ fresh \subseteq {t \in Timers : timer[t] = "armed"}
  /\ resync \in {"none", "owed", "scheduled"}
  /\ missed \in BOOLEAN /\ escaped \in BOOLEAN
  /\ hasOpened \/ resync # "none" => opened

ThreadInit ==
  /\ pc = "create" /\ app = "none" /\ hasOpened = FALSE /\ stopper = "none"
  /\ field = None /\ timer = [t \in Timers |-> "over"] /\ fresh = {}
  /\ opened = FALSE /\ resync = "none" /\ missed = FALSE /\ escaped = FALSE

-----------------------------------------------------------------------------
(* Timer objects.                                                          *)

\* start() of a timer that was cancelled before it started ends at once.
Started(t) == IF timer[t] = "new" THEN "armed" ELSE "over"
\* cancel() has no effect on a thread that has woken up.
Cancelled(t) == CASE timer[t] = "new"   -> "revoked"
                  [] timer[t] = "armed" -> "over"
                  [] OTHER              -> timer[t]

-----------------------------------------------------------------------------
(* The listener's thread.                                                  *)

\* run: create_listener makes a new WebSocketApp ...
Build ==
  /\ pc = "create" /\ pc' = "enter" /\ app' = "built"
  /\ UNCHANGED <<hasOpened, stopper, field, timer, fresh, opened, resync, missed, escaped>>

\* ... whose run_forever sets keep_running, whatever close() has done to it before.
Enter ==
  /\ pc = "enter" /\ pc' = "connect" /\ app' = "running"
  /\ UNCHANGED <<hasOpened, stopper, field, timer, fresh, opened, resync, missed, escaped>>

\* Mutant of Connected: _start_keepalive does not stop the timer there may be.
ConnectedKeepsTimer ==
  /\ pc = "connect" /\ pc' = "open_new"
  /\ opened' = TRUE /\ resync' = IF opened THEN "owed" ELSE "none"
  /\ UNCHANGED <<app, hasOpened, stopper, field, timer, fresh, missed, escaped>>

\* The connection is made: _on_open.
Connected ==
  /\ pc = "connect" /\ pc' = "open_cancel"
  /\ opened' = TRUE /\ resync' = IF opened THEN "owed" ELSE "none"
  /\ UNCHANGED <<app, hasOpened, stopper, field, timer, fresh, missed, escaped>>

\* run_forever returns; create_listener goes to its finally clause.
Return ==
  /\ pc' = "close_cancel" /\ app' = "closed"
  /\ UNCHANGED <<hasOpened, stopper, field, timer, fresh, opened, resync, missed, escaped>>

NotConnected == pc = "connect" /\ Return
Closed == pc = "open" /\ app = "closed" /\ Return
\* The hub drops the connection.
Drop ==
  /\ pc = "open" /\ app = "running" /\ Return
  /\ Cardinality({t \in Timers : Busy(t)}) <= MaxChains

\* _stop_keepalive, from _on_open and from the finally clause.
Cancel ==
  /\ pc \in {"open_cancel", "close_cancel"}
  /\ IF field = None
     THEN pc' = (IF pc = "open_cancel" THEN "open_new" ELSE "check") /\ UNCHANGED <<timer, fresh>>
     ELSE /\ pc' = IF pc = "open_cancel" THEN "open_clear" ELSE "close_clear"
          /\ timer' = [timer EXCEPT ![field] = Cancelled(field)]
          /\ fresh' = fresh \ {field}
  /\ UNCHANGED <<app, hasOpened, stopper, field, opened, resync, missed, escaped>>

Clear ==
  /\ pc \in {"open_clear", "close_clear"}
  /\ pc' = IF pc = "open_clear" THEN "open_new" ELSE "check"
  /\ field' = None
  /\ escaped' = (escaped \/ timer[field] = "armed")
  /\ UNCHANGED <<app, hasOpened, stopper, timer, fresh, opened, resync, missed>>

\* _start_keepalive.
StartCreate ==
  /\ pc = "open_new" /\ pc' = "open_daemon"
  /\ Unused # {}
  /\ field' = NewTimer /\ timer' = [timer EXCEPT ![NewTimer] = "new"]
  /\ UNCHANGED <<app, hasOpened, stopper, fresh, opened, resync, missed, escaped>>

\* A timer another thread has started raises RuntimeError, which ends _on_open.
StartDaemon ==
  /\ pc = "open_daemon"
  /\ pc' = IF Startable(field) THEN "open_start" ELSE "open"
  /\ fresh' = IF pc' = "open" THEN {} ELSE fresh
  /\ UNCHANGED <<app, hasOpened, stopper, field, timer, opened, resync, missed, escaped>>

StartTimer ==
  /\ pc = "open_start"
  /\ IF Startable(field)
     THEN /\ pc' = "open_resync"
          /\ timer' = [timer EXCEPT ![field] = Started(field)]
          /\ fresh' = fresh \cup {t \in {field} : timer'[t] = "armed"}
     ELSE pc' = "open" /\ fresh' = {} /\ UNCHANGED timer
  /\ UNCHANGED <<app, hasOpened, stopper, field, opened, resync, missed, escaped>>

\* Mutant of Opened: that there was a connection is not remembered.
OpenedForgets ==
  /\ pc = "open_resync" /\ pc' = "open" /\ fresh' = {}
  /\ resync' = IF hasOpened THEN "scheduled" ELSE resync
  /\ UNCHANGED <<app, hasOpened, stopper, field, timer, opened, missed, escaped>>

\* The rest of _on_open.
Opened ==
  /\ pc = "open_resync" /\ pc' = "open" /\ fresh' = {}
  /\ resync' = IF hasOpened THEN "scheduled" ELSE resync
  /\ hasOpened' = TRUE
  /\ UNCHANGED <<app, stopper, field, timer, opened, missed, escaped>>

\* run: the flag is read, and then the event is waited for.
Check ==
  /\ pc = "check" /\ pc' = IF RequestToStop THEN "exited" ELSE "backoff"
  /\ UNCHANGED <<app, hasOpened, stopper, field, timer, fresh, opened, resync, missed, escaped>>

\* Mutant of Backoff: a sleep of ten seconds instead of the event.
BackoffSleeps ==
  /\ pc = "backoff" /\ (\A t \in Timers : ~Running(t)) /\ pc' = "create"
  /\ UNCHANGED <<app, hasOpened, stopper, field, timer, fresh, opened, resync, missed, escaped>>

\* A keepalive that was sending when the connection broke is done long before the ten
\* seconds are over.
Backoff ==
  /\ pc = "backoff"
  /\ \/ StopEvent /\ pc' = "exited"
     \/ ~StopEvent /\ (\A t \in Timers : ~Running(t)) /\ pc' = "create"
  /\ UNCHANGED <<app, hasOpened, stopper, field, timer, fresh, opened, resync, missed, escaped>>

Listener ==
  \/ Build \/ Enter \/ Connected \/ NotConnected \/ Closed \/ Cancel \/ Clear
  \/ StartCreate \/ StartDaemon \/ StartTimer \/ Opened \/ Check \/ Backoff

-----------------------------------------------------------------------------
(* The keepalive's threads.                                                *)

\* The interval is over.  It is longer than a backoff and a connection attempt: what was
\* started after a connection broke does not fire before the next one is open.
Fire(t) ==
  /\ timer[t] = "armed" /\ (t \in fresh => pc = "exited")
  /\ timer' = [timer EXCEPT ![t] = "awake"] /\ fresh' = fresh \ {t}
  /\ UNCHANGED <<pc, app, hasOpened, stopper, field, opened, resync, missed, escaped>>

\* Mutants of Send: no re-arm when sending failed; the flag is not looked at.
SendGivesUp(t) ==
  /\ timer[t] = "awake"
  /\ \E next \in {"over", "create"} :
       timer' = [timer EXCEPT ![t] = IF RequestToStop THEN "over" ELSE next]
  /\ UNCHANGED <<pc, app, hasOpened, stopper, field, fresh, opened, resync, missed, escaped>>
SendAlways(t) ==
  /\ timer[t] = "awake" /\ timer' = [timer EXCEPT ![t] = "create"]
  /\ UNCHANGED <<pc, app, hasOpened, stopper, field, fresh, opened, resync, missed, escaped>>

\* _send_keepalive: sends, or fails to, and re-arms unless asked to stop.
Send(t) ==
  /\ timer[t] = "awake"
  /\ timer' = [timer EXCEPT ![t] = IF RequestToStop THEN "over" ELSE "create"]
  /\ UNCHANGED <<pc, app, hasOpened, stopper, field, fresh, opened, resync, missed, escaped>>

RearmCreate(t) ==
  /\ timer[t] = "create"
  /\ Unused # {}
  /\ field' = NewTimer /\ timer' = [timer EXCEPT ![NewTimer] = "new", ![t] = "daemon"]
  /\ UNCHANGED <<pc, app, hasOpened, stopper, fresh, opened, resync, missed, escaped>>

\* The field may hold None or a timer already started by now: the thread ends.
RearmDaemon(t) ==
  /\ timer[t] = "daemon"
  /\ timer' = [timer EXCEPT ![t] = IF Startable(field) THEN "start" ELSE "over"]
  /\ UNCHANGED <<pc, app, hasOpened, stopper, field, fresh, opened, resync, missed, escaped>>

RearmStart(t) ==
  /\ timer[t] = "start"
  /\ timer' = IF Startable(field)
              THEN [timer EXCEPT ![t] = "over", ![field] = Started(field)]
              ELSE [timer EXCEPT ![t] = "over"]
  /\ fresh' = fresh \cup {u \in {field} \cap Timers :
                            timer'[u] = "armed" /\ timer[u] # "armed" /\ pc \in Gap}
  /\ UNCHANGED <<pc, app, hasOpened, stopper, field, opened, resync, missed, escaped>>

Keepalive(t) == Fire(t) \/ Send(t) \/ RearmCreate(t) \/ RearmDaemon(t) \/ RearmStart(t)

-----------------------------------------------------------------------------
(* stop().                                                                 *)

SetFlag ==
  /\ stopper = "none" /\ stopper' = "event"
  /\ UNCHANGED <<pc, app, hasOpened, field, timer, fresh, opened, resync, missed, escaped>>

SetEvent ==
  /\ stopper = "event" /\ stopper' = "close"
  /\ UNCHANGED <<pc, app, hasOpened, field, timer, fresh, opened, resync, missed, escaped>>

CloseApp ==
  /\ stopper = "close" /\ stopper' = "join"
  /\ app' = IF app = "running" THEN "closed" ELSE app
  /\ missed' = (pc \in {"create", "enter"})
  /\ UNCHANGED <<pc, hasOpened, field, timer, fresh, opened, resync, escaped>>

\* join() returns; the hub's registry goes.
Join ==
  /\ stopper = "join" /\ pc = "exited" /\ stopper' = "done"
  /\ UNCHANGED <<pc, app, hasOpened, field, timer, fresh, opened, resync, missed, escaped>>

Stop == SetEvent \/ CloseApp \/ Join

Done == stopper = "done" /\ (\A t \in Timers : ~Busy(t)) /\ UNCHANGED threadVars

ThreadNext == Listener \/ Drop \/ (\E t \in Timers : Keepalive(t)) \/ SetFlag \/ Stop \/ Done

ThreadSpec == ThreadInit /\ [][ThreadNext]_threadVars

\* Threads run, a connection attempt ends, and a timer fires.  Nothing says that the hub
\* ever drops a connection, or that stop() is called.
ThreadFairSpec ==
  /\ ThreadSpec /\ WF_threadVars(Listener) /\ WF_threadVars(Stop)
  /\ \A t \in Timers : WF_threadVars(Keepalive(t))

-----------------------------------------------------------------------------
(* Properties.                                                             *)

\* An open connection has a keepalive, armed or about to re-arm, whatever its timers'
\* threads and the listener's do to each other: without one the hub drops a quiet
\* connection (_start_keepalive, _stop_keepalive, _send_keepalive).
KeepaliveServes == pc = "open" /\ ~RequestToStop => \E t \in Timers : Busy(t)

\* There is one keepalive at a time, unless one re-armed between _stop_keepalive's
\* cancel() and its assignment, which then loses the only reference to it.
OneKeepalive == ~escaped => \A t, u \in Timers : Busy(t) /\ Busy(u) => t = u

\* Every reconnect schedules its resync: _on_open gets that far (issue #39) unless such a
\* lost keepalive fires in the middle of it.
ResyncScheduled == pc = "open" /\ ~escaped => resync # "owed"

\* Once stop() is called the keepalives die out, the lost ones and those that re-armed
\* while the flag was set included.
KeepaliveDies == RequestToStop ~> [](\A t \in Timers : ~Busy(t))

\* stop() ends the thread and returns, unless it missed the WebSocketApp.
StopReturns == RequestToStop ~> (stopper = "done" \/ missed)

\* "stop() joins the websocket thread (worst case the full reconnect backoff)"
\* (async_unload_entry): it returns without the hub's doing anything.
StopIsPrompt == RequestToStop ~> stopper = "done"
=============================================================================
