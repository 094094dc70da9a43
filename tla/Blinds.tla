-------------------------------- MODULE Blinds --------------------------------
(***************************************************************************)
(* One blind: ikea_blinds_device and ikea_blinds_sensor (base_classes.py). *)
(* Service calls overlap; each waits for a request to the hub in a thread  *)
(* of the executor.  Home Assistant polls the cover, and each poll puts    *)
(* another model object in place of the one a waiting call still writes    *)
(* to.  The websocket reports levels, never targets, and may lose some.    *)
(* The hub counts from 0, open, to Shut; the flipped positions of Home     *)
(* Assistant are left out.  The blind is one that can be stopped:          *)
(* async_stop_cover of another raises before it does anything.             *)
(***************************************************************************)
EXTENDS Naturals, Sequences

CONSTANTS
  Shut,        \* the level of a closed blind
  Calls,       \* service calls that can be under way at once
  Stop,        \* what cover.stop_cover asks for
  MaxCalls,    \* bound: service calls
  MaxOthers,   \* bound: times someone else moves or stops the blind
  MaxReports   \* bound: reports on their way

Levels == 0 .. Shut

ASSUME BlindsAssumption ==
  Shut \in Nat \ {0} /\ Stop \notin Levels /\ {MaxCalls, MaxOthers, MaxReports} \subseteq Nat

VARIABLES
  level, target, moving,   \* the blind, as the hub has it
  reports,                 \* levels on their way over the websocket
  held,                    \* _json_data.attributes: level and target
  requested, stopTarget,   \* _stop_requested, _stop_target_level
  call,                    \* the service calls under way
  poll,                    \* the update under way
  shown,                   \* what Home Assistant last wrote for the cover
  calls, others,
  last,                    \* history: the last request the hub took, and whose it was
  crossed                  \* history: the last request overlapped another, failed or was noted
                           \* on a model no longer held, or an answer or a target older than
                           \* it was taken for the present one

hubVars == <<level, target, moving>>
stopVars == <<requested, stopTarget>>
bounds == <<calls, others>>
history == <<last, crossed>>
vars == <<hubVars, reports, held, stopVars, call, poll, shown, bounds, history>>

Known == [level : Levels, target : Levels]
NoCall == [at |-> "none", want |-> Stop, on |-> FALSE, alone |-> TRUE]
NoPoll == [at |-> "none", got |-> [level |-> 0, target |-> 0], old |-> FALSE]

TypeOK ==
  /\ level \in Levels /\ target \in Levels /\ moving \in BOOLEAN
  /\ reports \in Seq(Levels) /\ Len(reports) <= MaxReports
  /\ held \in Known
  /\ requested \in BOOLEAN /\ stopTarget \in Levels
  /\ call \in [Calls -> [at : {"none", "sent", "taken", "answered"},
                         want : Levels \cup {Stop}, on : BOOLEAN, alone : BOOLEAN]]
  /\ poll \in [at : {"none", "asked", "got"}, got : Known, old : BOOLEAN]
  /\ shown \in [level : Levels, way : {"opening", "closing", "still"}]
  /\ calls \in 0 .. MaxCalls /\ others \in 0 .. MaxOthers
  /\ last \in [what : Levels \cup {Stop}, ours : BOOLEAN] /\ crossed \in BOOLEAN

\* Home Assistant starts with a blind at rest where it was last sent.
Init ==
  /\ level \in Levels /\ target = level /\ moving = FALSE
  /\ reports = << >>
  /\ held = [level |-> level, target |-> target]
  /\ requested = FALSE /\ stopTarget = 0
  /\ call = [c \in Calls |-> NoCall] /\ poll = NoPoll
  /\ shown = [level |-> level, way |-> "still"]
  /\ calls = 0 /\ others = 0
  /\ last = [what |-> Stop, ours |-> FALSE] /\ crossed = FALSE

-----------------------------------------------------------------------------
(* What is read.                                                           *)

\* stop_requested: a stop holds until another target is seen.
StopHolds(h, flag, t) == flag /\ h.target = t

\* is_opening and is_closing, with the stop taken into account.
Way(h, stopped) ==
  IF stopped \/ h.level = h.target THEN "still"
  ELSE CASE h.target = 0 -> "opening" [] h.target = Shut -> "closing" [] OTHER -> "still"

\* Home Assistant reads the properties of model object h and writes a state.  Reading
\* stop_requested drops a stop that no longer holds.
Write(h, flag, t) ==
  /\ requested' = StopHolds(h, flag, t)
  /\ shown' = [level |-> h.level, way |-> Way(h, StopHolds(h, flag, t))]

-----------------------------------------------------------------------------
(* The hub.                                                                *)

\* The blind has moved: the hub reports its level, unless the report is lost on its way.
Report(l) == reports' = reports \/ (Len(reports) < MaxReports /\ reports' = Append(reports, l))

Travel ==
  /\ moving
  /\ level' = IF level < target THEN level + 1 ELSE level - 1
  /\ moving' = (level' # target)
  /\ Report(level')
  /\ UNCHANGED <<target, held, stopVars, call, poll, shown, bounds, history>>

\* The hub takes a request.  After a stop it may keep the last target or not.
Take(want, ours) ==
  /\ IF want = Stop
     THEN moving' = FALSE /\ target' \in {target, level}
     ELSE moving' = (want # level) /\ target' = want
  /\ last' = [what |-> want, ours |-> ours]
  /\ poll' = IF poll.at = "got" /\ target' # target THEN [poll EXCEPT !.old = TRUE] ELSE poll
  /\ UNCHANGED level

\* Someone uses a remote control or the app.  The target is not reported.
Other(want) ==
  /\ others < MaxOthers /\ others' = others + 1
  /\ Take(want, FALSE)
  /\ UNCHANGED <<reports, held, stopVars, call, shown, calls, crossed>>

-----------------------------------------------------------------------------
(* Events and polls.                                                       *)

\* The listener writes a reported level on the model and has the state pushed.
Deliver ==
  /\ reports # << >> /\ reports' = Tail(reports)
  /\ held' = [held EXCEPT !.level = Head(reports)]
  /\ Write(held', requested, stopTarget)
  /\ UNCHANGED <<hubVars, stopTarget, call, poll, bounds, history>>

\* Home Assistant polls a cover, one update at a time: async_update.
Ask ==
  /\ poll.at = "none"
  /\ poll' = [NoPoll EXCEPT !.at = "asked"]
  /\ UNCHANGED <<hubVars, reports, held, stopVars, call, shown, bounds, history>>

HubAnswers ==
  /\ poll.at = "asked"
  /\ poll' = [at |-> "got", got |-> [level |-> level, target |-> target], old |-> FALSE]
  /\ UNCHANGED <<hubVars, reports, held, stopVars, call, shown, bounds, history>>

\* HomeAssistantError, for want of an answer that can be used: nothing is written.
PollFails ==
  /\ poll.at = "asked" /\ poll' = NoPoll
  /\ UNCHANGED <<hubVars, reports, held, stopVars, call, shown, bounds, history>>

Busy(c) == call[c].at # "none"
Idle == \A c \in Calls : ~Busy(c)
OurStop == last = [what |-> Stop, ours |-> TRUE]

\* An answer as old as the last move misleads; a later one tells the target again, which is
\* too late for a stop that was recorded for another.
Cured == ~poll.old /\ Idle /\ ~OurStop /\ ~StopHolds(poll.got, requested, stopTarget)

\* Mutant of PollApplied: no refresh while a stop holds.
PollAppliedUnlessStopped ==
  /\ poll.at = "got" /\ poll' = NoPoll
  /\ ~StopHolds(held, requested, stopTarget)
  /\ held' = poll.got
  /\ call' = [c \in Calls |-> IF Busy(c) THEN [call[c] EXCEPT !.on = FALSE] ELSE NoCall]
  /\ Write(poll.got, requested, stopTarget)
  /\ crossed' = (poll.old \/ (crossed /\ ~Cured))
  /\ UNCHANGED <<hubVars, reports, stopTarget, bounds, last>>

\* The answer becomes the model: a call that is under way writes to the old one.  The
\* answer is older than the last request if that came while it was on its way.
PollApplied ==
  /\ poll.at = "got" /\ poll' = NoPoll
  /\ held' = poll.got
  /\ call' = [c \in Calls |-> IF Busy(c) THEN [call[c] EXCEPT !.on = FALSE] ELSE NoCall]
  /\ Write(poll.got, requested, stopTarget)
  /\ crossed' = (poll.old \/ (crossed /\ ~Cured))
  /\ UNCHANGED <<hubVars, reports, stopTarget, bounds, last>>

-----------------------------------------------------------------------------
(* Service calls.                                                          *)

Put(c, r) == call' = [call EXCEPT ![c] = r]

\* The request goes to the executor, with the method of the present model object.
Send(c, want) ==
  /\ ~Busy(c) /\ calls < MaxCalls /\ calls' = calls + 1
  /\ call' = [d \in Calls |->
       IF d = c THEN [at |-> "sent", want |-> want, on |-> TRUE, alone |-> Idle]
       ELSE IF Busy(d) THEN [call[d] EXCEPT !.alone = FALSE] ELSE call[d]]

\* Mutant of Begin: a move does not end an earlier stop.
BeginStopped(c, want) ==
  /\ Send(c, want)
  /\ UNCHANGED <<hubVars, reports, held, stopVars, poll, shown, others, history>>

\* async_open_cover, async_close_cover, async_set_cover_position and async_stop_cover up to
\* their await: a move ends an earlier stop before it is sent.
Begin(c, want) ==
  /\ Send(c, want)
  /\ requested' = (requested /\ want = Stop)
  /\ UNCHANGED <<hubVars, reports, held, stopTarget, poll, shown, others, history>>

Taken(c) ==
  /\ call[c].at = "sent"
  /\ Take(call[c].want, TRUE)
  /\ Put(c, [call[c] EXCEPT !.at = "taken"])
  /\ crossed' = (~call[c].alone \/ (call[c].want = Stop /\ held.target # target))
  /\ UNCHANGED <<reports, held, stopVars, shown, bounds>>

\* The request fails, before the hub took it or after: the exception ends the call.
CallFails(c) ==
  /\ call[c].at \in {"sent", "taken"}
  /\ Put(c, NoCall)
  /\ crossed' = (crossed \/ call[c].want # Stop \/ call[c].at = "taken")
  /\ UNCHANGED <<hubVars, reports, held, stopVars, poll, shown, bounds, last>>

\* The library, in the executor, writes the new target on the model object it was given.
Answered(c) ==
  /\ call[c].at = "taken"
  /\ Put(c, [call[c] EXCEPT !.at = "answered"])
  /\ held' = IF call[c].on /\ call[c].want # Stop THEN [held EXCEPT !.target = call[c].want]
             ELSE held
  /\ crossed' = (crossed \/ (~call[c].on /\ call[c].want # Stop))
  /\ UNCHANGED <<hubVars, reports, stopVars, poll, shown, bounds, last>>

\* Mutant of Finish: the stop remembers the level instead of the target.
FinishAtLevel(c) ==
  /\ call[c].at = "answered"
  /\ Put(c, NoCall)
  /\ LET flag == requested \/ call[c].want = Stop
         t == IF call[c].want = Stop THEN held.level ELSE stopTarget
     IN /\ stopTarget' = t
        /\ IF poll.at = "none"
           THEN poll' = [NoPoll EXCEPT !.at = "asked"] /\ requested' = flag /\ UNCHANGED shown
           ELSE Write(held, flag, t) /\ UNCHANGED poll
  /\ UNCHANGED <<hubVars, reports, held, bounds, history>>

\* Mutant of Finish: the stop remembers what was asked for.
FinishAtRequest(c) ==
  /\ call[c].at = "answered"
  /\ Put(c, NoCall)
  /\ LET flag == requested \/ call[c].want = Stop
         t == call[c].want
     IN /\ stopTarget' = t
        /\ IF poll.at = "none"
           THEN poll' = [NoPoll EXCEPT !.at = "asked"] /\ requested' = flag /\ UNCHANGED shown
           ELSE Write(held, flag, t) /\ UNCHANGED poll
  /\ UNCHANGED <<hubVars, reports, held, bounds, history>>

\* The rest of the call, on the loop.  async_stop_cover: the stop holds for the target the
\* present model has.  After the call Home Assistant updates the cover: with a poll, or, if
\* one is under way, by writing what there is.
Finish(c) ==
  /\ call[c].at = "answered"
  /\ Put(c, NoCall)
  /\ LET flag == requested \/ call[c].want = Stop
         t == IF call[c].want = Stop THEN held.target ELSE stopTarget
     IN /\ stopTarget' = t
        /\ IF poll.at = "none"
           THEN poll' = [NoPoll EXCEPT !.at = "asked"] /\ requested' = flag /\ UNCHANGED shown
           ELSE Write(held, flag, t) /\ UNCHANGED poll
  /\ UNCHANGED <<hubVars, reports, held, bounds, history>>

-----------------------------------------------------------------------------

CallStep(c) ==
  \/ \E want \in Levels \cup {Stop} : Begin(c, want)
  \/ Taken(c) \/ CallFails(c) \/ Answered(c) \/ Finish(c)
Next ==
  \/ Travel \/ \E want \in Levels \cup {Stop} : Other(want)
  \/ Deliver \/ Ask \/ HubAnswers \/ PollFails \/ PollApplied
  \/ \E c \in Calls : CallStep(c)

\* The cover is polled again and again, and the hub answers some of the polls.
Fairness == WF_vars(Ask) /\ SF_vars(HubAnswers) /\ WF_vars(PollApplied)

Spec == Init /\ [][Next]_vars /\ Fairness

-----------------------------------------------------------------------------
(* Properties.                                                             *)

\* What is_opening and is_closing say now.
Reads == Way(held, StopHolds(held, requested, stopTarget))

\* A blind that Home Assistant stopped is not said to move again, whatever polls and reports
\* follow, and whether the hub keeps the last target or not (stop_requested), as
\* long as its level is known: a hub that does not keep the target ends the mark, and then a
\* late report of another level looks like a movement until the next poll.
\* Excepted are a stop of which the target was not known, one that overlaps a move, a poll
\* answered before the last move and applied after it, and a move that fails, which ends the
\* stop all the same.
StopStays == OurStop /\ Idle /\ ~crossed /\ held.level = level => Reads = "still"

\* A blind that Home Assistant sent to an end is said to move there until it is known to
\* have arrived, whatever stop came before (async_open_cover, async_close_cover).
MovementShown ==
  last.ours /\ last.what \in {0, Shut} /\ Idle /\ ~crossed /\ held.level # last.what
    => Reads = IF last.what = 0 THEN "opening" ELSE "closing"

\* Home Assistant comes to show where the blind is and, if it was stopped as in StopStays,
\* that it rests, also if reports are lost, polls fail and nothing is written after a call.
\* (The bounds end all movement: the last of it is what must come to be shown.)
RestIsShown ==
  <>[](shown.level = level /\ (OurStop /\ Idle /\ ~crossed => shown.way = "still"))

\* "If the hub keeps the last commanded target, the stop must survive the refresh"
\* (tests/test_blinds_stop.py), whoever commanded it.
StopSurvivesRefresh ==
  [][OurStop /\ Idle /\ requested /\ target # level
        /\ poll.at = "got" /\ ~poll.old /\ held' = poll.got
       => requested']_vars
=============================================================================
