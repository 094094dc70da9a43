---------------------------- MODULE BlindsProofs ----------------------------
(***************************************************************************)
(* Theorems about a blind that Home Assistant commands: its types, that a  *)
(* stop stays, and that a movement is shown.  The invariant follows the    *)
(* last request the hub took from the moment it took it until Home         *)
(* Assistant shows it.                                                     *)
(***************************************************************************)
EXTENDS Blinds, TLAPS

\* A blind that moves has somewhere to go, and one that was stopped does not move.
MovingFits ==
  /\ moving => level # target
  /\ last.what = Stop /\ last.ours => ~moving

\* The last move decided the target, and an answer that is not old tells the present one.
TargetFits ==
  /\ last.ours /\ last.what # Stop => target = last.what
  /\ poll.at = "got" /\ ~poll.old => poll.got.target = target

\* A call is alone as long as no other is under way; a move that is sent alone finds no stop.
AloneFits ==
  \A c \in Calls :
    /\ Busy(c) /\ call[c].alone => \A d \in Calls \ {c} : ~Busy(d)
    /\ call[c].at = "sent" /\ call[c].alone /\ call[c].want # Stop => ~requested

\* The hub took the request of c, and Home Assistant has not finished the call.
Holds(c) == call[c].at \in {"taken", "answered"}

\* Nothing but stops that the hub has not taken is under way.
Quiet == \A c \in Calls : Busy(c) => call[c].at = "sent" /\ call[c].want = Stop

\* From the stop on, the model has the target the hub has, unless the hub gave it up for
\* the level; and once the call is finished the stop is recorded for the model's target,
\* unless the model has the blind's level for its target.
StopKept ==
  OurStop /\ ~crossed =>
    /\ \A c \in Calls : Holds(c) => call[c].want = Stop
    /\ held.target = target \/ target = level
    /\ Quiet => \/ requested /\ stopTarget = held.target
                \/ held.target = target /\ target = level

\* From the move on, no stop is recorded, and the model has the target once the library
\* has written it there.
MoveKept ==
  last.ours /\ last.what # Stop /\ ~crossed =>
    /\ ~requested
    /\ \A c \in Calls : Holds(c) => call[c].want = last.what
    /\ held.target = last.what \/ \E c \in Calls : call[c].at = "taken"

IInv == TypeOK /\ MovingFits /\ TargetFits /\ AloneFits /\ StopKept /\ MoveKept

-----------------------------------------------------------------------------
(* What the helpers of the model do.                                       *)

Call == [at : {"none", "sent", "taken", "answered"},
         want : Levels \cup {Stop}, on : BOOLEAN, alone : BOOLEAN]
Poll == [at : {"none", "asked", "got"}, got : Known, old : BOOLEAN]

\* 0 and Shut are levels, and a stop is no level.
LEMMA LevelsFit == 0 \in Levels /\ Shut \in Levels /\ Shut # 0 /\ Stop \notin Levels
BY BlindsAssumption DEF Levels

LEMMA NonesFit == NoCall \in Call /\ NoPoll \in Poll
BY LevelsFit DEF NoCall, NoPoll, Call, Poll, Known

\* Put replaces one call by another.
LEMMA PutEffect ==
  ASSUME TypeOK, NEW c \in Calls, NEW r \in Call, Put(c, r)
  PROVE  /\ call' \in [Calls -> Call]
         /\ call'[c] = r
         /\ \A d \in Calls \ {c} : call'[d] = call[d]
BY DEF TypeOK, Put, Call

\* A call that is sent is alone if no other is under way, and no other is alone any more.
LEMMA SendEffect ==
  ASSUME TypeOK, NEW c \in Calls, NEW want \in Levels \cup {Stop}, Send(c, want)
  PROVE  /\ call' \in [Calls -> Call]
         /\ call'[c] = [at |-> "sent", want |-> want, on |-> TRUE, alone |-> Idle]
         /\ \A d \in Calls \ {c} : /\ call'[d].at = call[d].at /\ call'[d].want = call[d].want
                                   /\ call'[d].alone => call[d].alone
                                   /\ Busy(d) => ~call'[d].alone
<1> DEFINE Noted(d) == [call[d] EXCEPT !.alone = FALSE]
<1>1. Idle \in BOOLEAN
  BY DEF Idle
<1>2. [at |-> "sent", want |-> want, on |-> TRUE, alone |-> Idle] \in Call
  BY <1>1 DEF Call
<1>3. \A d \in Calls : call[d] \in Call
  BY DEF TypeOK, Call
<1>4. \A d \in Calls : Noted(d) \in Call /\ Noted(d).at = call[d].at
                         /\ Noted(d).want = call[d].want /\ ~Noted(d).alone
  BY <1>3 DEF Call
<1>5. call' = [d \in Calls |->
         IF d = c THEN [at |-> "sent", want |-> want, on |-> TRUE, alone |-> Idle]
         ELSE IF Busy(d) THEN Noted(d) ELSE call[d]]
  BY DEF Send
<1> HIDE DEF Noted
<1>6. call'[c] = [at |-> "sent", want |-> want, on |-> TRUE, alone |-> Idle]
  BY <1>5
<1>7. \A d \in Calls \ {c} : call'[d] = IF Busy(d) THEN Noted(d) ELSE call[d]
  BY <1>5
<1>8. call' \in [Calls -> Call]
  BY <1>2, <1>3, <1>4, <1>5
<1> QED  BY <1>3, <1>4, <1>6, <1>7, <1>8 DEF Call

\* A poll that is applied changes no call but for the model object it writes to.
LEMMA AppliedEffect ==
  ASSUME TypeOK, PollApplied
  PROVE  /\ call' \in [Calls -> Call]
         /\ \A c \in Calls : /\ call'[c].at = call[c].at
                             /\ Busy(c) => /\ call'[c].want = call[c].want
                                           /\ call'[c].alone = call[c].alone
<1> DEFINE Off(c) == [call[c] EXCEPT !.on = FALSE]
<1>1. \A c \in Calls : call[c] \in Call
  BY DEF TypeOK, Call
<1>2. \A c \in Calls : Off(c) \in Call /\ Off(c).at = call[c].at
                         /\ Off(c).want = call[c].want /\ Off(c).alone = call[c].alone
  BY <1>1 DEF Call
<1>3. call' = [c \in Calls |-> IF Busy(c) THEN Off(c) ELSE NoCall]
  BY DEF PollApplied
<1> HIDE DEF Off
<1>4. \A c \in Calls : call'[c] = IF Busy(c) THEN Off(c) ELSE NoCall
  BY <1>3
<1>5. call' \in [Calls -> Call]
  BY <1>2, <1>3, NonesFit
<1> QED  BY <1>1, <1>2, <1>4, <1>5 DEF Busy, NoCall

\* What the hub takes: a stop ends the movement and gives the target up for the level or
\* does not, a move has its target, and an answer on its way that tells another is old.
LEMMA TakeEffect ==
  ASSUME TypeOK, NEW want \in Levels \cup {Stop}, NEW ours \in BOOLEAN, Take(want, ours)
  PROVE  /\ level' = level /\ target' \in Levels /\ moving' \in BOOLEAN
         /\ want = Stop => ~moving' /\ target' \in {target, level}
         /\ want # Stop => target' = want /\ (moving' => level # target')
         /\ last' = [what |-> want, ours |-> ours]
         /\ poll' \in Poll /\ poll'.at = poll.at /\ poll'.got = poll.got
         /\ poll.at = "got" /\ ~poll'.old => ~poll.old /\ target' = target
<1>1. poll \in Poll
  BY DEF TypeOK, Poll
<1>2. /\ poll' \in Poll /\ poll'.at = poll.at /\ poll'.got = poll.got
      /\ poll.at = "got" /\ ~poll'.old => ~poll.old /\ target' = target
  BY <1>1 DEF Take, Poll
<1>3. /\ want = Stop => ~moving' /\ target' \in {target, level}
      /\ want # Stop => target' = want /\ (moving' => level # target')
      /\ moving' \in BOOLEAN /\ target' \in Levels
  BY DEF Take, TypeOK
<1> QED  BY <1>2, <1>3 DEF Take

\* A state that is written drops a stop that no longer holds, and starts none.
LEMMA WriteEffect ==
  ASSUME NEW h \in Known, NEW flag \in BOOLEAN, NEW t \in Levels, Write(h, flag, t)
  PROVE  /\ requested' \in BOOLEAN /\ (requested' <=> flag /\ h.target = t)
         /\ shown' \in [level : Levels, way : {"opening", "closing", "still"}]
<1>1. Way(h, StopHolds(h, flag, t)) \in {"opening", "closing", "still"}
  BY DEF Way
<1> QED  BY <1>1 DEF Write, StopHolds, Known

-----------------------------------------------------------------------------
(* Types.                                                                  *)

LEMMA TypeInit == Init => TypeOK
<1> SUFFICES ASSUME Init PROVE TypeOK
  OBVIOUS
<1>1. level \in Levels /\ target \in Levels /\ moving \in BOOLEAN
  BY DEF Init
<1>2. reports \in Seq(Levels) /\ Len(reports) <= MaxReports
  BY BlindsAssumption DEF Init
<1>3. held \in Known /\ requested \in BOOLEAN /\ stopTarget \in Levels
  BY LevelsFit DEF Init, Known
<1>4. call \in [Calls -> Call] /\ poll \in Poll
  BY NonesFit DEF Init
<1>5. shown \in [level : Levels, way : {"opening", "closing", "still"}]
  BY DEF Init
<1>6. calls \in 0 .. MaxCalls /\ others \in 0 .. MaxOthers
  BY BlindsAssumption DEF Init
<1>7. last \in [what : Levels \cup {Stop}, ours : BOOLEAN] /\ crossed \in BOOLEAN
  BY DEF Init
<1> QED  BY <1>1, <1>2, <1>3, <1>4, <1>5, <1>6, <1>7 DEF TypeOK, Call, Poll

LEMMA TypeStep == TypeOK /\ MovingFits /\ [Next]_vars => TypeOK'
<1> SUFFICES ASSUME TypeOK, MovingFits, [Next]_vars PROVE TypeOK'
  OBVIOUS
<1> USE DEF TypeOK
<1>0. call \in [Calls -> Call] /\ poll \in Poll /\ \A c \in Calls : call[c] \in Call
  BY DEF Call, Poll
<1>1. CASE Travel
  <2>1. level' \in Levels
    BY <1>1, BlindsAssumption DEF Travel, MovingFits, Levels
  <2>2. reports' \in Seq(Levels) /\ Len(reports') <= MaxReports
    BY <1>1, <2>1, BlindsAssumption DEF Travel, Report
  <2> QED  BY <1>1, <2>1, <2>2 DEF Travel, stopVars, bounds, history
<1>2. ASSUME NEW want \in Levels \cup {Stop}, Other(want) PROVE TypeOK'
  <2>1. others' \in 0 .. MaxOthers
    BY <1>2, BlindsAssumption DEF Other
  <2>2. /\ level' = level /\ target' \in Levels /\ moving' \in BOOLEAN
        /\ last' = [what |-> want, ours |-> FALSE] /\ poll' \in Poll
    BY <1>2, TakeEffect DEF Other
  <2> QED  BY <1>2, <2>1, <2>2 DEF Other, stopVars, Poll
<1>3. CASE Deliver
  <2>1. /\ Head(reports) \in Levels /\ Tail(reports) \in Seq(Levels)
        /\ Len(Tail(reports)) <= MaxReports
    BY <1>3, BlindsAssumption DEF Deliver
  <2>2. held' \in Known
    BY <1>3, <2>1 DEF Deliver, Known
  <2>3. /\ requested' \in BOOLEAN
        /\ shown' \in [level : Levels, way : {"opening", "closing", "still"}]
    BY <1>3, <2>2, WriteEffect DEF Deliver
  <2> QED  BY <1>3, <2>1, <2>2, <2>3 DEF Deliver, hubVars, bounds, history
<1>4. CASE Ask
  BY <1>4, LevelsFit DEF Ask, NoPoll, Known, hubVars, stopVars, bounds, history
<1>5. CASE HubAnswers
  BY <1>5 DEF HubAnswers, Known, hubVars, stopVars, bounds, history
<1>6. CASE PollFails
  BY <1>6, NonesFit DEF PollFails, Poll, hubVars, stopVars, bounds, history
<1>7. CASE PollApplied
  <2>1. poll' \in Poll /\ held' \in Known /\ crossed' \in BOOLEAN
    BY <1>7, NonesFit DEF PollApplied
  <2>2. /\ requested' \in BOOLEAN
        /\ shown' \in [level : Levels, way : {"opening", "closing", "still"}]
    BY <1>7, WriteEffect DEF PollApplied
  <2>3. call' \in [Calls -> Call]
    BY <1>7, AppliedEffect
  <2> QED  BY <1>7, <2>1, <2>2, <2>3 DEF PollApplied, Call, Poll, hubVars, bounds
<1>8. ASSUME NEW c \in Calls, NEW want \in Levels \cup {Stop}, Begin(c, want) PROVE TypeOK'
  <2>1. calls' \in 0 .. MaxCalls
    BY <1>8, BlindsAssumption DEF Begin, Send
  <2>2. call' \in [Calls -> Call]
    BY <1>8, SendEffect DEF Begin
  <2> QED  BY <1>8, <2>1, <2>2 DEF Begin, Call, hubVars, history
<1>9. ASSUME NEW c \in Calls, Taken(c) PROVE TypeOK'
  <2>1. [call[c] EXCEPT !.at = "taken"] \in Call
    BY <1>0 DEF Call
  <2>2. call' \in [Calls -> Call]
    BY <1>9, <2>1, PutEffect DEF Taken
  <2>3. call[c].want \in Levels \cup {Stop}
    BY <1>0 DEF Call
  <2>4. /\ level' = level /\ target' \in Levels /\ moving' \in BOOLEAN
        /\ last' = [what |-> call[c].want, ours |-> TRUE] /\ poll' \in Poll
    BY <1>9, <2>3, TakeEffect DEF Taken
  <2>5. crossed' \in BOOLEAN
    BY <1>9 DEF Taken
  <2> QED  BY <1>9, <2>2, <2>3, <2>4, <2>5 DEF Taken, Call, Poll, stopVars, bounds
<1>10. ASSUME NEW c \in Calls, CallFails(c) PROVE TypeOK'
  <2>1. call' \in [Calls -> Call]
    BY <1>10, NonesFit, PutEffect DEF CallFails
  <2>2. crossed' \in BOOLEAN
    BY <1>10 DEF CallFails
  <2> QED  BY <1>10, <2>1, <2>2 DEF CallFails, Call, hubVars, stopVars, bounds
<1>11. ASSUME NEW c \in Calls, Answered(c) PROVE TypeOK'
  <2>1. [call[c] EXCEPT !.at = "answered"] \in Call
    BY <1>0 DEF Call
  <2>2. call' \in [Calls -> Call]
    BY <1>11, <2>1, PutEffect DEF Answered
  <2>3. held' \in Known
    BY <1>0, <1>11 DEF Answered, Call, Known
  <2>4. crossed' \in BOOLEAN
    BY <1>11 DEF Answered
  <2> QED  BY <1>11, <2>2, <2>3, <2>4 DEF Answered, Call, hubVars, stopVars, bounds
<1>12. ASSUME NEW c \in Calls, Finish(c) PROVE TypeOK'
  <2>1. call' \in [Calls -> Call]
    BY <1>12, NonesFit, PutEffect DEF Finish
  <2> DEFINE flag == requested \/ call[c].want = Stop
             t == IF call[c].want = Stop THEN held.target ELSE stopTarget
  <2>2. flag \in BOOLEAN /\ t \in Levels
    BY DEF Known
  <2>3. stopTarget' = t
    BY <1>12 DEF Finish
  <2>4. CASE poll.at = "none"
    <3>1. poll' = [NoPoll EXCEPT !.at = "asked"] /\ requested' = flag /\ UNCHANGED shown
      BY <1>12, <2>4 DEF Finish
    <3>2. poll' \in Poll
      BY <3>1, LevelsFit DEF NoPoll, Poll, Known
    <3> QED  BY <1>12, <2>1, <2>2, <2>3, <3>1, <3>2 DEF Finish, Call, Poll, hubVars, bounds, history
  <2>5. CASE poll.at # "none"
    <3>1. Write(held, flag, t) /\ UNCHANGED poll
      BY <1>12, <2>5 DEF Finish
    <3>2. /\ requested' \in BOOLEAN
          /\ shown' \in [level : Levels, way : {"opening", "closing", "still"}]
      BY <2>2, <3>1, WriteEffect
    <3> HIDE DEF t, flag
    <3> QED  BY <1>12, <2>1, <2>2, <2>3, <3>1, <3>2 DEF Finish, Call, hubVars, bounds, history
  <2> QED  BY <2>4, <2>5
<1>13. CASE UNCHANGED vars
  BY <1>13 DEF vars, hubVars, stopVars, bounds, history
<1> QED
  BY <1>1, <1>2, <1>3, <1>4, <1>5, <1>6, <1>7, <1>8, <1>9, <1>10, <1>11, <1>12, <1>13
     DEF Next, CallStep
-----------------------------------------------------------------------------
(* The blind and the answers of the hub.                                   *)

LEMMA MovingStep == TypeOK /\ MovingFits /\ [Next]_vars => MovingFits'
<1> SUFFICES ASSUME TypeOK, MovingFits, [Next]_vars PROVE MovingFits'
  OBVIOUS
<1>1. CASE Travel
  BY <1>1 DEF Travel, MovingFits, history
<1>2. ASSUME NEW want \in Levels \cup {Stop}, NEW ours \in BOOLEAN, Take(want, ours)
      PROVE  MovingFits'
  BY <1>2, TakeEffect DEF MovingFits
<1>3. ASSUME NEW c \in Calls, Taken(c) PROVE MovingFits'
  <2>1. call[c].want \in Levels \cup {Stop}
    BY DEF TypeOK
  <2> QED  BY <1>2, <1>3, <2>1 DEF Taken
<1>4. CASE UNCHANGED <<hubVars, last>>
  BY <1>4 DEF MovingFits, hubVars
<1> QED
  BY <1>1, <1>2, <1>3, <1>4
     DEF Next, CallStep, Other, Deliver, Ask, HubAnswers, PollFails, PollApplied, Begin,
         CallFails, Answered, Finish, vars, history

LEMMA TargetStep == TypeOK /\ TargetFits /\ [Next]_vars => TargetFits'
<1> SUFFICES ASSUME TypeOK, TargetFits, [Next]_vars PROVE TargetFits'
  OBVIOUS
<1>1. ASSUME NEW want \in Levels \cup {Stop}, NEW ours \in BOOLEAN, Take(want, ours)
      PROVE  TargetFits'
  BY <1>1, TakeEffect DEF TargetFits
<1>2. ASSUME NEW c \in Calls, Taken(c) PROVE TargetFits'
  <2>1. call[c].want \in Levels \cup {Stop}
    BY DEF TypeOK
  <2> QED  BY <1>1, <1>2, <2>1 DEF Taken
<1>3. CASE HubAnswers
  BY <1>3 DEF HubAnswers, TargetFits, hubVars, history
<1>4. CASE target' = target /\ last' = last /\ (poll'.at # "got" \/ poll' = poll)
  BY <1>4 DEF TargetFits
<1>5. ASSUME NEW c \in Calls, Finish(c) PROVE TargetFits'
  <2>1. poll'.at = "asked" \/ poll' = poll
    BY <1>5 DEF Finish, NoPoll
  <2> QED  BY <1>4, <1>5, <2>1 DEF Finish, hubVars, history
<1>6. CASE Ask \/ PollFails \/ PollApplied
  <2>1. poll'.at # "got"
    BY <1>6 DEF Ask, PollFails, PollApplied, NoPoll
  <2> QED  BY <1>4, <1>6, <2>1 DEF Ask, PollFails, PollApplied, hubVars, history
<1>7. CASE UNCHANGED <<target, last, poll>>
  BY <1>4, <1>7
<1> QED
  BY <1>1, <1>2, <1>3, <1>5, <1>6, <1>7
     DEF Next, CallStep, Travel, Other, Deliver, Begin, CallFails, Answered, vars, hubVars, history

-----------------------------------------------------------------------------
(* Calls that overlap.                                                     *)

\* What a call ends with: a stop is recorded for the model's target, and nothing else
\* starts one.
LEMMA FinishEffect ==
  ASSUME TypeOK, NEW c \in Calls, Finish(c)
  PROVE  /\ call' \in [Calls -> Call] /\ ~Busy(c)'
         /\ \A d \in Calls \ {c} : call'[d] = call[d]
         /\ call[c].want = Stop => requested' /\ stopTarget' = held.target
         /\ call[c].want # Stop => (requested' => requested) /\ stopTarget' = stopTarget
<1>1. /\ call' \in [Calls -> Call] /\ call'[c] = NoCall
      /\ \A d \in Calls \ {c} : call'[d] = call[d]
  BY NonesFit, PutEffect DEF Finish
<1> DEFINE flag == requested \/ call[c].want = Stop
           t == IF call[c].want = Stop THEN held.target ELSE stopTarget
<1>2. flag \in BOOLEAN /\ t \in Levels /\ held \in Known
  BY DEF TypeOK, Known
<1>3. stopTarget' = t
  BY DEF Finish
<1>4. requested' = flag \/ Write(held, flag, t)
  BY DEF Finish
<1> HIDE DEF flag, t
<1>5. requested' => flag
  BY <1>2, <1>4, WriteEffect
<1>6. flag /\ held.target = t => requested'
  BY <1>2, <1>4, WriteEffect
<1>7. CASE call[c].want = Stop
  <2>1. flag /\ t = held.target
    BY <1>7 DEF flag, t
  <2> QED  BY <1>1, <1>3, <1>6, <1>7, <2>1 DEF Busy, NoCall
<1>8. CASE call[c].want # Stop
  <2>1. (flag <=> requested) /\ t = stopTarget
    BY <1>8 DEF flag, t, TypeOK
  <2> QED  BY <1>1, <1>3, <1>5, <1>8, <2>1 DEF Busy, NoCall
<1> QED  BY <1>7, <1>8

\* A call that moves on to another phase keeps what it asks for, and the others are as before.
LEMMA PhaseEffect ==
  ASSUME TypeOK, NEW c \in Calls, NEW at \in {"taken", "answered"},
         Put(c, [call[c] EXCEPT !.at = at])
  PROVE  /\ call' \in [Calls -> Call]
         /\ call'[c].at = at /\ call'[c].want = call[c].want /\ call'[c].alone = call[c].alone
         /\ \A d \in Calls \ {c} : call'[d] = call[d]
<1> DEFINE r == [call[c] EXCEPT !.at = at]
<1>1. r \in Call /\ r.at = at /\ r.want = call[c].want /\ r.alone = call[c].alone
  BY DEF TypeOK, Call
<1> HIDE DEF r
<1>2. Put(c, r)
  BY DEF r
<1> QED  BY <1>1, <1>2, PutEffect

LEMMA AloneStep == TypeOK /\ AloneFits /\ [Next]_vars => AloneFits'
<1> SUFFICES ASSUME TypeOK, AloneFits, [Next]_vars, NEW c \in Calls
             PROVE  /\ Busy(c)' /\ call'[c].alone => \A d \in Calls \ {c} : ~Busy(d)'
                    /\ call'[c].at = "sent" /\ call'[c].alone /\ call'[c].want # Stop
                         => ~requested'
  BY DEF AloneFits
<1> USE DEF AloneFits, Busy
<1>1. CASE UNCHANGED <<call, requested>>
  BY <1>1
<1>2. CASE Deliver
  <2>1. held' \in Known
    BY <1>2, TypeStep, <1>2 DEF Deliver, TypeOK, Known
  <2>2. requested' => requested
    BY <1>2, <2>1, WriteEffect DEF Deliver, TypeOK
  <2> QED  BY <1>2, <2>2 DEF Deliver
<1>3. CASE PollApplied
  <2>1. requested' => requested
    BY <1>3, WriteEffect DEF PollApplied, TypeOK
  <2> QED  BY <1>3, <2>1, AppliedEffect
<1>4. ASSUME NEW b \in Calls, NEW want \in Levels \cup {Stop}, Begin(b, want)
      PROVE  /\ Busy(c)' /\ call'[c].alone => \A d \in Calls \ {c} : ~Busy(d)'
             /\ call'[c].at = "sent" /\ call'[c].alone /\ call'[c].want # Stop => ~requested'
  <2>1. Send(b, want) /\ ~Busy(b) /\ requested' = (requested /\ want = Stop)
    BY <1>4 DEF Begin, Send
  <2>2. CASE c = b
    <3>1. call'[c] = [at |-> "sent", want |-> want, on |-> TRUE, alone |-> Idle]
      BY <2>1, <2>2, SendEffect
    <3>2. \A d \in Calls \ {c} : call'[d].at = call[d].at
      BY <2>1, <2>2, SendEffect
    <3>3. call'[c].want = want /\ (call'[c].alone => Idle)
      BY <3>1
    <3>4. Idle => \A d \in Calls \ {c} : ~Busy(d)'
      BY <3>2 DEF Idle
    <3>5. want # Stop => ~requested'
      BY <2>1
    <3> QED  BY <3>3, <3>4, <3>5
  <2>3. CASE c # b
    <3>1. /\ call'[c].at = call[c].at
          /\ Busy(c) => ~call'[c].alone
      BY <2>1, <2>3, SendEffect
    <3> QED  BY <3>1
  <2> QED  BY <2>2, <2>3
<1>5. ASSUME NEW b \in Calls, Taken(b) \/ Answered(b)
      PROVE  /\ Busy(c)' /\ call'[c].alone => \A d \in Calls \ {c} : ~Busy(d)'
             /\ call'[c].at = "sent" /\ call'[c].alone /\ call'[c].want # Stop => ~requested'
  <2>1. PICK at \in {"taken", "answered"} : Put(b, [call[b] EXCEPT !.at = at])
    BY <1>5 DEF Taken, Answered
  <2>2. requested' = requested /\ Busy(b)
    BY <1>5 DEF Taken, Answered, stopVars
  <2>3. \A d \in Calls : (Busy(d)' <=> Busy(d)) /\ call'[d].alone = call[d].alone
    BY <2>1, <2>2, PhaseEffect
  <2>4. call'[c].at = "sent" => call'[c] = call[c]
    BY <2>1, PhaseEffect
  <2> QED  BY <2>2, <2>3, <2>4
<1>6. ASSUME NEW b \in Calls, CallFails(b)
      PROVE  /\ Busy(c)' /\ call'[c].alone => \A d \in Calls \ {c} : ~Busy(d)'
             /\ call'[c].at = "sent" /\ call'[c].alone /\ call'[c].want # Stop => ~requested'
  <2>1. call'[b] = NoCall /\ \A d \in Calls \ {b} : call'[d] = call[d]
    BY <1>6, NonesFit, PutEffect DEF CallFails
  <2> QED  BY <1>6, <2>1 DEF CallFails, NoCall, stopVars
<1>7. ASSUME NEW b \in Calls, Finish(b)
      PROVE  /\ Busy(c)' /\ call'[c].alone => \A d \in Calls \ {c} : ~Busy(d)'
             /\ call'[c].at = "sent" /\ call'[c].alone /\ call'[c].want # Stop => ~requested'
  <2>1. Busy(b)
    BY <1>7 DEF Finish
  <2> QED  BY <1>7, <2>1, FinishEffect
<1> QED
  BY <1>1, <1>2, <1>3, <1>4, <1>5, <1>6, <1>7
     DEF Next, CallStep, Travel, Other, Ask, HubAnswers, PollFails, vars, stopVars
-----------------------------------------------------------------------------
(* A stop stays.                                                           *)

LEMMA StopStep ==
  TypeOK /\ MovingFits /\ TargetFits /\ AloneFits /\ StopKept /\ [Next]_vars => StopKept'
<1> DEFINE Stops == \A c \in Calls : Holds(c) => call[c].want = Stop
           Near == held.target = target \/ target = level
           Marked == requested /\ stopTarget = held.target
           Given == held.target = target /\ target = level
<1> SUFFICES ASSUME TypeOK, MovingFits, TargetFits, AloneFits, StopKept, [Next]_vars,
                    OurStop', ~crossed'
             PROVE  Stops' /\ Near' /\ (Quiet' => Marked' \/ Given')
  BY DEF StopKept
<1>0. OurStop /\ ~crossed => Stops /\ Near /\ (Quiet => Marked \/ Given)
  BY DEF StopKept
<1>1. CASE Travel
  BY <1>1 DEF Travel, OurStop, MovingFits, history
<1>2. ASSUME NEW want \in Levels \cup {Stop}, Other(want) PROVE FALSE
  <2>1. last' = [what |-> want, ours |-> FALSE]
    BY <1>2 DEF Other, Take
  <2> QED  BY <2>1 DEF OurStop
<1>3. CASE Deliver
  <2>1. held'.target = held.target /\ held' \in Known
    BY <1>3, TypeStep DEF Deliver, TypeOK, Known
  <2>2. requested' <=> requested /\ held'.target = stopTarget
    BY <1>3, <2>1, WriteEffect DEF Deliver, TypeOK
  <2>3. Marked => Marked'
    BY <1>3, <2>1, <2>2 DEF Deliver
  <2>4. UNCHANGED <<level, target, call, last, crossed>>
    BY <1>3 DEF Deliver, hubVars, history
  <2>5. Stops' = Stops /\ Near' = Near /\ Given' = Given /\ Quiet' = Quiet
    BY <2>1, <2>4 DEF Holds, Quiet, Busy
  <2> QED  BY <1>0, <2>3, <2>4, <2>5 DEF OurStop
<1>4. CASE PollApplied
  <2>1. OurStop /\ ~crossed /\ ~poll.old /\ poll.at = "got"
    BY <1>4 DEF PollApplied, Cured, OurStop
  <2>2. held'.target = target
    BY <1>4, <2>1 DEF PollApplied, TargetFits
  <2>3. requested' <=> requested /\ held'.target = stopTarget
    BY <1>4, WriteEffect DEF PollApplied, TypeOK
  <2>4. UNCHANGED <<level, target, stopTarget>>
    BY <1>4 DEF PollApplied, hubVars
  <2>5. Marked \/ Given => Marked' \/ Given'
    BY <1>0, <2>1, <2>2, <2>3, <2>4
  <2>6. Stops' /\ (Quiet' => Quiet)
    BY <1>0, <1>4, <2>1, AppliedEffect DEF Holds, Quiet, Busy
  <2> QED  BY <1>0, <2>1, <2>2, <2>4, <2>5, <2>6
<1>5. ASSUME NEW b \in Calls, NEW want \in Levels \cup {Stop}, Begin(b, want)
      PROVE  Stops' /\ Near' /\ (Quiet' => Marked' \/ Given')
  <2>1. Send(b, want) /\ ~Busy(b) /\ requested' = (requested /\ want = Stop)
    BY <1>5 DEF Begin, Send
  <2>2. UNCHANGED <<level, target, held, stopTarget, last, crossed>>
    BY <1>5 DEF Begin, hubVars, history
  <2>3. call'[b].at = "sent" /\ call'[b].want = want
    <3>1. call'[b] = [at |-> "sent", want |-> want, on |-> TRUE, alone |-> Idle]
      BY <2>1, SendEffect
    <3> QED  BY <3>1
  <2>4. \A d \in Calls \ {b} : call'[d].at = call[d].at /\ call'[d].want = call[d].want
    BY <2>1, SendEffect
  <2>5. Stops => Stops'
    BY <2>3, <2>4 DEF Holds
  <2>6. Quiet' => Quiet /\ want = Stop
    BY <2>1, <2>3, <2>4 DEF Quiet, Busy
  <2> QED  BY <1>0, <2>1, <2>2, <2>5, <2>6 DEF OurStop
<1>6. ASSUME NEW b \in Calls, Taken(b)
      PROVE  Stops' /\ Near' /\ (Quiet' => Marked' \/ Given')
  <2>1. call[b].at = "sent" /\ Put(b, [call[b] EXCEPT !.at = "taken"])
    BY <1>6 DEF Taken
  <2>2. call[b].want \in Levels \cup {Stop}
    BY DEF TypeOK
  <2>3. last' = [what |-> call[b].want, ours |-> TRUE] /\ Take(call[b].want, TRUE)
    BY <1>6 DEF Taken, Take
  <2>4. call[b].want = Stop
    BY <2>3 DEF OurStop
  <2>5. call[b].alone /\ held.target = target
    BY <1>6, <2>4 DEF Taken
  <2>6. held' = held /\ level' = level /\ target' \in {target, level}
    BY <1>6, <2>2, <2>3, <2>4, TakeEffect DEF Taken
  <2>7. /\ call'[b].at = "taken" /\ call'[b].want = Stop
        /\ \A d \in Calls \ {b} : call'[d] = call[d]
    BY <2>1, <2>4, PhaseEffect
  <2>8. \A d \in Calls \ {b} : ~Busy(d)
    BY <2>1, <2>5 DEF AloneFits, Busy
  <2>9. Stops' /\ ~Quiet'
    BY <2>7, <2>8 DEF Holds, Quiet, Busy
  <2> QED  BY <2>5, <2>6, <2>9
<1>7. ASSUME NEW b \in Calls, CallFails(b)
      PROVE  Stops' /\ Near' /\ (Quiet' => Marked' \/ Given')
  <2>1. /\ call'[b] = NoCall /\ \A d \in Calls \ {b} : call'[d] = call[d]
    BY <1>7, NonesFit, PutEffect DEF CallFails
  <2>2. ~crossed /\ call[b].want = Stop /\ call[b].at = "sent"
    BY <1>7 DEF CallFails
  <2>3. UNCHANGED <<level, target, held, requested, stopTarget, last>>
    BY <1>7 DEF CallFails, hubVars, stopVars
  <2>4. (Stops => Stops') /\ (Quiet' => Quiet)
    BY <2>1, <2>2 DEF Holds, Quiet, Busy, NoCall
  <2> QED  BY <1>0, <2>2, <2>3, <2>4 DEF OurStop
<1>8. ASSUME NEW b \in Calls, Answered(b)
      PROVE  Stops' /\ Near' /\ (Quiet' => Marked' \/ Given')
  <2>1. /\ call[b].at = "taken" /\ Put(b, [call[b] EXCEPT !.at = "answered"])
        /\ UNCHANGED <<level, target, requested, stopTarget, last>>
    BY <1>8 DEF Answered, hubVars, stopVars
  <2>2. OurStop /\ ~crossed
    BY <1>8, <2>1 DEF Answered, OurStop
  <2>3. call[b].want = Stop
    BY <1>0, <2>1, <2>2 DEF Holds
  <2>4. held' = held
    BY <1>8, <2>3 DEF Answered
  <2>5. /\ call'[b].at = "answered" /\ call'[b].want = Stop
        /\ \A d \in Calls \ {b} : call'[d] = call[d]
    BY <2>1, <2>3, PhaseEffect
  <2>6. Stops' /\ ~Quiet'
    BY <1>0, <2>2, <2>5 DEF Holds, Quiet, Busy
  <2> QED  BY <1>0, <2>1, <2>2, <2>4, <2>6
<1>9. ASSUME NEW b \in Calls, Finish(b)
      PROVE  Stops' /\ Near' /\ (Quiet' => Marked' \/ Given')
  <2>1. call[b].at = "answered" /\ UNCHANGED <<level, target, held, last, crossed>>
    BY <1>9 DEF Finish, hubVars, history
  <2>2. OurStop /\ ~crossed
    BY <2>1 DEF OurStop
  <2>3. call[b].want = Stop
    BY <1>0, <2>1, <2>2 DEF Holds
  <2>4. Marked'
    BY <1>9, <2>1, <2>3, FinishEffect
  <2>5. Stops'
    BY <1>0, <1>9, <2>2, FinishEffect DEF Holds, Busy
  <2> QED  BY <1>0, <2>1, <2>2, <2>4, <2>5
<1>10. CASE UNCHANGED <<level, target, held, requested, stopTarget, call, last, crossed>>
  BY <1>0, <1>10 DEF OurStop, Holds, Quiet, Busy
<1> QED
  BY <1>1, <1>2, <1>3, <1>4, <1>5, <1>6, <1>7, <1>8, <1>9, <1>10
     DEF Next, CallStep, Ask, HubAnswers, PollFails, vars, hubVars, stopVars, history

-----------------------------------------------------------------------------
(* A movement is shown.                                                    *)

LEMMA MoveStep ==
  TypeOK /\ TargetFits /\ AloneFits /\ MoveKept /\ [Next]_vars => MoveKept'
<1> DEFINE Ours == last.ours /\ last.what # Stop
           Moves == \A c \in Calls : Holds(c) => call[c].want = last.what
           Told == held.target = last.what
           Telling == \E c \in Calls : call[c].at = "taken"
<1> SUFFICES ASSUME TypeOK, TargetFits, AloneFits, MoveKept, [Next]_vars, Ours', ~crossed'
             PROVE  ~requested' /\ Moves' /\ (Told' \/ Telling')
  BY DEF MoveKept
<1>0. Ours /\ ~crossed => ~requested /\ Moves /\ (Told \/ Telling)
  BY DEF MoveKept
<1>1. ASSUME NEW want \in Levels \cup {Stop}, Other(want) PROVE FALSE
  <2>1. last' = [what |-> want, ours |-> FALSE]
    BY <1>1 DEF Other, Take
  <2> QED  BY <2>1
<1>2. CASE Deliver
  <2>1. held'.target = held.target /\ held' \in Known
    BY <1>2, TypeStep DEF Deliver, TypeOK, Known
  <2>2. requested' => requested
    BY <1>2, <2>1, WriteEffect DEF Deliver, TypeOK
  <2>3. UNCHANGED <<call, last, crossed>>
    BY <1>2 DEF Deliver, history
  <2> QED  BY <1>0, <2>1, <2>2, <2>3 DEF Holds
<1>3. CASE PollApplied
  <2>1. last' = last /\ ~poll.old /\ poll.at = "got" /\ (crossed => Cured)
    BY <1>3 DEF PollApplied
  <2>2. held'.target = last.what
    BY <1>3, <2>1 DEF PollApplied, TargetFits
  <2>3. requested' <=> requested /\ held'.target = stopTarget
    BY <1>3, WriteEffect DEF PollApplied, TypeOK
  <2>4. CASE crossed
    <3>1. Idle /\ ~StopHolds(poll.got, requested, stopTarget)
      BY <2>1, <2>4 DEF Cured
    <3>2. ~requested'
      BY <1>3, <2>3, <3>1 DEF StopHolds, PollApplied
    <3>3. Moves'
      BY <1>3, <3>1, AppliedEffect DEF Idle, Busy, Holds
    <3> QED  BY <2>1, <2>2, <3>2, <3>3
  <2>5. CASE ~crossed
    <3>1. Moves'
      BY <1>0, <1>3, <2>1, <2>5, AppliedEffect DEF Busy, Holds
    <3> QED  BY <1>0, <2>1, <2>2, <2>3, <2>5, <3>1
  <2> QED  BY <2>4, <2>5
<1>4. ASSUME NEW b \in Calls, NEW want \in Levels \cup {Stop}, Begin(b, want)
      PROVE  ~requested' /\ Moves' /\ (Told' \/ Telling')
  <2>1. Send(b, want) /\ ~Busy(b) /\ (requested' => requested)
    BY <1>4 DEF Begin, Send
  <2>2. UNCHANGED <<held, last, crossed>>
    BY <1>4 DEF Begin, history
  <2>3. call'[b].at = "sent"
    <3>1. call'[b] = [at |-> "sent", want |-> want, on |-> TRUE, alone |-> Idle]
      BY <2>1, SendEffect
    <3> QED  BY <3>1
  <2>4. \A d \in Calls \ {b} : call'[d].at = call[d].at /\ call'[d].want = call[d].want
    BY <2>1, SendEffect
  <2>5. (Moves => Moves') /\ (Telling => Telling')
    BY <2>1, <2>2, <2>3, <2>4 DEF Holds, Busy
  <2> QED  BY <1>0, <2>1, <2>2, <2>5
<1>5. ASSUME NEW b \in Calls, Taken(b)
      PROVE  ~requested' /\ Moves' /\ (Told' \/ Telling')
  <2>1. /\ call[b].at = "sent" /\ Put(b, [call[b] EXCEPT !.at = "taken"]) /\ call[b].alone
        /\ requested' = requested
    BY <1>5 DEF Taken, stopVars
  <2>2. last' = [what |-> call[b].want, ours |-> TRUE]
    BY <1>5 DEF Taken, Take
  <2>3. call[b].want # Stop
    BY <2>2
  <2>4. ~requested' /\ \A d \in Calls \ {b} : ~Busy(d)
    BY <2>1, <2>3 DEF AloneFits, Busy
  <2>5. /\ call'[b].at = "taken" /\ call'[b].want = call[b].want
        /\ \A d \in Calls \ {b} : call'[d] = call[d]
    BY <2>1, PhaseEffect
  <2> QED  BY <2>2, <2>4, <2>5 DEF Holds, Busy
<1>6. ASSUME NEW b \in Calls, CallFails(b)
      PROVE  ~requested' /\ Moves' /\ (Told' \/ Telling')
  <2>1. /\ call'[b] = NoCall /\ \A d \in Calls \ {b} : call'[d] = call[d]
    BY <1>6, NonesFit, PutEffect DEF CallFails
  <2>2. ~crossed /\ call[b].at = "sent" /\ UNCHANGED <<held, requested, last>>
    BY <1>6 DEF CallFails, stopVars
  <2>3. (Moves => Moves') /\ (Telling => Telling')
    BY <2>1, <2>2 DEF Holds, NoCall
  <2> QED  BY <1>0, <2>2, <2>3
<1>7. ASSUME NEW b \in Calls, Answered(b)
      PROVE  ~requested' /\ Moves' /\ (Told' \/ Telling')
  <2>1. /\ call[b].at = "taken" /\ Put(b, [call[b] EXCEPT !.at = "answered"])
        /\ UNCHANGED <<requested, last>>
    BY <1>7 DEF Answered, stopVars
  <2>2. Ours /\ ~crossed
    BY <1>7, <2>1 DEF Answered
  <2>3. call[b].want = last.what /\ call[b].want # Stop
    BY <1>0, <2>1, <2>2 DEF Holds
  <2>4. held' = [held EXCEPT !.target = call[b].want]
    BY <1>7, <2>3 DEF Answered
  <2>5. held'.target = last.what
    BY <2>3, <2>4 DEF TypeOK, Known
  <2>6. /\ call'[b].want = call[b].want /\ \A d \in Calls \ {b} : call'[d] = call[d]
    BY <2>1, PhaseEffect
  <2>7. Moves'
    BY <1>0, <2>1, <2>2, <2>3, <2>6 DEF Holds
  <2> QED  BY <1>0, <2>1, <2>2, <2>5, <2>7
<1>8. ASSUME NEW b \in Calls, Finish(b)
      PROVE  ~requested' /\ Moves' /\ (Told' \/ Telling')
  <2>1. call[b].at = "answered" /\ UNCHANGED <<held, last, crossed>>
    BY <1>8 DEF Finish, history
  <2>2. call[b].want # Stop
    BY <1>0, <2>1 DEF Holds
  <2>3. ~requested'
    BY <1>0, <1>8, <2>1, <2>2, FinishEffect
  <2>4. ~Busy(b)' /\ \A d \in Calls \ {b} : call'[d] = call[d]
    BY <1>8, FinishEffect
  <2>5. (Moves => Moves') /\ (Telling => Telling')
    BY <2>1, <2>4 DEF Holds, Busy
  <2> QED  BY <1>0, <2>1, <2>3, <2>5
<1>9. CASE UNCHANGED <<held, requested, call, last, crossed>>
  BY <1>0, <1>9 DEF Holds
<1> QED
  BY <1>1, <1>2, <1>3, <1>4, <1>5, <1>6, <1>7, <1>8, <1>9
     DEF Next, CallStep, Travel, Ask, HubAnswers, PollFails, vars, stopVars, history

-----------------------------------------------------------------------------
(* Theorems.                                                               *)

LEMMA InitHolds == Init => IInv
<1> SUFFICES ASSUME Init PROVE IInv
  OBVIOUS
<1>1. TypeOK
  BY TypeInit
<1>2. MovingFits /\ TargetFits
  BY DEF Init, MovingFits, TargetFits, NoPoll
<1>3. \A c \in Calls : call[c].at = "none"
  BY DEF Init, NoCall
<1>4. AloneFits
  BY <1>3 DEF AloneFits, Busy
<1>5. StopKept /\ MoveKept
  BY DEF Init, StopKept, MoveKept, OurStop
<1> QED  BY <1>1, <1>2, <1>4, <1>5 DEF IInv

LEMMA InvHolds == Spec => []IInv
<1>1. IInv /\ [Next]_vars => IInv'
  BY TypeStep, MovingStep, TargetStep, AloneStep, StopStep, MoveStep DEF IInv
<1> QED  BY InitHolds, <1>1, PTL DEF Spec

\* Every variable keeps its type: in particular a blind that moves stays between its ends
\* (Travel), and what the hub reports and answers is a level.
THEOREM TypeCorrect == Spec => []TypeOK
<1>1. IInv => TypeOK
  BY DEF IInv
<1> QED  BY InvHolds, <1>1, PTL

\* A blind that was stopped is not shown to move again while its level is known, whatever
\* polls, reports and further calls overlap (async_stop_cover, stop_requested, async_update).
THEOREM StopIsKept == Spec => []StopStays
<1>1. IInv => StopStays
  <2> SUFFICES ASSUME IInv, OurStop, Idle, ~crossed, held.level = level PROVE Reads = "still"
    BY DEF StopStays
  <2>1. Quiet
    BY DEF Quiet, Idle
  <2>2. \/ requested /\ stopTarget = held.target
        \/ held.target = target /\ target = level
    BY <2>1 DEF IInv, StopKept
  <2>3. StopHolds(held, requested, stopTarget) \/ held.level = held.target
    BY <2>2 DEF StopHolds
  <2> QED  BY <2>3 DEF Reads, Way
<1> QED  BY InvHolds, <1>1, PTL

\* A blind that was sent to an end is shown to move there until it is known to have arrived
\* (async_open_cover, async_close_cover, is_opening, is_closing).
THEOREM MoveIsShown == Spec => []MovementShown
<1>1. IInv => MovementShown
  <2> SUFFICES ASSUME IInv, last.ours, last.what \in {0, Shut}, Idle, ~crossed,
                      held.level # last.what
               PROVE  Reads = IF last.what = 0 THEN "opening" ELSE "closing"
    BY DEF MovementShown
  <2>1. last.what # Stop
    BY LevelsFit
  <2>2. ~requested /\ held.target = last.what
    BY <2>1 DEF IInv, MoveKept, Idle, Busy
  <2>3. ~StopHolds(held, requested, stopTarget)
    BY <2>2 DEF StopHolds
  <2> QED  BY <2>2, <2>3, LevelsFit DEF Reads, Way
<1> QED  BY InvHolds, <1>1, PTL
=============================================================================
