----------------------------- MODULE EchoProofs -----------------------------
(***************************************************************************)
(* Theorems about what the hub tells more than once, late or not at all.   *)
(* First, of the presses of remote controls: no event without a press, one *)
(* event for a press, none missed, and their distance.  The invariant says *)
(* what the messages on their way tell about the presses, and in which     *)
(* order.  Three of the theorems need a scene of which some trigger has    *)
(* fired.  Second, of a bulb and of the device set it belongs to, whose    *)
(* commands the hub echoes: what the model has and what is shown once      *)
(* nothing is under way, whatever the order of calls, writes and echoes.   *)
(***************************************************************************)
EXTENDS RemotePress, LightCommands, FiniteSetTheorems, SequenceTheorems, TLAPS

-----------------------------------------------------------------------------
(* The invariant.                                                          *)

\* The events fired, whatever their number.
Events ==
  {e \in [key : Keys, at : Nat] : \E i \in DOMAIN fired[e.key] : fired[e.key][i] = e.at}
Told(p) == \E e \in Events : e.key = p.key /\ e.at \in {p.at, p.rel}
Ghostless == \A e \in Events : \E p \in presses : e.key = p.key /\ e.at \in {p.at, p.rel}

LEMMA EventsType == \A e \in Events : e.key \in Keys /\ e.at \in Nat
BY DEF Events

\* What the hub has yet to send is of the present time.
ClockFits ==
  /\ now >= Start
  /\ \A p \in presses : Start <= p.at /\ p.at <= now /\ p.at <= p.rel
  /\ \A p \in toScene : p.at = now /\ p.key \in SceneKeys
  /\ \A p \in toPress : p.rel >= now /\ RemoteOf[p.key] \in PressSenders

\* A key is let go before it is pressed again.
PressesApart ==
  \A p, q \in presses : p.key = q.key /\ p # q => p.rel < q.at \/ q.rel < p.at

\* The times of a scene are those of the presses known, or of history, and none is later
\* than t.
TriggersFit(trig, last, t, known) ==
  /\ last <= t
  /\ \A k \in SceneKeys :
       /\ trig[k] <= t
       /\ trig[k] \in {Never, 1} \/ \E p \in known : p.key = k /\ p.at = trig[k]
  /\ FreshScenes \/ \E k \in SceneKeys : trig[k] # Never

SceneFits == TriggersFit(triggeredAt, lastTriggered, now, presses)

\* A message tells, at time t, of the presses known.
MessageFits(m, t, known) ==
  /\ Start <= m.time /\ m.time <= t
  /\ m.kind = "press" => /\ RemoteOf[m.key] \in PressSenders
                         /\ \E p \in known : p.key = m.key /\ p.rel = m.time
  /\ m.kind = "scene" => TriggersFit(m.trig, m.last, m.time, known)

\* The messages on their way tell what was, in the order in which it happened.
QueueFits ==
  /\ \A i \in 1 .. Len(queue) : MessageFits(queue[i], now, presses)
  /\ \A i, j \in 1 .. Len(queue) : i < j => queue[i].time <= queue[j].time

\* No event is later than a message on its way, and the map has the last event of each key
\* since the start of Home Assistant.
EventsFit ==
  /\ \A e \in Events : e.at <= now /\ \A i \in 1 .. Len(queue) : e.at <= queue[i].time
  /\ \A k \in Keys : lastFired[k] # Never => [key |-> k, at |-> lastFired[k]] \in Events
  /\ \A e \in Events : lastFired[e.key] # Never => e.at <= lastFired[e.key]

\* Whatever happened before the start of Home Assistant is too old for what comes after it.
\* A key without a time in the map has fired nothing since.
HistoryFits ==
  \A e \in Events : lastFired[e.key] = Never =>
    /\ e.at + Stale + Debounce <= now
    /\ \A i \in 1 .. Len(queue) : e.at + Stale + Debounce <= queue[i].time

\* A remote that was known to send its presses still is, or the press is too old to be
\* taken from a scene.
WarmFits ==
  \A p \in presses : ~p.cold /\ Cold(p.key) =>
    /\ p.at + Stale < now
    /\ \A i \in 1 .. Len(queue) : p.at + Stale < queue[i].time

\* ... so the scene path reports none of its presses.
WarmQuiet ==
  ~FreshScenes => \A p \in presses :
    ~p.cold /\ p.rel # p.at => [key |-> p.key, at |-> p.at] \notin Events

\* The message that is sure to report a press: the remote's own, or the scene's.
Tells(m, p) ==
  IF RemoteOf[p.key] \in PressSenders
  THEN m.kind = "press" /\ m.key = p.key /\ m.time = p.rel
  ELSE m.kind = "scene" /\ m.time = p.at /\ m.trig[p.key] = p.at

\* It has yet to be sent, or is on its way.
Untold(p) == IF RemoteOf[p.key] \in PressSenders THEN p \in toPress ELSE p \in toScene
Pending(p) == Untold(p) \/ \E i \in 1 .. Len(queue) : Tells(queue[i], p)

Counts(p) ==
  /\ p.key \in SceneKeys \/ RemoteOf[p.key] \in PressSenders
  /\ RemoteOf[p.key] \in Registered
  /\ Isolated(p)

NothingMissed ==
  ~FreshScenes /\ ~lost => \A p \in presses : Counts(p) => Told(p) \/ Pending(p)

GhostFree == ~FreshScenes => Ghostless

IInv ==
  /\ TypeOK
  /\ ClockFits /\ PressesApart /\ SceneFits /\ QueueFits
  /\ EventsFit /\ HistoryFits /\ EventsSpaced
  /\ GhostFree /\ WarmFits /\ WarmQuiet /\ NothingMissed

-----------------------------------------------------------------------------
(* What the hub sends.                                                     *)

\* The queue grows by messages of S.
Later(S) ==
  /\ queue' \in Seq(Message) /\ Len(queue) <= Len(queue')
  /\ \A i \in 1 .. Len(queue) : queue'[i] = queue[i]
  /\ \A i \in 1 .. Len(queue') : i > Len(queue) => queue'[i] \in S

LEMMA SendOne ==
  ASSUME TypeOK, NEW m \in Message, Send(<<m>>)
  PROVE  Later({m}) /\ Len(queue') = Len(queue) + 1 /\ queue'[Len(queue) + 1] = m
<1>1. queue \in Seq(Message) /\ <<m>> \in Seq(Message)
  BY DEF TypeOK
<1>2. queue' = queue \o <<m>>
  BY DEF Send
<1>3. Len(<<m>>) = 1 /\ <<m>>[1] = m
  OBVIOUS
<1> QED  BY <1>1, <1>2, <1>3, ConcatProperties DEF Later

LEMMA SendTwo ==
  ASSUME TypeOK, NEW m \in Message, NEW n \in Message, Send(<<m, n>>)
  PROVE  Later({m, n}) /\ Len(queue') = Len(queue) + 2 /\ queue'[Len(queue) + 1] = m
<1>1. queue \in Seq(Message) /\ <<m, n>> \in Seq(Message)
  BY DEF TypeOK
<1>2. queue' = queue \o <<m, n>>
  BY DEF Send
<1>3. Len(<<m, n>>) = 2 /\ <<m, n>>[1] = m /\ <<m, n>>[2] = n
  OBVIOUS
<1>4. Len(queue') = Len(queue) + 2 /\ queue' \in Seq(Message)
  BY <1>1, <1>2, <1>3, ConcatProperties
<1>5. \A i \in 1 .. Len(queue) : queue'[i] = queue[i]
  BY <1>1, <1>2, <1>3, ConcatProperties
<1>6. queue'[Len(queue) + 1] = m /\ queue'[Len(queue) + 2] = n
  BY <1>1, <1>2, <1>3, ConcatProperties
<1> QED  BY <1>1, <1>4, <1>5, <1>6 DEF Later

\* A message of the scene is one.
LEMMA SceneMessageFits ==
  ASSUME TypeOK, NEW trig \in [SceneKeys -> Nat], NEW last \in Nat
  PROVE  /\ SceneMessage(trig, last) \in Message
         /\ SceneMessage(trig, last).kind = "scene" /\ SceneMessage(trig, last).time = now
         /\ SceneMessage(trig, last).trig = trig /\ SceneMessage(trig, last).last = last
BY DEF TypeOK, SceneMessage, Message

Sending == (\E p \in toScene : UpdateScene(p)) \/ (\E p \in toPress : Release(p)) \/ TouchScene
Receiving == ReceiveScene \/ ReceivePress

-----------------------------------------------------------------------------
(* Types.                                                                  *)

LEMMA TypeInit == Init => TypeOK
<1> SUFFICES ASSUME Init PROVE TypeOK
  OBVIOUS
<1>1. now \in Nat /\ lastTriggered \in Nat
  BY TimesAssumption DEF Init, Start, Never
<1>2. triggeredAt \in [SceneKeys -> Nat] /\ lastFired \in [Keys -> Nat]
  BY DEF Init, Never
<1>3. queue \in Seq(Message)
  BY DEF Init
<1>4. fired \in [Keys -> Seq(Nat)]
  BY DEF Init
<1> QED  BY <1>1, <1>2, <1>3, <1>4 DEF Init, TypeOK

\* What the events fired for ks leave.
LEMMA FireEffect ==
  ASSUME TypeOK, NEW ks \in SUBSET Keys, NEW at, \A k \in ks : at[k] \in Nat, Fire(ks, at)
  PROVE  /\ lastFired' \in [Keys -> Nat] /\ fired' \in [Keys -> Seq(Nat)]
         /\ \A k \in ks : lastFired'[k] = at[k] /\ fired'[k] = Append(fired[k], lastFired'[k])
         /\ \A k \in Keys \ ks : lastFired'[k] = lastFired[k] /\ fired'[k] = fired[k]
         /\ Events' = Events \cup {[key |-> k, at |-> lastFired'[k]] : k \in ks}
<1>1. /\ lastFired' \in [Keys -> Nat]
      /\ \A k \in ks : lastFired'[k] = at[k]
      /\ \A k \in Keys \ ks : lastFired'[k] = lastFired[k]
  BY DEF Fire, TypeOK
<1>2. fired \in [Keys -> Seq(Nat)]
  BY DEF TypeOK
<1>3. fired' = [k \in Keys |-> IF k \in ks THEN Append(fired[k], at[k]) ELSE fired[k]]
  BY DEF Fire
<1>4. /\ \A k \in ks : fired'[k] = Append(fired[k], lastFired'[k])
      /\ \A k \in Keys \ ks : fired'[k] = fired[k]
  BY <1>1, <1>3
<1>5. ASSUME NEW k \in Keys PROVE fired'[k] \in Seq(Nat)
  <2>1. fired[k] \in Seq(Nat)
    BY <1>2
  <2>2. CASE k \in ks
    <3>1. lastFired'[k] \in Nat
      BY <1>1
    <3>2. Append(fired[k], lastFired'[k]) \in Seq(Nat)
      BY <2>1, <3>1
    <3> QED  BY <1>4, <2>2, <3>2
  <2>3. CASE k \notin ks
    BY <1>4, <2>1, <2>3
  <2> QED  BY <2>2, <2>3
<1>6. fired' \in [Keys -> Seq(Nat)]
  BY <1>3, <1>5
<1>7. ASSUME NEW k \in Keys, NEW t \in Nat
      PROVE  (\E i \in DOMAIN fired'[k] : fired'[k][i] = t)
               <=> (\E i \in DOMAIN fired[k] : fired[k][i] = t) \/ (k \in ks /\ t = lastFired'[k])
  <2>1. CASE k \notin ks
    BY <1>4, <2>1
  <2>2. CASE k \in ks
    <3> DEFINE s == fired[k]
               n == Len(fired[k]) + 1
    <3>1. /\ s \in Seq(Nat) /\ lastFired'[k] \in Nat /\ n \in Nat
          /\ fired'[k] = Append(s, lastFired'[k])
      BY <1>1, <1>2, <1>4, <2>2
    <3>2. DOMAIN s = 1 .. (n - 1) /\ DOMAIN Append(s, lastFired'[k]) = 1 .. n
      BY <3>1
    <3>3. /\ Append(s, lastFired'[k])[n] = lastFired'[k]
          /\ \A i \in 1 .. (n - 1) : Append(s, lastFired'[k])[i] = s[i]
      BY <3>1
    <3>4. 1 .. n = (1 .. (n - 1)) \cup {n}
      BY <3>1
    <3> HIDE DEF s, n
    <3> QED  BY <2>2, <3>1, <3>2, <3>3, <3>4 DEF s
  <2> QED  BY <2>1, <2>2
<1>8. \A e \in [key : Keys, at : Nat] :
        e \in Events' <=> e \in Events \/ (e.key \in ks /\ e.at = lastFired'[e.key])
  BY <1>7 DEF Events
<1>9. Events' \subseteq [key : Keys, at : Nat] /\ Events \subseteq [key : Keys, at : Nat]
  BY DEF Events
<1>10. \A k \in ks : [key |-> k, at |-> lastFired'[k]] \in [key : Keys, at : Nat]
  BY <1>1
<1>11. \A e \in [key : Keys, at : Nat] :
         e.key \in ks /\ e.at = lastFired'[e.key]
           <=> e \in {[key |-> k, at |-> lastFired'[k]] : k \in ks}
  OBVIOUS
<1>12. Events' = Events \cup {[key |-> k, at |-> lastFired'[k]] : k \in ks}
  BY <1>8, <1>9, <1>10, <1>11
<1> QED  BY <1>1, <1>4, <1>6, <1>12

\* The times parse_scene_update reads: no later than the message, and no older than Stale.
\* Once some trigger of the scene has fired they are the triggers' own.
LEMMA PressesInEffect ==
  ASSUME NEW m \in Message, m.kind = "scene", MessageFits(m, now, presses)
  PROVE  /\ DOMAIN PressesIn(m) \subseteq SceneKeys
         /\ \A k \in DOMAIN PressesIn(m) :
              /\ PressesIn(m)[k] \in Nat \ {Never} /\ PressesIn(m)[k] <= m.time
              /\ m.time <= PressesIn(m)[k] + Stale
         /\ ~FreshScenes => \A k \in SceneKeys :
              /\ k \in DOMAIN PressesIn(m) <=> m.trig[k] # Never /\ m.time - m.trig[k] <= Stale
              /\ k \in DOMAIN PressesIn(m) => PressesIn(m)[k] = m.trig[k]
<1> DEFINE timed == \E k \in SceneKeys : m.trig[k] # Never
           raw == [k \in SceneKeys |-> IF timed THEN m.trig[k] ELSE m.last]
           current == {k \in SceneKeys : /\ timed => m.trig[k] # Never
                                         /\ raw[k] = Never \/ m.time - raw[k] <= Stale}
<1>1. PressesIn(m) = [k \in current |-> IF raw[k] = Never THEN m.time ELSE raw[k]]
  BY DEF PressesIn
<1>2. m.time \in Nat /\ m.last \in Nat /\ m.trig \in [SceneKeys -> Nat]
  BY DEF Message
<1>3. m.last <= m.time /\ Start <= m.time /\ \A k \in SceneKeys : m.trig[k] <= m.time
  BY DEF MessageFits, TriggersFit
<1>4. Start \in Nat /\ Start > 0 /\ Stale \in Nat
  BY TimesAssumption DEF Start
<1>5. ASSUME NEW k \in SceneKeys
      PROVE  /\ raw[k] \in Nat /\ raw[k] <= m.time
             /\ timed => raw[k] = m.trig[k]
  BY <1>2, <1>3
<1>6. ~FreshScenes => timed
  BY DEF MessageFits, TriggersFit
<1> HIDE DEF raw, timed
<1>7. DOMAIN PressesIn(m) = current
  BY <1>1
<1>8. ASSUME NEW k \in current
      PROVE  /\ PressesIn(m)[k] = IF raw[k] = Never THEN m.time ELSE raw[k]
             /\ k \in SceneKeys /\ (raw[k] = Never \/ m.time - raw[k] <= Stale)
  BY <1>1
<1>9. ASSUME NEW k \in current
      PROVE  /\ PressesIn(m)[k] \in Nat \ {Never} /\ PressesIn(m)[k] <= m.time
             /\ m.time <= PressesIn(m)[k] + Stale
  BY <1>2, <1>3, <1>4, <1>5, <1>8 DEF Never
<1>10. ASSUME timed, NEW k \in SceneKeys
       PROVE  /\ k \in current <=> m.trig[k] # Never /\ m.time - m.trig[k] <= Stale
              /\ k \in current => PressesIn(m)[k] = m.trig[k]
  BY <1>5, <1>8, <1>10
<1>11. current \subseteq SceneKeys
  OBVIOUS
<1> HIDE DEF current
<1> QED  BY <1>6, <1>7, <1>9, <1>10, <1>11

-----------------------------------------------------------------------------
(* What a message that is received does.                                   *)

\* The keys ks fire, each at the time the map then has for it.
Received(ks) ==
  /\ ks \subseteq Keys
  /\ lastFired' \in [Keys -> Nat] /\ fired' \in [Keys -> Seq(Nat)]
  /\ \A k \in Keys \ ks : lastFired'[k] = lastFired[k] /\ fired'[k] = fired[k]
  /\ \A k \in ks : fired'[k] = Append(fired[k], lastFired'[k])
  /\ Events' = Events \cup {[key |-> k, at |-> lastFired'[k]] : k \in ks}
  /\ \A k \in ks :
       /\ lastFired'[k] # Never /\ lastFired'[k] <= queue[1].time
       /\ queue[1].time <= lastFired'[k] + Stale
       /\ lastFired[k] = Never \/ lastFired'[k] >= lastFired[k] + Debounce
       /\ \/ queue[1].kind = "scene" /\ Cold(k)
          \/ queue[1].kind = "press" /\ queue[1].key = k /\ lastFired'[k] = queue[1].time
       /\ ~FreshScenes => \E p \in presses : p.key = k /\ lastFired'[k] \in {p.at, p.rel}

\* A press that the message tells fires, unless an event of its key was less than Debounce ago.
Reported(ks) ==
  ~FreshScenes =>
    \A p \in presses :
      /\ Tells(queue[1], p)
      /\ p.key \in SceneKeys \/ RemoteOf[p.key] \in PressSenders
      /\ RemoteOf[p.key] \in Registered
      /\ lastFired[p.key] = Never \/ lastFired[p.key] + Debounce <= p.at
      => p.key \in ks /\ lastFired'[p.key] \in {p.at, p.rel}

LEMMA ReceiveTail ==
  ASSUME TypeOK, Receiving
  PROVE  /\ queue # <<>> /\ Len(queue) >= 1 /\ Head(queue) = queue[1] /\ queue[1] \in Message
         /\ queue' \in Seq(Message) /\ Len(queue') = Len(queue) - 1
         /\ \A i \in 1 .. Len(queue') : queue'[i] = queue[i + 1] /\ i + 1 \in 1 .. Len(queue)
<1>1. queue # <<>> /\ queue' = Tail(queue) /\ queue \in Seq(Message)
  BY DEF Receiving, ReceiveScene, ReceivePress, TypeOK
<1> QED  BY <1>1

LEMMA SceneEffect ==
  ASSUME TypeOK, ClockFits, QueueFits, ReceiveScene
  PROVE  \E ks \in SUBSET Keys : Received(ks) /\ Reported(ks)
<1> DEFINE m == queue[1]
           at == PressesIn(m)
           ks == {k \in DOMAIN at : Fires(k, at[k], TRUE)}
<1>1. Head(queue) = m /\ m \in Message /\ Len(queue) >= 1
  BY ReceiveTail DEF Receiving
<1>2. m.kind = "scene" /\ MessageFits(m, now, presses) /\ Fire(ks, at)
  BY <1>1 DEF ReceiveScene, QueueFits, TypeOK
<1> HIDE DEF m
<1>3. /\ DOMAIN at \subseteq SceneKeys
      /\ \A k \in DOMAIN at : /\ at[k] \in Nat \ {Never} /\ at[k] <= m.time
                              /\ m.time <= at[k] + Stale
      /\ ~FreshScenes => \A k \in SceneKeys :
           /\ k \in DOMAIN at <=> m.trig[k] # Never /\ m.time - m.trig[k] <= Stale
           /\ k \in DOMAIN at => at[k] = m.trig[k]
  BY <1>1, <1>2, PressesInEffect
<1>4. m.time \in Nat /\ m.time >= Start /\ m.trig \in [SceneKeys -> Nat]
  BY <1>1, <1>2 DEF Message, MessageFits
<1> HIDE DEF at
<1>5. ks \subseteq DOMAIN at /\ ks \subseteq Keys
  BY <1>3, KeysAssumption
<1>6. \A k \in ks : at[k] \in Nat
  BY <1>3, <1>5
<1>7. /\ lastFired' \in [Keys -> Nat] /\ fired' \in [Keys -> Seq(Nat)]
      /\ \A k \in ks : lastFired'[k] = at[k] /\ fired'[k] = Append(fired[k], lastFired'[k])
      /\ \A k \in Keys \ ks : lastFired'[k] = lastFired[k] /\ fired'[k] = fired[k]
      /\ Events' = Events \cup {[key |-> k, at |-> lastFired'[k]] : k \in ks}
  BY <1>2, <1>5, <1>6, FireEffect
<1>8. \A k \in ks : Cold(k) /\ (lastFired[k] = Never \/ at[k] - lastFired[k] >= Debounce)
  BY DEF Fires, Cold
<1>9. ASSUME ~FreshScenes, NEW k \in ks
      PROVE  \E p \in presses : p.key = k /\ at[k] \in {p.at, p.rel}
  <2>1. k \in SceneKeys /\ at[k] = m.trig[k] /\ m.trig[k] # Never /\ m.time - m.trig[k] <= Stale
    BY <1>3, <1>5, <1>9
  <2>2. m.trig[k] # 1
    BY <1>4, <2>1, TimesAssumption DEF Start
  <2>3. \E p \in presses : p.key = k /\ p.at = m.trig[k]
    BY <1>2, <2>1, <2>2 DEF MessageFits, TriggersFit
  <2> QED  BY <2>1, <2>3
<1>10. Received(ks)
  <2>1. ASSUME NEW k \in ks
        PROVE  lastFired[k] = Never \/ lastFired'[k] >= lastFired[k] + Debounce
    <3>1. lastFired'[k] = at[k] /\ at[k] \in Nat /\ lastFired[k] \in Nat /\ Debounce \in Nat
      BY <1>5, <1>6, <1>7, TimesAssumption DEF TypeOK
    <3>2. lastFired[k] = Never \/ at[k] - lastFired[k] >= Debounce
      BY <1>8
    <3> HIDE DEF ks
    <3> QED  BY <3>1, <3>2
  <2>2. ASSUME NEW k \in ks
        PROVE  /\ lastFired'[k] # Never /\ lastFired'[k] <= m.time
               /\ m.time <= lastFired'[k] + Stale
    BY <1>3, <1>5, <1>7
  <2> HIDE DEF ks
  <2> QED  BY <1>2, <1>5, <1>7, <1>8, <1>9, <2>1, <2>2 DEF Received, m
<1>11. Reported(ks)
  <2> SUFFICES ASSUME ~FreshScenes, NEW p \in presses, Tells(m, p),
                      p.key \in SceneKeys \/ RemoteOf[p.key] \in PressSenders,
                      RemoteOf[p.key] \in Registered,
                      lastFired[p.key] = Never \/ lastFired[p.key] + Debounce <= p.at
               PROVE  p.key \in ks /\ lastFired'[p.key] \in {p.at, p.rel}
    BY DEF Reported, m
  <2>1. RemoteOf[p.key] \notin PressSenders /\ p.key \in SceneKeys
    BY <1>2 DEF Tells
  <2>2. m.time = p.at /\ m.trig[p.key] = p.at
    BY <2>1 DEF Tells
  <2>3. p.at # Never
    BY <1>4, <2>2, TimesAssumption DEF Start, Never
  <2>4. p.key \in DOMAIN at /\ at[p.key] = p.at
    BY <1>3, <1>4, <2>1, <2>2, <2>3, TimesAssumption
  <2>5. RemoteOf[p.key] \notin pressRemotes
    BY <2>1 DEF TypeOK
  <2>6. lastFired[p.key] = Never \/ p.at - lastFired[p.key] >= Debounce
    BY <1>4, <2>1, <2>2, KeysAssumption, TimesAssumption DEF TypeOK
  <2>7. p.key \in ks
    BY <2>4, <2>5, <2>6 DEF Fires
  <2> QED  BY <1>7, <2>4, <2>7
<1> QED  BY <1>5, <1>10, <1>11

LEMMA PressEffect ==
  ASSUME TypeOK, ClockFits, QueueFits, ReceivePress
  PROVE  \E ks \in SUBSET Keys : Received(ks) /\ Reported(ks)
<1> DEFINE m == queue[1]
           at == [j \in {m.key} |-> m.time]
           ks == {j \in {m.key} : Fires(j, m.time, FALSE)}
<1>1. Head(queue) = m /\ m \in Message /\ Len(queue) >= 1
  BY ReceiveTail DEF Receiving
<1>2. m.kind = "press" /\ MessageFits(m, now, presses)
  BY <1>1 DEF ReceivePress, QueueFits, TypeOK
<1>3. Fire(ks, at)
  BY <1>1 DEF ReceivePress
<1> HIDE DEF m
<1>4. m.time \in Nat /\ m.time >= Start /\ m.key \in Keys
  BY <1>1, <1>2 DEF Message, MessageFits
<1>5. ks \subseteq Keys
  BY <1>4
<1>6. \A k \in ks : k = m.key /\ at[k] = m.time /\ at[k] \in Nat
  BY <1>4
<1>7. /\ lastFired' \in [Keys -> Nat] /\ fired' \in [Keys -> Seq(Nat)]
      /\ \A k \in ks : lastFired'[k] = at[k] /\ fired'[k] = Append(fired[k], lastFired'[k])
      /\ \A k \in Keys \ ks : lastFired'[k] = lastFired[k] /\ fired'[k] = fired[k]
      /\ Events' = Events \cup {[key |-> k, at |-> lastFired'[k]] : k \in ks}
  BY <1>3, <1>5, <1>6, FireEffect
<1>8. \A k \in ks : lastFired[k] = Never \/ m.time - lastFired[k] >= Debounce
  BY DEF Fires
<1>9. \E p \in presses : p.key = m.key /\ m.time = p.rel
  BY <1>2 DEF MessageFits
<1>10. Received(ks)
  <2>1. ASSUME NEW k \in ks
        PROVE  /\ lastFired'[k] # Never /\ lastFired'[k] <= m.time
               /\ m.time <= lastFired'[k] + Stale
               /\ lastFired[k] = Never \/ lastFired'[k] >= lastFired[k] + Debounce
    <3>1. /\ lastFired'[k] = m.time /\ m.time \in Nat /\ lastFired[k] \in Nat
          /\ Debounce \in Nat /\ Stale \in Nat
      BY <1>4, <1>5, <1>6, <1>7, TimesAssumption DEF TypeOK
    <3>2. lastFired[k] = Never \/ m.time - lastFired[k] >= Debounce
      BY <1>8
    <3>3. m.time # Never
      BY <1>4, <3>1 DEF Start, Never
    <3> HIDE DEF ks, at
    <3> QED  BY <3>1, <3>2, <3>3
  <2> HIDE DEF ks, at
  <2> QED  BY <1>2, <1>5, <1>6, <1>7, <1>9, <2>1 DEF Received, m
<1>11. Reported(ks)
  <2> SUFFICES ASSUME ~FreshScenes, NEW p \in presses, Tells(m, p),
                      RemoteOf[p.key] \in Registered,
                      lastFired[p.key] = Never \/ lastFired[p.key] + Debounce <= p.at
               PROVE  p.key \in ks /\ lastFired'[p.key] \in {p.at, p.rel}
    BY DEF Reported, m
  <2>1. m.key = p.key /\ m.time = p.rel
    BY <1>2 DEF Tells
  <2>2. p.at \in Nat /\ p.rel \in Nat /\ p.at <= p.rel /\ p.key \in Keys
    BY DEF TypeOK, Press, ClockFits
  <2>3. lastFired[p.key] = Never \/ m.time - lastFired[p.key] >= Debounce
    BY <2>1, <2>2, TimesAssumption DEF TypeOK
  <2>4. p.key \in ks
    BY <2>1, <2>3 DEF Fires
  <2> QED  BY <1>6, <1>7, <2>1, <2>4
<1> QED  BY <1>5, <1>10, <1>11

LEMMA ReceiveEffect ==
  ASSUME TypeOK, ClockFits, QueueFits, Receiving
  PROVE  \E ks \in SUBSET Keys : Received(ks) /\ Reported(ks)
BY SceneEffect, PressEffect DEF Receiving
\* What is received is neither sent nor pressed.
LEMMA ReceiveFrame ==
  ASSUME TypeOK, QueueFits, Receiving
  PROVE  /\ UNCHANGED <<now, hubVars, lost>>
         /\ pressRemotes \subseteq pressRemotes' /\ pressRemotes' \subseteq PressSenders
<1>1. CASE ReceiveScene
  BY <1>1 DEF ReceiveScene, TypeOK
<1>2. CASE ReceivePress
  <2>1. Head(queue) = queue[1] /\ Len(queue) >= 1
    BY <1>2, ReceiveTail DEF Receiving
  <2>2. MessageFits(queue[1], now, presses) /\ queue[1].kind = "press"
    BY <1>2, <2>1 DEF ReceivePress, QueueFits, TypeOK
  <2>3. RemoteOf[queue[1].key] \in PressSenders
    BY <2>2 DEF MessageFits
  <2> QED  BY <1>2, <2>1, <2>3 DEF ReceivePress, TypeOK
<1> QED  BY <1>1, <1>2 DEF Receiving

\* A message of the scene as it is.
LEMMA SceneSent ==
  ASSUME TypeOK, ClockFits, NEW trig \in [SceneKeys -> Nat], NEW last \in Nat,
         TriggersFit(trig, last, now, presses)
  PROVE  MessageFits(SceneMessage(trig, last), now, presses)
<1> DEFINE m == SceneMessage(trig, last)
<1>1. m.kind = "scene" /\ m.time = now /\ m.trig = trig /\ m.last = last
  BY SceneMessageFits
<1>2. Start <= now /\ now <= now
  BY DEF ClockFits, TypeOK
<1> HIDE DEF m
<1>3. MessageFits(m, now, presses)
  BY <1>1, <1>2 DEF MessageFits
<1> QED  BY <1>3 DEF m

LEMMA UpdateEffect ==
  ASSUME TypeOK, ClockFits, SceneFits, NEW p \in toScene, UpdateScene(p)
  PROVE  /\ \E S \in SUBSET Message :
                 Later(S) /\ \A m \in S : m.time = now /\ MessageFits(m, now, presses)
         /\ triggeredAt' \in [SceneKeys -> Nat] /\ lastTriggered' \in Nat
         /\ TriggersFit(triggeredAt', lastTriggered', now, presses)
         /\ \E i \in 1 .. Len(queue') :
              queue'[i].kind = "scene" /\ queue'[i].time = now /\ queue'[i].trig[p.key] = now
<1>1. p.key \in SceneKeys /\ p \in presses /\ p.at = now
  BY DEF ClockFits, TypeOK
<1>2. now \in Nat /\ now # Never
  BY TimesAssumption DEF TypeOK, ClockFits, Start, Never
<1>3. /\ triggeredAt' \in [SceneKeys -> Nat] /\ lastTriggered' = now /\ triggeredAt'[p.key] = now
      /\ \A k \in SceneKeys \ {p.key} : triggeredAt'[k] = triggeredAt[k]
  BY <1>1, <1>2 DEF UpdateScene, TypeOK
<1>4. \A last \in Nat : last <= now => TriggersFit(triggeredAt', last, now, presses)
  BY <1>1, <1>2, <1>3 DEF SceneFits, TriggersFit
<1>5. lastTriggered \in Nat /\ lastTriggered <= now
  BY DEF TypeOK, SceneFits, TriggersFit
<1> DEFINE m == SceneMessage(triggeredAt', lastTriggered)
           n == SceneMessage(triggeredAt', now)
<1>6. /\ m \in Message /\ m.kind = "scene" /\ m.time = now /\ m.trig = triggeredAt'
      /\ n \in Message /\ n.time = now
  BY <1>2, <1>3, <1>5, SceneMessageFits
<1>7. MessageFits(m, now, presses) /\ MessageFits(n, now, presses)
  BY <1>2, <1>3, <1>4, <1>5, SceneSent
<1>8. Send(<<m, n>>)
  BY DEF UpdateScene
<1> HIDE DEF m, n
<1>9. Later({m, n}) /\ Len(queue') = Len(queue) + 2 /\ queue'[Len(queue) + 1] = m
  BY <1>6, <1>8, SendTwo
<1>10. Len(queue) + 1 \in 1 .. Len(queue')
  BY <1>9 DEF TypeOK
<1>11. {m, n} \in SUBSET Message /\ \A x \in {m, n} : x.time = now /\ MessageFits(x, now, presses)
  BY <1>6, <1>7
<1>12. TriggersFit(triggeredAt', lastTriggered', now, presses)
  BY <1>2, <1>3, <1>4
<1>13. \E S \in SUBSET Message :
            Later(S) /\ \A x \in S : x.time = now /\ MessageFits(x, now, presses)
  BY <1>9, <1>11
<1> QED  BY <1>2, <1>3, <1>6, <1>9, <1>10, <1>12, <1>13

LEMMA ReleaseEffect ==
  ASSUME TypeOK, ClockFits, NEW p \in toPress, Release(p)
  PROVE  /\ \E S \in SUBSET Message :
                 Later(S) /\ \A m \in S : m.time = now /\ MessageFits(m, now, presses)
         /\ p.rel = now
         /\ \E i \in 1 .. Len(queue') :
              queue'[i].kind = "press" /\ queue'[i].time = now /\ queue'[i].key = p.key
<1> DEFINE m == [kind |-> "press", time |-> now, key |-> p.key]
<1>1. p \in presses /\ p.key \in Keys /\ RemoteOf[p.key] \in PressSenders /\ p.rel = now
  BY DEF Release, ClockFits, TypeOK, Press
<1>2. m \in Message /\ m.kind = "press" /\ m.time = now /\ m.key = p.key
  BY <1>1 DEF Message, TypeOK
<1>3. Send(<<m>>)
  BY DEF Release
<1> HIDE DEF m
<1>4. MessageFits(m, now, presses)
  BY <1>1, <1>2 DEF MessageFits, ClockFits, TypeOK
<1>5. Later({m}) /\ Len(queue') = Len(queue) + 1 /\ queue'[Len(queue) + 1] = m
  BY <1>2, <1>3, SendOne
<1>6. Len(queue) + 1 \in 1 .. Len(queue')
  BY <1>5 DEF TypeOK
<1>7. {m} \in SUBSET Message /\ \A x \in {m} : x.time = now /\ MessageFits(x, now, presses)
  BY <1>2, <1>4
<1> QED  BY <1>1, <1>2, <1>5, <1>6, <1>7

LEMMA TouchEffect ==
  ASSUME TypeOK, ClockFits, SceneFits, TouchScene
  PROVE  /\ \E S \in SUBSET Message :
                 Later(S) /\ \A m \in S : m.time = now /\ MessageFits(m, now, presses)
         /\ lastTriggered' \in Nat
         /\ TriggersFit(triggeredAt, lastTriggered', now, presses)
<1>1. lastTriggered' \in Nat /\ lastTriggered' <= now
  BY DEF TouchScene, TypeOK, SceneFits, TriggersFit
<1>2. TriggersFit(triggeredAt, lastTriggered', now, presses)
  BY <1>1 DEF SceneFits, TriggersFit
<1> DEFINE m == SceneMessage(triggeredAt, lastTriggered')
<1>3. m \in Message /\ m.time = now /\ MessageFits(m, now, presses)
  BY <1>1, <1>2, SceneMessageFits, SceneSent DEF TypeOK
<1>4. Send(<<m>>)
  BY DEF TouchScene
<1> HIDE DEF m
<1>5. Later({m})
  BY <1>3, <1>4, SendOne
<1>6. {m} \in SUBSET Message /\ \A x \in {m} : x.time = now /\ MessageFits(x, now, presses)
  BY <1>3
<1> QED  BY <1>1, <1>2, <1>5, <1>6

\* Whatever the hub sends is of the present, fits, and comes last.
LEMMA SendingEffect ==
  ASSUME TypeOK, ClockFits, SceneFits, Sending
  PROVE  /\ UNCHANGED <<now, presses, lastFired, pressRemotes, fired, lost>>
         /\ toScene' \subseteq toScene /\ toPress' \subseteq toPress
         /\ triggeredAt' \in [SceneKeys -> Nat] /\ lastTriggered' \in Nat
         /\ TriggersFit(triggeredAt', lastTriggered', now, presses)
         /\ \E S \in SUBSET Message :
                 Later(S) /\ \A m \in S : m.time = now /\ MessageFits(m, now, presses)
<1>1. ASSUME NEW p \in toScene, UpdateScene(p)
      PROVE  /\ UNCHANGED <<now, presses, lastFired, pressRemotes, fired, lost>>
             /\ toScene' \subseteq toScene /\ toPress' \subseteq toPress
  BY <1>1 DEF UpdateScene
<1>2. ASSUME NEW p \in toPress, Release(p)
      PROVE  /\ UNCHANGED <<now, presses, lastFired, pressRemotes, fired, lost>>
             /\ toScene' \subseteq toScene /\ toPress' \subseteq toPress
             /\ UNCHANGED <<triggeredAt, lastTriggered>>
  BY <1>2 DEF Release
<1>3. ASSUME TouchScene
      PROVE  /\ UNCHANGED <<now, presses, lastFired, pressRemotes, fired, lost>>
             /\ toScene' \subseteq toScene /\ toPress' \subseteq toPress
             /\ triggeredAt' = triggeredAt
  BY <1>3 DEF TouchScene
<1>4. /\ triggeredAt \in [SceneKeys -> Nat] /\ lastTriggered \in Nat
      /\ TriggersFit(triggeredAt, lastTriggered, now, presses)
  BY DEF TypeOK, SceneFits
<1> QED  BY <1>1, <1>2, <1>3, <1>4, UpdateEffect, ReleaseEffect, TouchEffect DEF Sending

LEMMA PressKeyEffect ==
  ASSUME TypeOK, NEW k \in Keys, PressKey(k)
  PROVE  \E p \in Press :
           /\ p.key = k /\ p.at = now /\ p.at <= p.rel /\ p.cold = Cold(k)
           /\ presses' = presses \cup {p}
           /\ toScene' = IF k \in SceneKeys THEN toScene \cup {p} ELSE toScene
           /\ toPress' = IF RemoteOf[k] \in PressSenders THEN toPress \cup {p} ELSE toPress
           /\ \A q \in presses : q.key = k => q.rel < now
<1>1. PICK hold \in 0 .. MaxHold :
        LET p == [key |-> k, at |-> now, rel |-> now + hold, cold |-> Cold(k)] IN
        /\ presses' = presses \cup {p}
        /\ toScene' = IF k \in SceneKeys THEN toScene \cup {p} ELSE toScene
        /\ toPress' = IF RemoteOf[k] \in PressSenders THEN toPress \cup {p} ELSE toPress
  BY DEF PressKey
<1> DEFINE p == [key |-> k, at |-> now, rel |-> now + hold, cold |-> Cold(k)]
<1>2. now \in Nat /\ hold \in Nat
  BY DEF TypeOK
<1>3. p \in Press /\ p.key = k /\ p.at = now /\ p.at <= p.rel
  BY <1>2 DEF Press, Cold
<1>4. p.cold = Cold(k)
  OBVIOUS
<1>5. \A q \in presses : q.key = k => q.rel < now
  BY DEF PressKey
<1> QED  BY <1>1, <1>3, <1>4, <1>5

LEMMA TypeStep == TypeOK /\ ClockFits /\ SceneFits /\ QueueFits /\ [Next]_vars => TypeOK'
<1> SUFFICES ASSUME TypeOK, ClockFits, SceneFits, QueueFits, [Next]_vars PROVE TypeOK'
  OBVIOUS
<1>1. ASSUME NEW k \in Keys, PressKey(k) PROVE TypeOK'
  <2>1. PICK p \in Press :
          /\ presses' = presses \cup {p}
          /\ toScene' = IF k \in SceneKeys THEN toScene \cup {p} ELSE toScene
          /\ toPress' = IF RemoteOf[k] \in PressSenders THEN toPress \cup {p} ELSE toPress
    BY <1>1, PressKeyEffect
  <2>2. UNCHANGED <<now, triggeredAt, lastTriggered, queue, lastFired, pressRemotes, fired, lost>>
    BY <1>1 DEF PressKey
  <2> QED  BY <2>1, <2>2 DEF TypeOK
<1>2. CASE Sending
  <2>1. queue' \in Seq(Message)
    BY <1>2, SendingEffect DEF Later
  <2>2. /\ UNCHANGED <<now, presses, lastFired, pressRemotes, fired, lost>>
        /\ toScene' \subseteq toScene /\ toPress' \subseteq toPress
        /\ triggeredAt' \in [SceneKeys -> Nat] /\ lastTriggered' \in Nat
    BY <1>2, SendingEffect
  <2> QED  BY <2>1, <2>2 DEF TypeOK
<1>3. CASE Tick
  BY <1>3 DEF Tick, TypeOK, hubVars
<1>4. CASE Disconnect
  <2>1. queue' \in Seq(Message)
    BY <1>4 DEF Disconnect
  <2> QED  BY <1>4, <2>1 DEF Disconnect, TypeOK, hubVars
<1>5. CASE Restart
  <2>1. queue' \in Seq(Message) /\ now' \in Nat
    BY <1>5, TimesAssumption DEF Restart, TypeOK
  <2>2. lastFired' \in [Keys -> Nat]
    BY <1>5 DEF Restart, Never
  <2> QED  BY <1>5, <2>1, <2>2 DEF Restart, TypeOK, hubVars
<1>6. CASE Receiving
  <2>1. /\ UNCHANGED <<now, hubVars, lost>> /\ pressRemotes' \subseteq PressSenders
        /\ queue' \in Seq(Message)
    BY <1>6, ReceiveFrame, ReceiveTail
  <2>2. lastFired' \in [Keys -> Nat] /\ fired' \in [Keys -> Seq(Nat)]
    BY <1>6, ReceiveEffect DEF Received
  <2> QED  BY <2>1, <2>2 DEF TypeOK, hubVars
<1>7. CASE UNCHANGED vars
  BY <1>7 DEF vars, hubVars, TypeOK
<1> QED  BY <1>1, <1>2, <1>3, <1>4, <1>5, <1>6, <1>7 DEF Next, Sending, Receiving
-----------------------------------------------------------------------------
(* The hub and its messages.                                               *)

LEMMA ClockStep ==
  TypeOK /\ ClockFits /\ SceneFits /\ QueueFits /\ [Next]_vars => ClockFits'
<1> SUFFICES ASSUME TypeOK, ClockFits, SceneFits, QueueFits, [Next]_vars PROVE ClockFits'
  OBVIOUS
<1>0. now \in Nat /\ Start \in Nat /\ \A p \in presses : p.at \in Nat /\ p.rel \in Nat
  BY TimesAssumption DEF TypeOK, Press, Start
<1>1. ASSUME NEW k \in Keys, PressKey(k) PROVE ClockFits'
  <2>1. PICK p \in Press :
          /\ p.key = k /\ p.at = now /\ p.at <= p.rel
          /\ presses' = presses \cup {p}
          /\ toScene' = IF k \in SceneKeys THEN toScene \cup {p} ELSE toScene
          /\ toPress' = IF RemoteOf[k] \in PressSenders THEN toPress \cup {p} ELSE toPress
    BY <1>1, PressKeyEffect
  <2>2. now' = now
    BY <1>1 DEF PressKey
  <2>3. Start <= p.at /\ p.at <= now' /\ p.rel >= now'
    BY <2>1, <2>2, <1>0 DEF ClockFits
  <2>4. \A q \in presses' : Start <= q.at /\ q.at <= now' /\ q.at <= q.rel
    BY <2>1, <2>2, <2>3 DEF ClockFits
  <2>5. \A q \in toScene' : q.at = now' /\ q.key \in SceneKeys
    BY <2>1, <2>2 DEF ClockFits
  <2>6. \A q \in toPress' : q.rel >= now' /\ RemoteOf[q.key] \in PressSenders
    BY <2>1, <2>2, <2>3 DEF ClockFits
  <2> QED  BY <2>2, <2>4, <2>5, <2>6 DEF ClockFits
<1>2. CASE Sending
  BY <1>2, SendingEffect DEF ClockFits
<1>3. CASE Tick
  <2>1. now' = now + 1 /\ toScene = {} /\ UNCHANGED <<presses, toScene, toPress>>
    BY <1>3 DEF Tick, hubVars
  <2>2. \A p \in toPress : p.rel >= now + 1
    BY <1>0, <1>3 DEF Tick, TypeOK
  <2> QED  BY <1>0, <2>1, <2>2 DEF ClockFits
<1>4. CASE Restart
  <2>1. now' = now + Stale + Debounce /\ toScene = {} /\ toPress = {}
        /\ UNCHANGED <<presses, toScene, toPress>>
    BY <1>4 DEF Restart, hubVars
  <2> QED  BY <1>0, <2>1, TimesAssumption DEF ClockFits
<1>5. CASE UNCHANGED <<now, presses, toScene, toPress>>
  BY <1>5 DEF ClockFits
<1>6. CASE Receiving
  BY <1>5, <1>6, ReceiveFrame DEF hubVars
<1> QED
  BY <1>1, <1>2, <1>3, <1>4, <1>5, <1>6 DEF Next, Sending, Receiving, Disconnect, vars, hubVars

LEMMA ApartStep ==
  TypeOK /\ ClockFits /\ SceneFits /\ QueueFits /\ PressesApart /\ [Next]_vars => PressesApart'
<1> SUFFICES ASSUME TypeOK, ClockFits, SceneFits, QueueFits, PressesApart, [Next]_vars
             PROVE  PressesApart'
  OBVIOUS
<1>1. ASSUME NEW k \in Keys, PressKey(k) PROVE PressesApart'
  <2>1. PICK p \in Press :
          /\ p.key = k /\ p.at = now /\ presses' = presses \cup {p}
          /\ \A q \in presses : q.key = k => q.rel < now
    BY <1>1, PressKeyEffect
  <2> QED  BY <2>1 DEF PressesApart
<1>2. CASE UNCHANGED presses
  BY <1>2 DEF PressesApart
<1>3. CASE Sending
  BY <1>2, <1>3, SendingEffect
<1>4. CASE Receiving
  BY <1>2, <1>4, ReceiveFrame DEF hubVars
<1> QED
  BY <1>1, <1>2, <1>3, <1>4 DEF Next, Sending, Receiving, Tick, Restart, Disconnect, vars, hubVars

\* What is told stays true as the clock moves on and presses are added.
LEMMA MessagesStay ==
  ASSUME NEW m \in Message, NEW t \in Nat, NEW u \in Nat, NEW known, NEW more,
         MessageFits(m, t, known), t <= u, known \subseteq more
  PROVE  MessageFits(m, u, more)
<1>1. m.time \in Nat /\ Start \in Nat
  BY TimesAssumption DEF Message, Start
<1>2. m.kind = "scene" => TriggersFit(m.trig, m.last, m.time, more)
  BY DEF MessageFits, TriggersFit
<1>3. m.kind = "press" => /\ RemoteOf[m.key] \in PressSenders
                          /\ \E p \in more : p.key = m.key /\ p.rel = m.time
  BY DEF MessageFits
<1>4. Start <= m.time /\ m.time <= u
  BY <1>1 DEF MessageFits
<1> QED  BY <1>2, <1>3, <1>4 DEF MessageFits

\* Presses are never forgotten, and the clock never goes back.
LEMMA Onwards ==
  ASSUME TypeOK, ClockFits, SceneFits, QueueFits, [Next]_vars
  PROVE  presses \subseteq presses' /\ now <= now' /\ now \in Nat /\ now' \in Nat
<1>0. now \in Nat /\ Stale \in Nat /\ Debounce \in Nat
  BY TimesAssumption DEF TypeOK
<1>1. ASSUME NEW k \in Keys, PressKey(k) PROVE presses \subseteq presses' /\ now' = now
  BY <1>1, PressKeyEffect DEF PressKey
<1>2. CASE Sending
  BY <1>0, <1>2, SendingEffect
<1>3. CASE Receiving
  BY <1>0, <1>3, ReceiveFrame DEF hubVars
<1> QED
  BY <1>0, <1>1, <1>2, <1>3 DEF Next, Sending, Receiving, Tick, Restart, Disconnect, vars, hubVars

LEMMA SceneStep ==
  TypeOK /\ ClockFits /\ SceneFits /\ QueueFits /\ [Next]_vars => SceneFits'
<1> SUFFICES ASSUME TypeOK, ClockFits, SceneFits, QueueFits, [Next]_vars PROVE SceneFits'
  OBVIOUS
<1>0. presses \subseteq presses' /\ now <= now' /\ now \in Nat /\ now' \in Nat
  BY Onwards
<1>1. CASE Sending
  BY <1>1, SendingEffect DEF SceneFits
<1>2. CASE UNCHANGED <<triggeredAt, lastTriggered>>
  BY <1>0, <1>2 DEF SceneFits, TriggersFit, TypeOK
<1>3. CASE Receiving
  BY <1>2, <1>3, ReceiveFrame DEF hubVars
<1> QED
  BY <1>1, <1>2, <1>3
     DEF Next, Sending, Receiving, PressKey, Tick, Restart, Disconnect, vars, hubVars

\* How the queue changes: it is as it was, grows by what is of the present, loses its head
\* or is lost.
LEMMA QueueEffect ==
  ASSUME TypeOK, ClockFits, SceneFits, QueueFits, [Next]_vars
  PROVE  \/ queue' = queue
         \/ Sending /\ UNCHANGED now
              /\ \E S \in SUBSET Message :
                   Later(S) /\ \A m \in S : m.time = now /\ MessageFits(m, now, presses)
         \/ /\ Receiving /\ UNCHANGED now /\ Len(queue') = Len(queue) - 1
            /\ \A i \in 1 .. Len(queue') : queue'[i] = queue[i + 1] /\ i + 1 \in 1 .. Len(queue)
         \/ queue' = <<>>
BY SendingEffect, ReceiveTail, ReceiveFrame
   DEF Next, Sending, Receiving, PressKey, Tick, Restart, Disconnect, vars

LEMMA QueueStep ==
  TypeOK /\ ClockFits /\ SceneFits /\ QueueFits /\ [Next]_vars => QueueFits'
<1> SUFFICES ASSUME TypeOK, ClockFits, SceneFits, QueueFits, [Next]_vars PROVE QueueFits'
  OBVIOUS
<1>0. /\ queue \in Seq(Message) /\ \A i \in 1 .. Len(queue) : queue[i] \in Message
      /\ Len(queue) \in Nat /\ queue' \in Seq(Message) /\ Len(queue') \in Nat
  BY TypeStep DEF TypeOK
<1>1. presses \subseteq presses' /\ now <= now' /\ now \in Nat /\ now' \in Nat
  BY Onwards
<1>2. \A m \in Message : MessageFits(m, now, presses) => MessageFits(m, now', presses')
  BY <1>1, MessagesStay
<1>3. \A i \in 1 .. Len(queue) : MessageFits(queue[i], now', presses')
  BY <1>0, <1>2 DEF QueueFits
<1>4. \A i \in 1 .. Len(queue) : queue[i].time <= now /\ queue[i].time \in Nat
  BY <1>0 DEF QueueFits, MessageFits, Message
<1>5. \A i, j \in 1 .. Len(queue) : i < j => queue[i].time <= queue[j].time
  BY DEF QueueFits
<1>6. CASE queue' = queue
  BY <1>3, <1>5, <1>6 DEF QueueFits
<1>7. ASSUME NEW S \in SUBSET Message, Later(S),
             \A m \in S : m.time = now /\ MessageFits(m, now, presses)
      PROVE  QueueFits'
  <2>1. ASSUME NEW i \in 1 .. Len(queue')
        PROVE  \/ i \in 1 .. Len(queue) /\ queue'[i] = queue[i]
               \/ i > Len(queue) /\ queue'[i] \in S
    BY <1>0, <1>7 DEF Later
  <2>2. \A i \in 1 .. Len(queue') : MessageFits(queue'[i], now', presses')
    BY <1>2, <1>3, <1>7, <2>1
  <2>3. \A m \in S : m.time = now
    BY <1>7
  <2>4. ASSUME NEW i \in 1 .. Len(queue'), NEW j \in 1 .. Len(queue'), i < j
        PROVE  queue'[i].time <= queue'[j].time
    <3>1. CASE j \in 1 .. Len(queue) /\ queue'[j] = queue[j]
      <4>1. i \in 1 .. Len(queue) /\ queue'[i] = queue[i]
        BY <1>0, <2>1, <2>4, <3>1
      <4> QED  BY <1>5, <2>4, <3>1, <4>1
    <3>2. CASE j > Len(queue) /\ queue'[j] \in S
      <4>1. queue'[j].time = now
        BY <2>3, <3>2
      <4>2. queue'[i].time <= now
        BY <1>1, <1>4, <2>1, <2>3
      <4> QED  BY <4>1, <4>2
    <3> QED  BY <2>1, <3>1, <3>2
  <2> QED  BY <2>2, <2>4 DEF QueueFits
<1>8. CASE /\ Len(queue') = Len(queue) - 1
           /\ \A i \in 1 .. Len(queue') : queue'[i] = queue[i + 1] /\ i + 1 \in 1 .. Len(queue)
  <2>1. \A i \in 1 .. Len(queue') : MessageFits(queue'[i], now', presses')
    BY <1>3, <1>8
  <2>2. \A i, j \in 1 .. Len(queue') : i < j => queue'[i].time <= queue'[j].time
    BY <1>0, <1>5, <1>8
  <2> QED  BY <2>1, <2>2 DEF QueueFits
<1>9. CASE queue' = <<>>
  BY <1>9 DEF QueueFits
<1> QED  BY <1>6, <1>7, <1>8, <1>9, QueueEffect

-----------------------------------------------------------------------------
(* Events.                                                                 *)

\* Only what is received fires, and only a restart forgets.
LEMMA EventsFrame ==
  ASSUME TypeOK, ClockFits, SceneFits, QueueFits, [Next]_vars
  PROVE  \/ Receiving
         \/ /\ Restart /\ UNCHANGED <<fired, Events>> /\ queue' = <<>> /\ presses' = presses
            /\ now' = now + Stale + Debounce /\ \A k \in Keys : lastFired'[k] = Never
         \/ UNCHANGED <<fired, Events, lastFired, pressRemotes>>
<1>1. UNCHANGED fired => UNCHANGED Events
  BY DEF Events
<1> QED
  BY <1>1, SendingEffect
     DEF Next, Sending, Receiving, PressKey, Tick, Restart, Disconnect, vars, hubVars

\* What no message is earlier than, and is not to come, stays so.
LEMMA QueueBound ==
  ASSUME TypeOK, ClockFits, SceneFits, QueueFits, [Next]_vars,
         NEW t \in Nat, t <= now, \A i \in 1 .. Len(queue) : t <= queue[i].time
  PROVE  t <= now' /\ \A i \in 1 .. Len(queue') : t <= queue'[i].time
<1>0. /\ Len(queue) \in Nat /\ Len(queue') \in Nat
  BY TypeStep DEF TypeOK
<1>1. t <= now'
  BY Onwards
<1>2. CASE queue' = queue
  BY <1>1, <1>2
<1>3. ASSUME NEW S \in SUBSET Message, Later(S), \A m \in S : m.time = now
      PROVE  \A i \in 1 .. Len(queue') : t <= queue'[i].time
  BY <1>0, <1>3 DEF Later
<1>4. CASE \A i \in 1 .. Len(queue') : queue'[i] = queue[i + 1] /\ i + 1 \in 1 .. Len(queue)
  BY <1>1, <1>4
<1>5. CASE queue' = <<>>
  BY <1>1, <1>5
<1> QED  BY <1>1, <1>2, <1>3, <1>4, <1>5, QueueEffect

\* What fires is told by the head of the queue, and is later than all that fired before.
LEMMA FiredLater ==
  ASSUME TypeOK, ClockFits, QueueFits, EventsFit, HistoryFits, Receiving,
         NEW ks \in SUBSET Keys, Received(ks), NEW k \in ks
  PROVE  /\ lastFired'[k] \in Nat /\ lastFired'[k] # Never
         /\ lastFired'[k] <= queue[1].time /\ queue[1].time <= now
         /\ \A i \in 1 .. Len(queue') : lastFired'[k] <= queue'[i].time
         /\ \A e \in Events : e.key = k => e.at + Debounce <= lastFired'[k]
<1>1. /\ Len(queue) >= 1 /\ Len(queue') = Len(queue) - 1 /\ Len(queue) \in Nat
      /\ \A i \in 1 .. Len(queue') : queue'[i] = queue[i + 1] /\ i + 1 \in 1 .. Len(queue)
      /\ \A i \in 1 .. Len(queue) : queue[i].time \in Nat
  <2>1. \A i \in 1 .. Len(queue) : queue[i] \in Message
    BY DEF TypeOK
  <2>2. \A m \in Message : m.time \in Nat
    BY DEF Message
  <2> QED  BY <2>1, <2>2, ReceiveTail DEF TypeOK
<1>2. /\ lastFired'[k] \in Nat /\ lastFired'[k] # Never
      /\ lastFired'[k] <= queue[1].time /\ queue[1].time <= lastFired'[k] + Stale
      /\ lastFired[k] = Never \/ lastFired'[k] >= lastFired[k] + Debounce
  BY DEF Received
<1>3. queue[1].time <= now
  BY <1>1 DEF QueueFits, MessageFits
<1>4. \A i \in 1 .. Len(queue') : queue[1].time <= queue[i + 1].time
  BY <1>1 DEF QueueFits
<1>5. \A i \in 1 .. Len(queue') : lastFired'[k] <= queue'[i].time
  BY <1>1, <1>2, <1>4
<1>6. ASSUME NEW e \in Events, e.key = k PROVE e.at + Debounce <= lastFired'[k]
  <2>1. e.at \in Nat /\ lastFired[k] \in Nat /\ Debounce \in Nat /\ Stale \in Nat
    BY EventsType, TimesAssumption DEF TypeOK
  <2>2. CASE lastFired[k] = Never
    <3>1. e.at + Stale + Debounce <= queue[1].time
      BY <1>1, <1>6, <2>2 DEF HistoryFits
    <3> QED  BY <1>1, <1>2, <2>1, <3>1
  <2>3. CASE lastFired[k] # Never
    <3>1. e.at <= lastFired[k]
      BY <1>6, <2>3 DEF EventsFit
    <3> QED  BY <1>2, <2>1, <2>3, <3>1
  <2> QED  BY <2>2, <2>3
<1> QED  BY <1>2, <1>3, <1>5, <1>6

\* An event of a step is an old one, or one of the keys that fire.
LEMMA FiredIs ==
  ASSUME NEW ks \in SUBSET Keys, Received(ks), NEW e \in Events'
  PROVE  e \in Events \/ (e.key \in ks /\ e.at = lastFired'[e.key]
                           /\ e = [key |-> e.key, at |-> e.at])
BY DEF Received

LEMMA EventsStep ==
  TypeOK /\ ClockFits /\ SceneFits /\ QueueFits /\ EventsFit /\ HistoryFits /\ [Next]_vars
    => EventsFit'
<1> SUFFICES ASSUME TypeOK, ClockFits, SceneFits, QueueFits, EventsFit, HistoryFits, [Next]_vars
             PROVE  EventsFit'
  OBVIOUS
<1>1. \A e \in Events : e.at <= now' /\ \A i \in 1 .. Len(queue') : e.at <= queue'[i].time
  <2> SUFFICES ASSUME NEW e \in Events
               PROVE  e.at <= now' /\ \A i \in 1 .. Len(queue') : e.at <= queue'[i].time
    OBVIOUS
  <2>1. e.at \in Nat /\ e.at <= now /\ \A i \in 1 .. Len(queue) : e.at <= queue[i].time
    BY EventsType DEF EventsFit
  <2> QED  BY <2>1, QueueBound
<1>2. CASE Receiving
  <2>1. PICK ks \in SUBSET Keys : Received(ks)
    BY <1>2, ReceiveEffect
  <2>2. now' = now /\ now \in Nat
    BY <1>2, ReceiveFrame DEF TypeOK
  <2>3. \A k \in ks : /\ lastFired'[k] \in Nat /\ lastFired'[k] <= now'
                      /\ \A i \in 1 .. Len(queue') : lastFired'[k] <= queue'[i].time
                      /\ \A e \in Events : e.key = k => e.at + Debounce <= lastFired'[k]
    <3> TAKE k \in ks
    <3>1. queue[1].time \in Nat
      BY <1>2, ReceiveTail DEF Message
    <3> QED  BY <1>2, <2>1, <2>2, <3>1, FiredLater
  <2>4. \A e \in Events' : e.at <= now' /\ \A i \in 1 .. Len(queue') : e.at <= queue'[i].time
    BY <1>1, <2>1, <2>3, FiredIs
  <2>5. ASSUME NEW k \in Keys, lastFired'[k] # Never
        PROVE  [key |-> k, at |-> lastFired'[k]] \in Events'
    BY <2>1, <2>5 DEF Received, EventsFit
  <2>6. ASSUME NEW e \in Events', lastFired'[e.key] # Never PROVE e.at <= lastFired'[e.key]
    <3>1. CASE e \in Events /\ e.key \in ks
      <4>1. e.at \in Nat /\ Debounce \in Nat
        BY <3>1, EventsType, TimesAssumption
      <4> QED  BY <2>3, <3>1, <4>1
    <3>2. CASE e \in Events /\ e.key \notin ks
      <4>1. lastFired'[e.key] = lastFired[e.key]
        BY <2>1, <3>2, EventsType DEF Received
      <4> QED  BY <2>6, <3>2, <4>1 DEF EventsFit
    <3>3. CASE e.key \in ks /\ e.at = lastFired'[e.key]
      BY <2>3, <3>3
    <3> QED  BY <2>1, <3>1, <3>2, <3>3, FiredIs
  <2> QED  BY <2>4, <2>5, <2>6 DEF EventsFit
<1>3. CASE Events' = Events /\ \A k \in Keys : lastFired'[k] = Never
  <2>1. \A e \in Events : e.key \in Keys
    BY EventsType
  <2> QED  BY <1>1, <1>3, <2>1 DEF EventsFit
<1>4. CASE UNCHANGED <<Events, lastFired>>
  BY <1>1, <1>4 DEF EventsFit
<1> QED  BY <1>2, <1>3, <1>4, EventsFrame

LEMMA HistoryStep ==
  TypeOK /\ ClockFits /\ SceneFits /\ QueueFits /\ EventsFit /\ HistoryFits /\ [Next]_vars
    => HistoryFits'
<1> SUFFICES ASSUME TypeOK, ClockFits, SceneFits, QueueFits, EventsFit, HistoryFits, [Next]_vars,
                    NEW e \in Events', lastFired'[e.key] = Never
             PROVE  /\ e.at + Stale + Debounce <= now'
                    /\ \A i \in 1 .. Len(queue') : e.at + Stale + Debounce <= queue'[i].time
  BY DEF HistoryFits
<1>0. Stale \in Nat /\ Debounce \in Nat /\ now \in Nat
  BY TimesAssumption DEF TypeOK
<1>1. ASSUME e \in Events, lastFired[e.key] = Never
      PROVE  /\ e.at + Stale + Debounce <= now'
             /\ \A i \in 1 .. Len(queue') : e.at + Stale + Debounce <= queue'[i].time
  <2>1. /\ e.at + Stale + Debounce \in Nat /\ e.at + Stale + Debounce <= now
        /\ \A i \in 1 .. Len(queue) : e.at + Stale + Debounce <= queue[i].time
    BY <1>0, <1>1, EventsType DEF HistoryFits
  <2> QED  BY <2>1, QueueBound
<1>2. CASE Receiving
  <2>1. PICK ks \in SUBSET Keys : Received(ks)
    BY <1>2, ReceiveEffect
  <2>2. e.key \notin ks /\ e \in Events
    BY <2>1, FiredIs DEF Received
  <2>3. lastFired'[e.key] = lastFired[e.key]
    BY <2>1, <2>2, EventsType DEF Received
  <2> QED  BY <1>1, <2>2, <2>3
<1>3. CASE Events' = Events /\ queue' = <<>> /\ now' = now + Stale + Debounce
  <2>1. e.at \in Nat /\ e.at <= now
    BY <1>3, EventsType DEF EventsFit
  <2> QED  BY <1>0, <1>3, <2>1
<1>4. CASE UNCHANGED <<Events, lastFired>>
  BY <1>1, <1>4
<1> QED  BY <1>2, <1>3, <1>4, EventsFrame

LEMMA SpacedStep ==
  /\ TypeOK /\ ClockFits /\ SceneFits /\ QueueFits /\ EventsFit /\ HistoryFits
  /\ EventsSpaced /\ [Next]_vars
  => EventsSpaced'
<1> SUFFICES ASSUME TypeOK, ClockFits, SceneFits, QueueFits, EventsFit, HistoryFits,
                    EventsSpaced, [Next]_vars
             PROVE  EventsSpaced'
  OBVIOUS
<1>1. CASE Receiving
  <2>1. PICK ks \in SUBSET Keys : Received(ks)
    BY <1>1, ReceiveEffect
  <2> SUFFICES ASSUME NEW k \in Keys, NEW i \in DOMAIN fired'[k], NEW j \in DOMAIN fired'[k],
                      i < j
               PROVE  fired'[k][j] - fired'[k][i] >= Debounce
    BY DEF EventsSpaced
  <2>2. CASE k \notin ks
    <3>1. fired'[k] = fired[k]
      BY <2>1, <2>2 DEF Received
    <3> QED  BY <3>1 DEF EventsSpaced
  <2>3. CASE k \in ks
    <3> DEFINE s == fired[k]
               t == lastFired'[k]
    <3>1. s \in Seq(Nat) /\ t \in Nat /\ Debounce \in Nat /\ fired'[k] = Append(s, t)
      BY <2>1, <2>3, TimesAssumption DEF TypeOK, Received
    <3>2. /\ i \in 1 .. Len(s) + 1 /\ j \in 1 .. Len(s) + 1 /\ Len(s) \in Nat
          /\ Append(s, t)[Len(s) + 1] = t
      BY <3>1
    <3>3. i \in 1 .. Len(s)
      BY <3>2
    <3>4. i \in DOMAIN s /\ Append(s, t)[i] = s[i] /\ s[i] \in Nat
      BY <3>1, <3>3
    <3>5. CASE j = Len(s) + 1
      <4>1. [key |-> k, at |-> s[i]] \in Events
        BY <3>1, <3>4 DEF Events
      <4>2. s[i] + Debounce <= t
        BY <1>1, <2>1, <2>3, <4>1, FiredLater
      <4> HIDE DEF s, t
      <4> QED  BY <3>1, <3>2, <3>4, <3>5, <4>2
    <3>6. CASE j # Len(s) + 1
      <4>1. j \in DOMAIN s /\ Append(s, t)[j] = s[j]
        BY <3>1, <3>2, <3>6
      <4>2. s[j] - s[i] >= Debounce
        BY <3>4, <4>1 DEF EventsSpaced
      <4> HIDE DEF s, t
      <4> QED  BY <3>1, <3>4, <4>1, <4>2
    <3> QED  BY <3>5, <3>6
  <2> QED  BY <2>2, <2>3
<1>2. CASE fired' = fired
  BY <1>2 DEF EventsSpaced
<1> QED  BY <1>1, <1>2, EventsFrame
-----------------------------------------------------------------------------
(* Events stand for presses.                                               *)

LEMMA GhostStep ==
  TypeOK /\ ClockFits /\ SceneFits /\ QueueFits /\ GhostFree /\ [Next]_vars => GhostFree'
<1> SUFFICES ASSUME TypeOK, ClockFits, SceneFits, QueueFits, GhostFree, [Next]_vars,
                    ~FreshScenes, NEW e \in Events'
             PROVE  \E p \in presses' : e.key = p.key /\ e.at \in {p.at, p.rel}
  BY DEF GhostFree, Ghostless
<1>1. ASSUME e \in Events PROVE \E p \in presses' : e.key = p.key /\ e.at \in {p.at, p.rel}
  BY <1>1, Onwards DEF GhostFree, Ghostless
<1>2. CASE Receiving
  <2>1. PICK ks \in SUBSET Keys : Received(ks)
    BY <1>2, ReceiveEffect
  <2>2. presses' = presses
    BY <1>2, ReceiveFrame DEF hubVars
  <2>3. ASSUME e.key \in ks, e.at = lastFired'[e.key]
        PROVE  \E p \in presses : e.key = p.key /\ e.at \in {p.at, p.rel}
    BY <2>1, <2>3 DEF Received
  <2> QED  BY <1>1, <2>1, <2>2, <2>3, FiredIs
<1>3. CASE Events' = Events
  BY <1>1, <1>3
<1> QED  BY <1>2, <1>3, EventsFrame

LEMMA WarmStep ==
  TypeOK /\ ClockFits /\ SceneFits /\ QueueFits /\ WarmFits /\ [Next]_vars => WarmFits'
<1> SUFFICES ASSUME TypeOK, ClockFits, SceneFits, QueueFits, WarmFits, [Next]_vars,
                    NEW p \in presses', ~p.cold, Cold(p.key)'
             PROVE  /\ p.at + Stale < now'
                    /\ \A i \in 1 .. Len(queue') : p.at + Stale < queue'[i].time
  BY DEF WarmFits
<1>0. /\ Stale \in Nat /\ Debounce \in Nat /\ Debounce > 0 /\ now \in Nat /\ now' \in Nat
      /\ p.at \in Nat /\ Len(queue) \in Nat /\ Len(queue') \in Nat
      /\ \A i \in 1 .. Len(queue) : queue[i] \in Message
      /\ \A i \in 1 .. Len(queue') : queue'[i] \in Message
  BY TypeStep, TimesAssumption DEF TypeOK, Press
<1>1. \A m \in Message : m.time \in Nat
  BY DEF Message
<1>2. ASSUME p \in presses, Cold(p.key)
      PROVE  /\ p.at + Stale < now'
             /\ \A i \in 1 .. Len(queue') : p.at + Stale < queue'[i].time
  <2>1. p.at + Stale < now /\ \A i \in 1 .. Len(queue) : p.at + Stale < queue[i].time
    BY <1>2 DEF WarmFits
  <2> DEFINE t == p.at + Stale + 1
  <2>2. t \in Nat /\ t <= now /\ \A i \in 1 .. Len(queue) : t <= queue[i].time
    BY <1>0, <1>1, <2>1
  <2>3. t <= now' /\ \A i \in 1 .. Len(queue') : t <= queue'[i].time
    <3> HIDE DEF t
    <3> QED  BY <2>2, QueueBound
  <2> QED  BY <1>0, <1>1, <2>3
<1>3. CASE Receiving
  BY <1>2, <1>3, ReceiveFrame DEF hubVars, Cold
<1>4. CASE now' = now + Stale + Debounce /\ presses' = presses /\ queue' = <<>>
  <2>1. p.at <= now
    BY <1>4 DEF ClockFits
  <2> QED  BY <1>0, <1>4, <2>1
<1>5. CASE UNCHANGED <<Events, lastFired, pressRemotes>>
  <2>1. Cold(p.key)
    BY <1>5 DEF Cold
  <2>2. CASE p \in presses
    BY <1>2, <2>1, <2>2
  <2>3. CASE p \notin presses
    <3>1. PICK k \in Keys : PressKey(k)
      BY <2>3, SendingEffect, ReceiveFrame
         DEF Next, Sending, Receiving, Tick, Restart, Disconnect, vars, hubVars
    <3>2. PICK q \in Press : q.key = k /\ q.cold = Cold(k) /\ presses' = presses \cup {q}
      BY <3>1, PressKeyEffect
    <3> QED  BY <2>1, <2>3, <3>2
  <2> QED  BY <2>2, <2>3
<1> QED  BY <1>3, <1>4, <1>5, EventsFrame

LEMMA QuietStep ==
  /\ TypeOK /\ ClockFits /\ PressesApart /\ SceneFits /\ QueueFits /\ GhostFree
  /\ WarmFits /\ WarmQuiet /\ [Next]_vars
  => WarmQuiet'
<1> SUFFICES ASSUME TypeOK, ClockFits, PressesApart, SceneFits, QueueFits, GhostFree,
                    WarmFits, WarmQuiet, [Next]_vars, ~FreshScenes,
                    NEW p \in presses', ~p.cold, p.rel # p.at
             PROVE  [key |-> p.key, at |-> p.at] \notin Events'
  BY DEF WarmQuiet
<1> DEFINE e == [key |-> p.key, at |-> p.at]
<1>0. \A q \in presses : q.at \in Nat /\ q.rel \in Nat /\ q.at <= q.rel /\ q.at <= now
  BY DEF TypeOK, Press, ClockFits
<1>1. ASSUME NEW k \in Keys, PressKey(k) PROVE e \notin Events'
  <2>1. PICK q \in Press :
          /\ q.key = k /\ q.at = now /\ presses' = presses \cup {q}
          /\ \A r \in presses : r.key = k => r.rel < now
    BY <1>1, PressKeyEffect
  <2>2. Events' = Events
    BY <1>1 DEF PressKey, Events
  <2>3. CASE p \in presses
    BY <2>2, <2>3 DEF WarmQuiet
  <2>4. CASE p = q
    <3>1. SUFFICES ASSUME e \in Events PROVE FALSE
      BY <2>2
    <3>2. PICK r \in presses : r.key = k /\ now \in {r.at, r.rel}
      BY <2>1, <2>4, <3>1 DEF GhostFree, Ghostless
    <3>3. r.rel < now /\ r.at <= r.rel /\ r.at \in Nat /\ r.rel \in Nat /\ now \in Nat
      BY <1>0, <2>1, <3>2 DEF TypeOK
    <3> QED  BY <3>2, <3>3
  <2> QED  BY <2>1, <2>3, <2>4
<1>2. CASE Receiving
  <2>1. PICK ks \in SUBSET Keys : Received(ks)
    BY <1>2, ReceiveEffect
  <2>2. presses' = presses /\ p \in presses
    BY <1>2, ReceiveFrame DEF hubVars
  <2>3. e \notin Events
    BY <2>2 DEF WarmQuiet
  <2>4. SUFFICES ASSUME p.key \in ks, p.at = lastFired'[p.key] PROVE FALSE
    BY <2>1, <2>3, FiredIs
  <2>5. Len(queue) >= 1 /\ queue[1] \in Message /\ 1 \in 1 .. Len(queue)
    BY <1>2, ReceiveTail DEF TypeOK
  <2>6. queue[1].time \in Nat /\ p.at \in Nat /\ p.rel \in Nat /\ p.at <= p.rel /\ Stale \in Nat
    BY <1>0, <2>2, <2>5, TimesAssumption DEF Message
  <2>7. CASE queue[1].kind = "scene" /\ Cold(p.key)
    <3>1. p.at + Stale < queue[1].time
      BY <2>2, <2>5, <2>7 DEF WarmFits
    <3>2. queue[1].time <= p.at + Stale
      BY <2>1, <2>4 DEF Received
    <3> QED  BY <2>6, <3>1, <3>2
  <2>8. CASE /\ queue[1].kind = "press" /\ queue[1].key = p.key
             /\ lastFired'[p.key] = queue[1].time
    <3>1. MessageFits(queue[1], now, presses)
      BY <2>5 DEF QueueFits
    <3>2. PICK q \in presses : q.key = p.key /\ q.rel = p.at
      BY <2>4, <2>8, <3>1 DEF MessageFits
    <3>3. q # p
      BY <3>2
    <3>4. p.rel < q.at \/ q.rel < p.at
      BY <2>2, <3>2, <3>3 DEF PressesApart
    <3> QED  BY <1>0, <2>6, <3>2, <3>4
  <2> QED  BY <2>1, <2>4, <2>7, <2>8 DEF Received
<1>3. CASE Events' = Events /\ presses' = presses
  BY <1>3 DEF WarmQuiet
<1> QED
  BY <1>1, <1>2, <1>3, SendingEffect
     DEF Next, Sending, Receiving, Tick, Restart, Disconnect, vars, hubVars, Events

-----------------------------------------------------------------------------
(* No press is missed.                                                     *)

\* What a press owes is on its way once it is sent.
LEMMA SentTells ==
  ASSUME TypeOK, ClockFits, SceneFits, QueueFits, Sending, NEW p \in presses, Untold(p)
  PROVE  Pending(p)'
<1>1. CASE Untold(p)'
  BY <1>1 DEF Pending
<1>2. CASE ~Untold(p)'
  <2>1. CASE RemoteOf[p.key] \in PressSenders
    <3>1. p \in toPress /\ p \notin toPress'
      BY <1>2, <2>1 DEF Untold
    <3>2. Release(p)
      BY <3>1 DEF Sending, UpdateScene, Release, TouchScene
    <3>3. p.rel = now /\ \E i \in 1 .. Len(queue') :
            queue'[i].kind = "press" /\ queue'[i].time = now /\ queue'[i].key = p.key
      BY <3>1, <3>2, ReleaseEffect
    <3> QED  BY <2>1, <3>3 DEF Pending, Tells
  <2>2. CASE RemoteOf[p.key] \notin PressSenders
    <3>1. p \in toScene /\ p \notin toScene'
      BY <1>2, <2>2 DEF Untold
    <3>2. UpdateScene(p)
      BY <3>1 DEF Sending, UpdateScene, Release, TouchScene
    <3>3. p.at = now
      BY <3>1 DEF ClockFits
    <3>4. \E i \in 1 .. Len(queue') :
            queue'[i].kind = "scene" /\ queue'[i].time = now /\ queue'[i].trig[p.key] = now
      BY <3>1, <3>2, UpdateEffect
    <3> QED  BY <2>2, <3>3, <3>4 DEF Pending, Tells
  <2> QED  BY <2>1, <2>2
<1> QED  BY <1>1, <1>2

\* A press that is told for the first time has nothing of its key close before it.
LEMMA FirstTold ==
  ASSUME TypeOK, ClockFits, PressesApart, QueueFits, EventsFit, Ghostless, Receiving,
         NEW p \in presses, Tells(queue[1], p), Isolated(p), ~Told(p),
         lastFired[p.key] # Never
  PROVE  lastFired[p.key] + Debounce <= p.at
<1> DEFINE e == [key |-> p.key, at |-> lastFired[p.key]]
<1>1. Len(queue) >= 1 /\ queue[1] \in Message /\ 1 \in 1 .. Len(queue)
  BY ReceiveTail DEF TypeOK
<1>2. /\ p.key \in Keys /\ lastFired[p.key] \in Nat /\ Debounce \in Nat
      /\ \A q \in presses : q.at \in Nat /\ q.rel \in Nat /\ q.at <= q.rel
  BY TimesAssumption DEF TypeOK, Press, ClockFits
<1>3. queue[1].time \in Nat /\ queue[1].time <= p.rel
  BY <1>1, <1>2 DEF Message, Tells
<1>4. e \in Events /\ e.at <= queue[1].time
  BY <1>1, <1>2 DEF EventsFit
<1>5. PICK q \in presses : q.key = p.key /\ lastFired[p.key] \in {q.at, q.rel}
  BY <1>4 DEF Ghostless
<1>6. q # p
  <2>1. e.key = p.key /\ e.at = lastFired[p.key]
    OBVIOUS
  <2> QED  BY <1>4, <1>5, <2>1 DEF Told
<1>7. CASE p.rel < q.at
  BY <1>2, <1>3, <1>4, <1>5, <1>7
<1>8. CASE q.rel < p.at
  <2>1. q.at < p.at
    BY <1>2, <1>8
  <2>2. p.at - q.rel >= Debounce
    BY <1>5, <2>1 DEF Isolated
  <2> QED  BY <1>2, <1>5, <2>2
<1> QED  BY <1>5, <1>6, <1>7, <1>8 DEF PressesApart

LEMMA MissedStep ==
  /\ TypeOK /\ ClockFits /\ PressesApart /\ SceneFits /\ QueueFits /\ EventsFit
  /\ GhostFree /\ NothingMissed /\ [Next]_vars
  => NothingMissed'
<1> SUFFICES ASSUME TypeOK, ClockFits, PressesApart, SceneFits, QueueFits, EventsFit,
                    GhostFree, NothingMissed, [Next]_vars,
                    ~FreshScenes, ~lost', NEW p \in presses', Counts(p)'
             PROVE  Told(p)' \/ Pending(p)'
  BY DEF NothingMissed
<1>0. ASSUME p \in presses PROVE Counts(p)
  <2>1. Isolated(p)' => Isolated(p)
    BY Onwards DEF Isolated
  <2> QED  BY <2>1 DEF Counts
<1>1. ASSUME p \in presses, ~lost PROVE Told(p) \/ Pending(p)
  BY <1>0, <1>1 DEF NothingMissed
<1>2. ASSUME NEW k \in Keys, PressKey(k) PROVE Told(p)' \/ Pending(p)'
  <2>1. PICK q \in Press :
          /\ q.key = k /\ presses' = presses \cup {q}
          /\ toScene' = IF k \in SceneKeys THEN toScene \cup {q} ELSE toScene
          /\ toPress' = IF RemoteOf[k] \in PressSenders THEN toPress \cup {q} ELSE toPress
    BY <1>2, PressKeyEffect
  <2>2. UNCHANGED <<queue, Events, lost>>
    BY <1>2 DEF PressKey, Events
  <2>3. CASE p \in presses
    <3>1. Pending(p) => Pending(p)'
      BY <2>1, <2>2 DEF Pending, Untold
    <3> QED  BY <1>1, <2>2, <2>3, <3>1 DEF Told
  <2>4. CASE p = q
    BY <2>1, <2>4 DEF Pending, Untold, Counts
  <2> QED  BY <2>1, <2>3, <2>4
<1>3. CASE Sending
  <2>1. UNCHANGED <<presses, Events, lost>>
    BY <1>3, SendingEffect DEF Events
  <2>2. Untold(p) => Pending(p)'
    BY <1>3, <2>1, SentTells
  <2>3. \A i \in 1 .. Len(queue) : i \in 1 .. Len(queue') /\ queue'[i] = queue[i]
    BY <1>3, SendingEffect DEF Later, TypeOK
  <2>4. Pending(p) => Pending(p)'
    BY <2>2, <2>3 DEF Pending, Tells
  <2> QED  BY <1>1, <2>1, <2>4 DEF Told
<1>4. CASE Receiving
  <2>1. PICK ks \in SUBSET Keys : Received(ks) /\ Reported(ks)
    BY <1>4, ReceiveEffect
  <2>2. UNCHANGED <<presses, toScene, toPress, lost>> /\ p \in presses
    BY <1>4, ReceiveFrame DEF hubVars
  <2>3. Events \subseteq Events'
    BY <2>1 DEF Received
  <2>4. CASE Told(p)
    BY <2>3, <2>4 DEF Told
  <2>5. CASE Untold(p)
    BY <2>2, <2>5 DEF Pending, Untold
  <2>6. ASSUME NEW i \in 1 .. Len(queue), Tells(queue[i], p), i # 1 PROVE Pending(p)'
    <3>1. i - 1 \in 1 .. Len(queue') /\ queue'[i - 1] = queue[i]
      BY <1>4, <2>6, ReceiveTail DEF TypeOK
    <3> QED  BY <2>6, <3>1 DEF Pending, Tells
  <2>7. ASSUME Tells(queue[1], p), ~Told(p) PROVE Told(p)'
    <3>1. Counts(p) /\ Ghostless
      BY <1>0, <2>2 DEF GhostFree
    <3>2. lastFired[p.key] = Never \/ lastFired[p.key] + Debounce <= p.at
      BY <1>4, <2>2, <2>7, <3>1, FirstTold DEF Counts
    <3>3. p.key \in ks /\ lastFired'[p.key] \in {p.at, p.rel}
      BY <2>1, <2>2, <2>7, <3>1, <3>2 DEF Reported, Counts
    <3>4. [key |-> p.key, at |-> lastFired'[p.key]] \in Events'
      BY <2>1, <3>3 DEF Received
    <3> QED  BY <3>3, <3>4 DEF Told
  <2> QED  BY <1>1, <2>2, <2>4, <2>5, <2>6, <2>7 DEF Pending
<1>5. CASE UNCHANGED <<presses, toScene, toPress, queue, Events, lost>>
  <2>1. Pending(p) => Pending(p)'
    BY <1>5 DEF Pending, Untold
  <2> QED  BY <1>1, <1>5, <2>1 DEF Told
<1> QED
  BY <1>2, <1>3, <1>4, <1>5
     DEF Next, Sending, Receiving, Tick, Restart, Disconnect, vars, hubVars, Events

-----------------------------------------------------------------------------
(* Theorems.                                                               *)

LEMMA InitHolds == Init => IInv
<1> SUFFICES ASSUME Init PROVE IInv
  OBVIOUS
<1>0. /\ Start \in Nat /\ Start > 1 /\ now = Start /\ queue = <<>> /\ presses = {}
      /\ Events = {} /\ \A k \in Keys : DOMAIN fired[k] = {}
  <2>1. \A k \in Keys : fired[k] = <<>>
    BY DEF Init
  <2>2. \A k \in Keys : DOMAIN fired[k] = {}
    BY <2>1
  <2> QED  BY <2>2, TimesAssumption DEF Init, Start, Events
<1>1. ClockFits
  BY <1>0 DEF Init, ClockFits
<1>2. SceneFits
  BY <1>0 DEF Init, SceneFits, TriggersFit, Never
<1>3. QueueFits
  BY <1>0 DEF QueueFits
<1>4. EventsFit
  BY <1>0 DEF Init, EventsFit
<1>5. PressesApart /\ HistoryFits /\ EventsSpaced /\ WarmFits /\ WarmQuiet /\ NothingMissed
  BY <1>0 DEF PressesApart, HistoryFits, EventsSpaced, WarmFits, WarmQuiet, NothingMissed
<1>6. GhostFree
  BY <1>0 DEF GhostFree, Ghostless
<1> QED  BY TypeInit, <1>1, <1>2, <1>3, <1>4, <1>5, <1>6 DEF IInv

LEMMA InvHolds == Spec => []IInv
<1>1. IInv /\ [Next]_vars => IInv'
  BY TypeStep, ClockStep, ApartStep, SceneStep, QueueStep, EventsStep, HistoryStep, SpacedStep,
     GhostStep, WarmStep, QuietStep, MissedStep DEF IInv
<1> QED  BY InitHolds, <1>1, PTL DEF Spec

\* Every variable keeps its type.
THEOREM TypeCorrect == Spec => []TypeOK
<1>1. IInv => TypeOK
  BY DEF IInv
<1> QED  BY InvHolds, <1>1, PTL

\* Each event of a key is at least Debounce later than every earlier one of that key, so none
\* is fired twice for one time, whichever path reported them, whatever was lost and across
\* restarts (_fire_controller_event, controller_trigger_last_time_map).
THEOREM FarApart == Spec => []EventsSpaced
<1>1. IInv => EventsSpaced
  BY DEF IInv
<1> QED  BY InvHolds, <1>1, PTL

\* The events are what is fired, a press is told of when it is reported.
LEMMA EventsReport ==
  ASSUME TypeOK, NEW p \in presses
  PROVE  Told(p) <=> Reports(p) # {}
<1>1. p.key \in Keys /\ p.at \in Nat /\ p.rel \in Nat
  BY DEF TypeOK, Press
<1>2. ASSUME NEW i \in Reports(p) PROVE Told(p)
  <2>1. [key |-> p.key, at |-> fired[p.key][i]] \in Events
    BY <1>1 DEF Events, Reports
  <2> QED  BY <2>1 DEF Told, Reports
<1>3. ASSUME Told(p) PROVE Reports(p) # {}
  BY <1>3 DEF Told, Events, Reports
<1> QED  BY <1>2, <1>3

\* Every event stands for a press of its key (parse_scene_update), for a scene of which some
\* trigger has fired: without one the code takes the time of the scene itself.
THEOREM NoGhosts == ASSUME ~FreshScenes PROVE Spec => []NoGhostPress
<1>1. IInv => NoGhostPress
  <2> SUFFICES ASSUME IInv, NEW k \in Keys, NEW i \in DOMAIN fired[k]
               PROVE  \E p \in presses : p.key = k /\ i \in Reports(p)
    BY DEF NoGhostPress
  <2> DEFINE e == [key |-> k, at |-> fired[k][i]]
  <2>1. fired[k] \in Seq(Nat)
    BY DEF IInv, TypeOK
  <2>2. fired[k][i] \in Nat
    BY <2>1
  <2>3. e \in Events /\ e.key = k /\ e.at = fired[k][i]
    BY <2>2 DEF Events
  <2>4. PICK p \in presses : e.key = p.key /\ e.at \in {p.at, p.rel}
    BY <2>3 DEF IInv, GhostFree, Ghostless
  <2> QED  BY <2>3, <2>4 DEF Reports
<1> QED  BY InvHolds, <1>1, PTL

\* Of two events of one press the first has the time of the press and the second that of its
\* release; it is long, and the first one that its remote reports since a restart.
LEMMA TwoReports ==
  ASSUME ~FreshScenes, IInv, NEW p \in presses,
         NEW i \in Reports(p), NEW j \in Reports(p), i < j
  PROVE  /\ fired[p.key][i] = p.at /\ fired[p.key][j] = p.rel
         /\ p.cold /\ p.rel - p.at >= Debounce /\ p.at # p.rel
<1>1. /\ p.key \in Keys /\ p.at \in Nat /\ p.rel \in Nat /\ p.at <= p.rel
      /\ Debounce \in Nat \ {0}
  BY TimesAssumption DEF IInv, TypeOK, Press, ClockFits
<1>2. fired[p.key][j] - fired[p.key][i] >= Debounce
  BY <1>1 DEF IInv, EventsSpaced, Reports
<1>3. fired[p.key][i] \in {p.at, p.rel} /\ fired[p.key][j] \in {p.at, p.rel}
  BY DEF Reports
<1>4. /\ fired[p.key][i] = p.at /\ fired[p.key][j] = p.rel
      /\ p.rel - p.at >= Debounce /\ p.at # p.rel
  BY <1>1, <1>2, <1>3
<1>5. [key |-> p.key, at |-> p.at] \in Events
  BY <1>1, <1>4 DEF Events, Reports
<1>6. p.cold
  BY <1>4, <1>5 DEF IInv, WarmQuiet
<1> QED  BY <1>4, <1>6

\* One press fires at most one event, and two if it is long and the first one that the remote
\* reports since a restart; every call of bus.fire counts, those of one time too
\* (_fire_controller_event, remotes_with_press_events).
THEOREM OneEvent == ASSUME ~FreshScenes PROVE Spec => []OncePerPress
<1>1. IInv => OncePerPress
  <2> SUFFICES ASSUME IInv, NEW p \in presses
               PROVE  Cardinality(Reports(p))
                        <= IF p.cold /\ p.rel - p.at >= Debounce THEN 2 ELSE 1
    BY DEF OncePerPress
  <2>1. \A i \in Reports(p) : i \in Nat
    <3>1. p.key \in Keys
      BY DEF IInv, TypeOK, Press
    <3>2. fired[p.key] \in Seq(Nat)
      BY <3>1 DEF IInv, TypeOK
    <3> QED  BY <3>2 DEF Reports
  <2>2. CASE \E i, j \in Reports(p) : i < j
    <3>1. PICK i \in Reports(p), j \in Reports(p) : i < j
      BY <2>2
    <3>2. p.cold /\ p.rel - p.at >= Debounce
      BY <3>1, TwoReports
    <3>3. ASSUME NEW k \in Reports(p), k # i, k # j PROVE FALSE
      <4>1. k < i \/ (i < k /\ k < j) \/ j < k
        BY <2>1, <3>1, <3>3
      <4> QED  BY <3>1, <4>1, TwoReports
    <3>4. Reports(p) = {i, j} /\ i # j
      BY <2>1, <3>1, <3>3
    <3>5. Cardinality({i}) = 1 /\ IsFiniteSet({i}) /\ {i, j} = {i} \cup {j} /\ j \notin {i}
      BY <3>4, FS_Singleton
    <3>6. Cardinality({i, j}) = 2
      BY <3>5, FS_AddElement
    <3> QED  BY <3>2, <3>4, <3>6
  <2>3. CASE \A i, j \in Reports(p) : ~(i < j)
    <3>1. \A i, j \in Reports(p) : i = j
      BY <2>1, <2>3
    <3>2. PICK x : Reports(p) = {} \/ Reports(p) = {x}
      BY <3>1
    <3>3. Cardinality(Reports(p)) \in {0, 1}
      BY <3>2, FS_EmptySet, FS_Singleton
    <3> QED  BY <3>3
  <2> QED  BY <2>2, <2>3
<1> QED  BY InvHolds, <1>1, PTL

\* And it fires one, if nothing was lost, its remote is known and its key was not let go
\* less than Debounce before.
THEOREM NoneMissed == ASSUME ~FreshScenes PROVE Spec => []NoMissedPress
<1>1. IInv => NoMissedPress
  <2> SUFFICES ASSUME IInv, queue = <<>>, ~lost, NEW p \in presses \ (toScene \cup toPress),
                      Counts(p)
               PROVE  Reports(p) # {}
    BY DEF NoMissedPress, Counts
  <2>1. ~Pending(p)
    BY DEF Pending, Untold
  <2>2. Told(p)
    BY <2>1 DEF IInv, NothingMissed
  <2> QED  BY <2>2, EventsReport DEF IInv
<1> QED  BY InvHolds, <1>1, PTL

-----------------------------------------------------------------------------
(* The lights.                                                             *)

\* What the events not received yet tell of an attribute: there is one, and the last has v.
HasEvent(s, a) == \E i \in DOMAIN s : s[i].attr = a
LastEvent(s, a, v) ==
  \A i \in DOMAIN s :
    s[i].attr = a /\ (\A j \in DOMAIN s : j > i => s[j].attr # a) => s[i].val = v

\* A service call that has been made and is not over.
Active(c) == call[c].at \in {"ask", "sent", "back"}

\* A call that is under way has something to send; an update sends nothing, and has the bulb
\* it fetched when it comes back.
CallsFit ==
  \A c \in Calls :
    /\ call[c].at = "idle" => call[c].to = "none"
    /\ call[c].to \in Entities /\ Active(c) => call[c].todo # <<>>
    /\ call[c].to = "update" => call[c].at # "sent"
    /\ call[c].to = "update" /\ call[c].at = "back" => call[c].snap \in Light

\* The last events tell what the bulb has.
WireFits == \A a \in Attrs : LastEvent(wire, a, hub[a])

\* The light_level setter writes the brightness to the model before its PATCH is answered.
Ahead(a) ==
  a = "lightLevel" /\ \E c \in Calls :
    /\ call[c].to = "bulb" /\ call[c].at \in {"ask", "sent"} /\ call[c].obj = obj
    /\ call[c].todo[1].attr = a

\* An attribute of the model is the bulb's, or an event that tells it is on its way, or it was
\* written late, or a call is about to write it.
HeldFollows ==
  \A a \in Attrs : held[a] = hub[a] \/ a \in late \/ HasEvent(wire, a) \/ Ahead(a)

\* What Home Assistant shows of the bulb is the model, or a write of the state is to come: the
\* one scheduled, the one of the event at hand, that of a call; or the last was left out.
ShownFollows ==
  \A a \in Attrs :
    \/ shown["bulb"][a] = held[a] \/ "fail" \in unpushed \/ (a # "isOn" /\ "skip" \in unpushed)
    \/ "bulb" \in pending \/ got = a
    \/ \E c \in Calls : call[c].to = "bulb" /\ Active(c)

\* Services have been called on the set alone.
OnlySet == \A c \in Calls : call[c].to \in {"none", "set"}

\* Then no echo is ignored, nothing but events changes the model, and every event is shown.
SetFollows ==
  OnlySet =>
    /\ ~ignore
    /\ \A a \in Attrs : held[a] = hub[a] \/ HasEvent(wire, a)
    /\ \A e \in Entities, a \in Attrs : shown[e][a] = held[a] \/ e \in pending \/ got = a

\* None of the three properties is inductive: each speaks of rest only, the invariant of what
\* is still to come until then.
LightInv == LightTypeOK /\ CallsFit /\ WireFits /\ HeldFollows /\ ShownFollows /\ SetFollows

-----------------------------------------------------------------------------
(* Sequences, attributes and events.                                       *)

\* What is left when on_message takes the first event.
LEMMA TailOf ==
  ASSUME NEW S, NEW s \in Seq(S), s # <<>>
  PROVE  /\ Tail(s) \in Seq(S) /\ Head(s) \in S /\ Head(s) = s[1]
         /\ DOMAIN s = 1 .. Len(s) /\ Len(s) \in Nat \ {0}
         /\ DOMAIN Tail(s) = 1 .. (Len(s) - 1)
         /\ \A i \in 1 .. (Len(s) - 1) : Tail(s)[i] = s[i + 1]
OBVIOUS

\* What is there when the hub sends one.
LEMMA AppendOf ==
  ASSUME NEW S, NEW s \in Seq(S), NEW x \in S
  PROVE  /\ Append(s, x) \in Seq(S)
         /\ s \o <<>> = s /\ s \o <<x>> = Append(s, x)
         /\ \A y \in S : s \o <<x, y>> = Append(Append(s, x), y)
         /\ DOMAIN s = 1 .. Len(s) /\ Len(s) \in Nat
         /\ DOMAIN Append(s, x) = 1 .. (Len(s) + 1)
         /\ \A i \in 1 .. Len(s) : Append(s, x)[i] = s[i]
         /\ Append(s, x)[Len(s) + 1] = x
OBVIOUS

\* The attributes of a light that the model has.
LEMMA AttrsAre == Attrs = {"isOn", "lightLevel", "colorMode"}
BY DEF Attrs, Values

\* A PATCH changes one attribute and leaves a light.
LEMMA LightIs ==
  ASSUME NEW l \in Light
  PROVE  \A p \in Patch :
           /\ p.attr \in Attrs
           /\ [l EXCEPT ![p.attr] = p.val] \in Light
           /\ \A a \in Attrs :
                [l EXCEPT ![p.attr] = p.val][a] = IF a = p.attr THEN p.val ELSE l[a]
<1> SUFFICES ASSUME NEW p \in Patch
             PROVE  /\ p.attr \in Attrs
                    /\ [l EXCEPT ![p.attr] = p.val] \in Light
                    /\ \A a \in Attrs :
                         [l EXCEPT ![p.attr] = p.val][a] = IF a = p.attr THEN p.val ELSE l[a]
  OBVIOUS
<1>1. PICK b \in Attrs : p \in [attr : {b}, val : Values[b]]
  BY DEF Patch
<1>2. p.attr = b /\ p.val \in Values[b]
  BY <1>1
<1>3. \A a \in Attrs : [l EXCEPT ![p.attr] = p.val][a] = IF a = p.attr THEN p.val ELSE l[a]
  BY <1>2, AttrsAre DEF Light
<1>4. [l EXCEPT ![p.attr] = p.val] \in Light
  BY <1>2, AttrsAre DEF Light, Values
<1> QED
  BY <1>2, <1>3, <1>4

\* An event that is added is the last of its attribute.
LEMMA EventAdded ==
  ASSUME NEW s \in Seq(Patch), NEW x \in Patch
  PROVE  /\ HasEvent(Append(s, x), x.attr) /\ LastEvent(Append(s, x), x.attr, x.val)
         /\ \A a : HasEvent(s, a) => HasEvent(Append(s, x), a)
         /\ \A a, v : a # x.attr /\ LastEvent(s, a, v) => LastEvent(Append(s, x), a, v)
<1>1. HasEvent(Append(s, x), x.attr) /\ LastEvent(Append(s, x), x.attr, x.val)
  BY AppendOf DEF HasEvent, LastEvent
<1>2. \A a : HasEvent(s, a) => HasEvent(Append(s, x), a)
  BY AppendOf DEF HasEvent
<1>3. ASSUME NEW a, NEW v, a # x.attr, LastEvent(s, a, v) PROVE LastEvent(Append(s, x), a, v)
  <2> SUFFICES ASSUME NEW i \in DOMAIN Append(s, x), Append(s, x)[i].attr = a,
                      \A j \in DOMAIN Append(s, x) : j > i => Append(s, x)[j].attr # a
               PROVE  Append(s, x)[i].val = v
    BY DEF LastEvent
  <2>1. i \in 1 .. Len(s)
    BY <1>3, AppendOf
  <2>2. \A j \in DOMAIN s : j > i => s[j].attr # a
    BY <2>1, AppendOf
  <2> QED
    BY <1>3, <2>1, <2>2, AppendOf DEF LastEvent
<1> QED
  BY <1>1, <1>2, <1>3

\* The first event is taken: the last of an attribute stays, or it was the first.
LEMMA EventTaken ==
  ASSUME NEW s \in Seq(Patch), s # <<>>
  PROVE  /\ \A a : HasEvent(s, a) /\ a # Head(s).attr => HasEvent(Tail(s), a)
         /\ \A a, v : LastEvent(s, a, v) => LastEvent(Tail(s), a, v)
         /\ \A a, v : LastEvent(s, a, v) /\ Head(s).attr = a /\ ~HasEvent(Tail(s), a)
                        => Head(s).val = v
<1>1. ASSUME NEW a, HasEvent(s, a), a # Head(s).attr PROVE HasEvent(Tail(s), a)
  <2>1. PICK i \in DOMAIN s : s[i].attr = a
    BY <1>1 DEF HasEvent
  <2>2. i - 1 \in DOMAIN Tail(s) /\ Tail(s)[i - 1] = s[i]
    BY <1>1, <2>1, TailOf
  <2> QED
    BY <2>1, <2>2 DEF HasEvent
<1>2. ASSUME NEW a, NEW v, LastEvent(s, a, v) PROVE LastEvent(Tail(s), a, v)
  <2> SUFFICES ASSUME NEW i \in DOMAIN Tail(s), Tail(s)[i].attr = a,
                      \A j \in DOMAIN Tail(s) : j > i => Tail(s)[j].attr # a
               PROVE  Tail(s)[i].val = v
    BY DEF LastEvent
  <2>1. i + 1 \in DOMAIN s /\ Tail(s)[i] = s[i + 1]
    BY TailOf
  <2>2. \A j \in DOMAIN s : j > i + 1 => s[j].attr # a
    <3> SUFFICES ASSUME NEW j \in DOMAIN s, j > i + 1 PROVE s[j].attr # a
      OBVIOUS
    <3>1. j - 1 \in DOMAIN Tail(s) /\ j - 1 > i /\ Tail(s)[j - 1] = s[j]
      BY TailOf
    <3> QED
      BY <3>1
  <2> QED
    BY <1>2, <2>1, <2>2 DEF LastEvent
<1>3. ASSUME NEW a, NEW v, LastEvent(s, a, v), Head(s).attr = a, ~HasEvent(Tail(s), a)
      PROVE  Head(s).val = v
  <2>1. \A j \in DOMAIN s : j > 1 => s[j].attr # a
    <3> SUFFICES ASSUME NEW j \in DOMAIN s, j > 1 PROVE s[j].attr # a
      OBVIOUS
    <3>1. j - 1 \in DOMAIN Tail(s) /\ Tail(s)[j - 1] = s[j]
      BY TailOf
    <3> QED
      BY <1>3, <3>1 DEF HasEvent
  <2> QED
    BY <1>3, <2>1, TailOf DEF LastEvent
<1> QED
  BY <1>1, <1>2, <1>3

\* What turn_on sends first stays first.
LEMMA ConcatHead ==
  ASSUME NEW S, NEW s \in Seq(S), NEW r \in Seq(S), s # <<>>
  PROVE  s \o r \in Seq(S) /\ s \o r # <<>> /\ (s \o r)[1] = s[1]
OBVIOUS

\* What a service call sends are PATCHes, the first of them of isOn.
LEMMA RequestsFit ==
  ASSUME NEW todo \in Requests
  PROVE  todo \in Seq(Patch) /\ todo # <<>> /\ todo[1].attr = "isOn"
<1>1. [attr |-> "isOn", val |-> "on"] \in Patch /\ [attr |-> "isOn", val |-> "off"] \in Patch
  BY AttrsAre DEF Patch, Values
<1>2. ASSUME NEW a \in Attrs, NEW o \in Optional(a) PROVE o \in Seq(Patch)
  <2>1. CASE o = <<>>
    BY <2>1
  <2>2. CASE o # <<>>
    <3>1. PICK v \in Values[a] : o = <<[attr |-> a, val |-> v]>>
      BY <2>2 DEF Optional
    <3>2. [attr |-> a, val |-> v] \in Patch
      BY DEF Patch
    <3> QED
      BY <3>1, <3>2
  <2> QED
    BY <2>1, <2>2
<1>3. CASE todo = TurnOff
  BY <1>1, <1>3 DEF TurnOff
<1>4. CASE todo # TurnOff
  <2>1. PICK l \in Optional("lightLevel"), k \in Optional("colorMode") :
          todo = TurnOn \o l \o k
    BY <1>4, RequestsAssumption
  <2>2. l \in Seq(Patch) /\ k \in Seq(Patch)
    BY <1>2, AttrsAre
  <2>3. TurnOn \in Seq(Patch) /\ TurnOn # <<>> /\ TurnOn[1].attr = "isOn"
    BY <1>1 DEF TurnOn
  <2>4. TurnOn \o l \in Seq(Patch) /\ TurnOn \o l # <<>> /\ (TurnOn \o l)[1] = TurnOn[1]
    BY <2>2, <2>3, ConcatHead
  <2>5. todo \in Seq(Patch) /\ todo # <<>> /\ todo[1] = (TurnOn \o l)[1]
    BY <2>1, <2>2, <2>4, ConcatHead
  <2> QED
    BY <2>3, <2>4, <2>5
<1> QED
  BY <1>3, <1>4

-----------------------------------------------------------------------------
(* What the operations of the model do.                                    *)

ServiceCall == [to : {"none", "bulb", "set", "update"}, todo : Seq(Patch),
         at : {"idle", "ask", "sent", "back", "done"}, obj : 0 .. obj, snap : Light \cup {<<>>}]

\* The next PATCH goes out; nothing but the brightness of the model may change.
LEMMA SubmitEffect ==
  ASSUME LightTypeOK, NEW c \in Calls, NEW to \in Entities,
         NEW todo \in Seq(Patch), todo # <<>>,
         NEW m \in Light, Submit(c, to, todo, m)
  PROVE  /\ call' \in [Calls -> ServiceCall]
         /\ \A d \in Calls \ {c} : call'[d] = call[d]
         /\ call'[c].to = to /\ call'[c].todo = todo /\ call'[c].at = "ask"
         /\ call'[c].obj = obj
         /\ held' \in Light
         /\ \A a \in Attrs :
              \/ to = "bulb" /\ a = "lightLevel" /\ todo[1].attr = a
              \/ held'[a] = m[a]
<1> DEFINE r == [to |-> to, todo |-> todo, at |-> "ask", obj |-> obj, snap |-> <<>>]
<1>1. r \in ServiceCall /\ r.to = to /\ r.todo = todo /\ r.at = "ask" /\ r.obj = obj
  BY DEF ServiceCall, LightTypeOK, Entities
<1>2. call' = [call EXCEPT ![c] = r] /\ call \in [Calls -> ServiceCall]
  BY DEF Submit, LightTypeOK, ServiceCall
<1> HIDE DEF r
<1>3. /\ call' \in [Calls -> ServiceCall] /\ call'[c] = r
      /\ \A d \in Calls \ {c} : call'[d] = call[d]
  BY <1>1, <1>2
<1>4. todo[1] \in Patch
  BY TailOf
<1>5. CASE to = "bulb" /\ todo[1].attr = "lightLevel"
  <2>1. PICK p \in Patch : p = todo[1]
    BY <1>4
  <2>2. held' = [m EXCEPT ![p.attr] = p.val]
    BY <1>5, <2>1 DEF Submit
  <2>3. /\ held' \in Light
        /\ \A a \in Attrs : held'[a] = IF a = p.attr THEN p.val ELSE m[a]
    BY <2>2, LightIs
  <2> QED
    BY <1>1, <1>3, <1>5, <2>1, <2>3
<1>6. CASE ~(to = "bulb" /\ todo[1].attr = "lightLevel")
  <2>1. held' = m
    BY <1>6 DEF Submit
  <2> QED
    BY <1>1, <1>3, <1>6, <2>1
<1> QED
  BY <1>5, <1>6

\* A call is over, for the entity it was made on.
LEMMA DoneEffect ==
  ASSUME LightTypeOK, NEW c \in Calls, Done(c)
  PROVE  /\ call' \in [Calls -> ServiceCall]
         /\ \A d \in Calls \ {c} : call'[d] = call[d]
         /\ call'[c].to = call[c].to /\ call'[c].at = "done"
<1> DEFINE r == [Idle EXCEPT !.at = "done", !.to = call[c].to]
<1>1. call[c].to \in {"none", "bulb", "set", "update"}
  BY DEF LightTypeOK
<1>2. r.to = call[c].to /\ r.todo = <<>> /\ r.at = "done" /\ r.obj = 0 /\ r.snap = <<>>
  BY DEF Idle
<1>3. r \in ServiceCall
  <2>1. r \in [to : {"none", "bulb", "set", "update"}, todo : {<<>>}, at : {"done"},
                obj : {0}, snap : {<<>>}]
    BY <1>1 DEF Idle
  <2>2. <<>> \in Seq(Patch) /\ <<>> \in Light \cup {<<>>} /\ 0 \in 0 .. obj
    BY DEF LightTypeOK
  <2> QED
    BY <2>1, <2>2 DEF ServiceCall
<1>4. call' = [call EXCEPT ![c] = r] /\ call \in [Calls -> ServiceCall]
  BY DEF Done, LightTypeOK, ServiceCall
<1> HIDE DEF r
<1> QED
  BY <1>2, <1>3, <1>4

\* What a PATCH does on the hub, and the events it sends.
LEMMA ApplyEffect ==
  ASSUME LightTypeOK, WireFits, NEW p \in Patch, Apply(p)
  PROVE  /\ hub' \in Light /\ wire' \in Seq(Patch) /\ WireFits'
         /\ \A a \in Attrs : HasEvent(wire, a) => HasEvent(wire', a)
         /\ \A a \in Attrs : hub'[a] = hub[a] \/ HasEvent(wire', a)
<1>1. hub \in Light /\ wire \in Seq(Patch)
  BY DEF LightTypeOK
<1>2. /\ hub' \in Light /\ p.attr \in Attrs
      /\ \A a \in Attrs : hub'[a] = IF a = p.attr THEN p.val ELSE hub[a]
  BY <1>1, LightIs DEF Apply
<1> DEFINE q == [p EXCEPT !.val = hub[p.attr]]
<1>3. q \in Patch /\ q.attr = p.attr
  <2>1. hub[p.attr] \in Values[p.attr]
    BY <1>1, <1>2, AttrsAre DEF Light, Values
  <2>2. PICK b \in Attrs : p \in [attr : {b}, val : Values[b]]
    BY DEF Patch
  <2>3. q = [attr |-> b, val |-> hub[b]]
    BY <2>2
  <2> QED
    BY <2>1, <2>2, <2>3 DEF Patch
<1>4. PICK echo \in Echoes(p) : wire' = wire \o echo
  BY DEF Apply
<1>5. \/ echo = <<p>>
      \/ echo = <<>> /\ hub[p.attr] = p.val
      \/ echo = <<q, p>>
  BY DEF Echoes
<1> HIDE DEF q
<1>6. CASE echo = <<>> /\ hub[p.attr] = p.val
  <2>1. wire' = wire /\ \A a \in Attrs : hub'[a] = hub[a]
    BY <1>1, <1>2, <1>4, <1>6, AppendOf
  <2> QED
    BY <1>1, <1>2, <2>1 DEF WireFits
<1>7. ASSUME NEW w \in Seq(Patch), wire' = Append(w, p),
             \A a \in Attrs : HasEvent(wire, a) => HasEvent(w, a),
             \A a \in Attrs : a # p.attr => LastEvent(w, a, hub[a])
      PROVE  /\ wire' \in Seq(Patch) /\ WireFits'
             /\ \A a \in Attrs : HasEvent(wire, a) => HasEvent(wire', a)
             /\ \A a \in Attrs : hub'[a] = hub[a] \/ HasEvent(wire', a)
  <2>1. wire' \in Seq(Patch)
    BY <1>7, AppendOf
  <2>2. WireFits'
    BY <1>2, <1>7, EventAdded DEF WireFits
  <2> QED
    BY <1>2, <1>7, <2>1, <2>2, EventAdded
<1>8. CASE echo = <<p>>
  <2>1. wire' = Append(wire, p)
    BY <1>1, <1>4, <1>8, AppendOf
  <2> QED
    BY <1>1, <1>2, <1>7, <2>1 DEF WireFits
<1>9. CASE echo = <<q, p>>
  <2>1. Append(wire, q) \in Seq(Patch) /\ wire' = Append(Append(wire, q), p)
    BY <1>1, <1>3, <1>4, <1>9, AppendOf
  <2>2. \A a \in Attrs : HasEvent(wire, a) => HasEvent(Append(wire, q), a)
    BY <1>1, <1>3, EventAdded
  <2>3. \A a \in Attrs : a # p.attr => LastEvent(Append(wire, q), a, hub[a])
    BY <1>1, <1>3, EventAdded DEF WireFits
  <2> QED
    BY <1>2, <1>7, <2>1, <2>2, <2>3
<1> QED
  BY <1>5, <1>6, <1>8, <1>9

\* Someone's touch is the last event, too.
LEMMA LampTouched ==
  ASSUME LightTypeOK, WireFits, Touch
  PROVE  /\ hub' \in Light /\ wire' \in Seq(Patch) /\ WireFits'
         /\ \A a \in Attrs : HasEvent(wire, a) => HasEvent(wire', a)
         /\ \A a \in Attrs : hub'[a] = hub[a] \/ HasEvent(wire', a)
<1>1. hub \in Light /\ wire \in Seq(Patch)
  BY DEF LightTypeOK
<1>2. PICK p \in Patch : hub' = [hub EXCEPT ![p.attr] = p.val] /\ wire' = Append(wire, p)
  BY DEF Touch
<1>3. /\ hub' \in Light
      /\ \A a \in Attrs : hub'[a] = IF a = p.attr THEN p.val ELSE hub[a]
  BY <1>1, <1>2, LightIs
<1>4. wire' \in Seq(Patch)
  BY <1>1, <1>2, AppendOf
<1>5. WireFits'
  BY <1>1, <1>2, <1>3, EventAdded DEF WireFits
<1> QED
  BY <1>1, <1>2, <1>3, <1>4, <1>5, EventAdded

\* on_message takes the first event into the model.
LEMMA EventReceived ==
  ASSUME LightTypeOK, WireFits, Receive
  PROVE  /\ wire' \in Seq(Patch) /\ WireFits' /\ held' \in Light /\ got' \in Attrs
         /\ \A a \in Attrs : a # got' => held'[a] = held[a]
         /\ \A a \in Attrs : a # got' /\ HasEvent(wire, a) => HasEvent(wire', a)
         /\ held'[got'] = hub[got'] \/ HasEvent(wire', got')
<1>1. /\ held \in Light /\ wire \in Seq(Patch) /\ wire # <<>> /\ wire' = Tail(wire)
      /\ Head(wire) \in Patch /\ wire' \in Seq(Patch)
  BY TailOf DEF LightTypeOK, Receive
<1>2. /\ got' = Head(wire).attr /\ got' \in Attrs /\ held' \in Light
      /\ \A a \in Attrs : held'[a] = IF a = got' THEN Head(wire).val ELSE held[a]
  <2>1. PICK p \in Patch : p = Head(wire)
    BY <1>1
  <2>2. got' = p.attr
    BY <2>1 DEF Receive
  <2>3. held' = [held EXCEPT ![p.attr] = p.val]
    BY <2>1 DEF Receive
  <2>4. p.attr \in Attrs /\ held' \in Light
        /\ \A a \in Attrs : held'[a] = IF a = p.attr THEN p.val ELSE held[a]
    BY <1>1, <2>3, LightIs
  <2> QED
    BY <2>1, <2>2, <2>4
<1>3. hub' = hub
  BY DEF Receive
<1>4. WireFits'
  BY <1>1, <1>3, EventTaken DEF WireFits
<1>5. held'[got'] = hub[got'] \/ HasEvent(wire', got')
  BY <1>1, <1>2, EventTaken DEF WireFits
<1> QED
  BY <1>1, <1>2, <1>4, <1>5, EventTaken

\* A call that only moves on.
LEMMA MovedOn ==
  ASSUME LightTypeOK, NEW c \in Calls, NEW x \in {"ask", "sent", "back"},
         call' = [call EXCEPT ![c].at = x]
  PROVE  /\ call' \in [Calls -> ServiceCall]
         /\ \A d \in Calls \ {c} : call'[d] = call[d]
         /\ call'[c].at = x /\ call'[c].to = call[c].to
         /\ call'[c].todo = call[c].todo
         /\ call'[c].obj = call[c].obj /\ call'[c].snap = call[c].snap
<1>1. call \in [Calls -> ServiceCall]
  BY DEF LightTypeOK, ServiceCall
<1>2. [call[c] EXCEPT !.at = x] \in ServiceCall
  BY <1>1 DEF ServiceCall
<1>3. call'[c] = [call[c] EXCEPT !.at = x] /\ call' \in [Calls -> ServiceCall]
  BY <1>1, <1>2
<1> QED
  BY <1>1, <1>3 DEF ServiceCall

\* What Resume has in the model before it goes on.
ModelAfter(c) ==
  IF call[c].to = "bulb" /\ call[c].todo[1].attr = "colorMode"
  THEN [held EXCEPT !.colorMode = call[c].todo[1].val] ELSE held

\* Back on the event loop the call goes on to its next PATCH or is over.
LEMMA ResumeEffect ==
  ASSUME LightTypeOK, CallsFit, NEW c \in Calls, Resume(c)
  PROVE  /\ call[c].to \in Entities /\ call[c].at = "back" /\ ModelAfter(c) \in Light
         /\ call' \in [Calls -> ServiceCall] /\ held' \in Light
         /\ \A d \in Calls \ {c} : call'[d] = call[d]
         /\ call'[c].to = call[c].to
         /\ \/ /\ call'[c].at = "ask" /\ call'[c].todo # <<>> /\ call'[c].obj = obj
               /\ \A a \in Attrs :
                    \/ call[c].to = "bulb" /\ a = "lightLevel" /\ call'[c].todo[1].attr = a
                    \/ held'[a] = ModelAfter(c)[a]
               /\ UNCHANGED <<shown, unpushed>>
            \/ /\ call'[c].at = "done" /\ held' = ModelAfter(c)
               /\ Finish(call[c].to = "bulb", ModelAfter(c))
<1>1. /\ call[c].to \in Entities /\ call[c].at = "back"
      /\ call[c].todo \in Seq(Patch) /\ call[c].todo # <<>>
  BY DEF Resume, CallsFit, LightTypeOK, Active
<1>2. call[c].todo[1] \in Patch /\ Tail(call[c].todo) \in Seq(Patch)
  BY <1>1, TailOf
<1>3. held \in Light
  BY DEF LightTypeOK
<1>4. ModelAfter(c) \in Light
  <2>1. PICK p \in Patch : p = call[c].todo[1]
    BY <1>2
  <2>2. CASE call[c].to = "bulb" /\ p.attr = "colorMode"
    <3>1. ModelAfter(c) = [held EXCEPT ![p.attr] = p.val]
      BY <2>1, <2>2 DEF ModelAfter
    <3> QED
      BY <1>3, <3>1, LightIs
  <2>3. CASE ~(call[c].to = "bulb" /\ p.attr = "colorMode")
    BY <1>3, <2>1, <2>3 DEF ModelAfter
  <2> QED
    BY <2>2, <2>3
<1>5. CASE Tail(call[c].todo) # <<>>
  <2> DEFINE m == ModelAfter(c)
             rest == Tail(call[c].todo)
             to == call[c].to
  <2>1. Submit(c, to, rest, m) /\ UNCHANGED <<shown, unpushed>>
    BY <1>5 DEF Resume, ModelAfter
  <2>2. m \in Light /\ rest \in Seq(Patch) /\ rest # <<>> /\ to \in Entities
    BY <1>1, <1>2, <1>4, <1>5
  <2> HIDE DEF m, rest
  <2>3. /\ call' \in [Calls -> ServiceCall] /\ held' \in Light
        /\ \A d \in Calls \ {c} : call'[d] = call[d]
        /\ call'[c].to = to /\ call'[c].todo = rest /\ call'[c].at = "ask"
        /\ call'[c].obj = obj
        /\ \A a \in Attrs :
             \/ to = "bulb" /\ a = "lightLevel" /\ rest[1].attr = a
             \/ held'[a] = m[a]
    BY <2>1, <2>2, SubmitEffect
  <2> QED
    BY <1>1, <1>4, <2>1, <2>2, <2>3 DEF m
<1>6. CASE Tail(call[c].todo) = <<>>
  <2>1. held' = ModelAfter(c) /\ Done(c) /\ Finish(call[c].to = "bulb", ModelAfter(c))
    BY <1>6 DEF Resume, ModelAfter
  <2> QED
    BY <1>1, <1>4, <2>1, DoneEffect
<1> QED
  BY <1>5, <1>6

-----------------------------------------------------------------------------
(* The invariant, action by action.                                        *)

\* Every field of the lights keeps its type.
LEMMA LightTypeStep ==
  ASSUME LightTypeOK, CallsFit, WireFits, [LightNext]_lightVars
  PROVE  LightTypeOK'
<1>1. CASE Touch
  <2>1. touches' \in 0 .. MaxTouches
    BY <1>1, RequestsAssumption DEF Touch, LightTypeOK
  <2> QED
    BY <1>1, <2>1, LampTouched DEF Touch, LightTypeOK, history
<1>2. ASSUME NEW c \in Calls, NEW to \in Entities, NEW todo \in Requests,
             Begin(c, to, todo)
      PROVE  LightTypeOK'
  <2>1. todo \in Seq(Patch) /\ todo # <<>>
    BY RequestsFit
  <2>2. Submit(c, to, todo, held) /\ held \in Light
    BY <1>2 DEF Begin, LightTypeOK
  <2>3. call' \in [Calls -> ServiceCall] /\ held' \in Light
    BY <2>1, <2>2, SubmitEffect
  <2> QED
    BY <1>2, <2>3 DEF Begin, ResetIgnoreUpdate, LightTypeOK, ServiceCall, history
<1>3. ASSUME NEW c \in Calls, BeginUpdate(c) PROVE LightTypeOK'
  <2>1. [call[c] EXCEPT !.at = "ask", !.to = "update"] \in ServiceCall
    BY DEF LightTypeOK, ServiceCall
  <2>2. call' \in [Calls -> ServiceCall]
    BY <1>3, <2>1 DEF BeginUpdate, LightTypeOK, ServiceCall
  <2> QED
    BY <1>3, <2>2 DEF BeginUpdate, LightTypeOK, ServiceCall, history
<1>4. ASSUME NEW c \in Calls, Answer(c) PROVE LightTypeOK'
  <2>1. call[c].todo \in Seq(Patch) /\ call[c].todo # <<>>
    BY <1>4 DEF Answer, CallsFit, Active, LightTypeOK
  <2>2. call[c].todo[1] \in Patch
    BY <2>1, TailOf
  <2>3. hub' \in Light /\ wire' \in Seq(Patch)
    BY <1>4, <2>2, ApplyEffect DEF Answer
  <2>4. call' \in [Calls -> ServiceCall]
    BY <1>4, MovedOn DEF Answer
  <2> QED
    BY <1>4, <2>3, <2>4 DEF Answer, LightTypeOK, ServiceCall, history
<1>5. ASSUME NEW c \in Calls, Write(c) PROVE LightTypeOK'
  <2>1. call' \in [Calls -> ServiceCall]
    BY <1>5, MovedOn DEF Write
  <2>2. held' \in Light /\ late' \subseteq Attrs
    <3>1. CASE held' = held /\ late' = late
      BY <3>1 DEF LightTypeOK
    <3>2. CASE call[c].to = "bulb" /\ ~(held' = held /\ late' = late)
      <4>1. call[c].todo \in Seq(Patch) /\ call[c].todo # <<>>
        BY <1>5, <3>2 DEF Write, CallsFit, Active, LightTypeOK, Entities
      <4>2. PICK p \in Patch : p = call[c].todo[1]
        BY <4>1, TailOf
      <4>3. held' = [held EXCEPT ![p.attr] = p.val]
        BY <1>5, <3>2, <4>2 DEF Write
      <4>4. late' \subseteq late \cup {p.attr}
        BY <1>5, <3>2, <4>2 DEF Write
      <4>5. held \in Light /\ late \subseteq Attrs
        BY DEF LightTypeOK
      <4>6. p.attr \in Attrs /\ held' \in Light
        BY <4>3, <4>5, LightIs
      <4> QED
        BY <4>4, <4>5, <4>6
    <3> QED
      BY <1>5, <3>1, <3>2 DEF Write
  <2> QED
    BY <1>5, <2>1, <2>2 DEF Write, LightTypeOK, ServiceCall
<1>6. ASSUME NEW c \in Calls, Fail(c) PROVE LightTypeOK'
  <2>1. call' \in [Calls -> ServiceCall]
    BY <1>6, DoneEffect DEF Fail
  <2>2. late' \subseteq Attrs /\ unpushed' \subseteq {"skip", "fail"}
    <3>1. CASE call[c].to = "bulb"
      <4>1. call[c].todo \in Seq(Patch) /\ call[c].todo # <<>>
        BY <1>6, <3>1 DEF Fail, CallsFit, Active, LightTypeOK, Entities
      <4>2. call[c].todo[1] \in Patch /\ hub \in Light
        BY <4>1, TailOf DEF LightTypeOK
      <4>3. call[c].todo[1].attr \in Attrs
        BY <4>2, LightIs
      <4> QED
        BY <1>6, <3>1, <4>3 DEF Fail, LightTypeOK
    <3>2. CASE call[c].to # "bulb"
      BY <1>6, <3>2 DEF Fail, LightTypeOK
    <3> QED
      BY <3>1, <3>2
  <2> QED
    BY <1>6, <2>1, <2>2 DEF Fail, LightTypeOK, ServiceCall
<1>7. ASSUME NEW c \in Calls, Resume(c) PROVE LightTypeOK'
  <2>1. call' \in [Calls -> ServiceCall] /\ held' \in Light /\ ModelAfter(c) \in Light
    BY <1>7, ResumeEffect
  <2>2. shown' \in [Entities -> Light] /\ unpushed' \subseteq {"skip", "fail"}
    <3>1. UNCHANGED <<shown, unpushed>> \/ Finish(call[c].to = "bulb", ModelAfter(c))
      BY <1>7, ResumeEffect
    <3>2. CASE UNCHANGED <<shown, unpushed>>
      BY <3>2 DEF LightTypeOK
    <3>3. CASE Finish(call[c].to = "bulb", ModelAfter(c))
      <4>1. PICK m \in Light : m = ModelAfter(c)
        BY <2>1
      <4>2. \/ shown' = [shown EXCEPT !["bulb"] = m] /\ unpushed' = {}
            \/ UNCHANGED <<shown, unpushed>>
        BY <3>3, <4>1 DEF Finish
      <4> QED
        BY <4>2 DEF LightTypeOK
    <3> QED
      BY <3>1, <3>2, <3>3
  <2>3. late' \subseteq Attrs /\ ignore' \in BOOLEAN
    BY <1>7, AttrsAre DEF Resume, LightTypeOK
  <2> QED
    BY <1>7, <2>1, <2>2, <2>3 DEF Resume, LightTypeOK, ServiceCall
<1>8. ASSUME NEW c \in Calls, Fetch(c) PROVE LightTypeOK'
  <2>1. [call[c] EXCEPT !.at = "back", !.snap = hub] \in ServiceCall
    BY DEF LightTypeOK, ServiceCall
  <2>2. call' \in [Calls -> ServiceCall]
    BY <1>8, <2>1 DEF Fetch, LightTypeOK, ServiceCall
  <2> QED
    BY <1>8, <2>2 DEF Fetch, LightTypeOK, ServiceCall, history
<1>9. ASSUME NEW c \in Calls, EndUpdate(c) PROVE LightTypeOK'
  <2>1. call' \in [Calls -> ServiceCall] /\ obj' \in Nat /\ obj' = obj + 1
    BY <1>9, DoneEffect DEF EndUpdate, LightTypeOK
  <2>2. held' \in Light /\ call[c].snap \in Light
    BY <1>9 DEF EndUpdate, CallsFit
  <2>3. 0 .. obj \subseteq 0 .. obj'
    BY <2>1 DEF LightTypeOK
  <2>4. call' \in [Calls -> [to : {"none", "bulb", "set", "update"}, todo : Seq(Patch),
                              at : {"idle", "ask", "sent", "back", "done"}, obj : 0 .. obj',
                              snap : Light \cup {<<>>}]]
    <3> DEFINE Wider == [to : {"none", "bulb", "set", "update"}, todo : Seq(Patch),
                         at : {"idle", "ask", "sent", "back", "done"}, obj : 0 .. obj',
                         snap : Light \cup {<<>>}]
    <3>1. \A r \in ServiceCall : r \in Wider
      BY <2>3 DEF ServiceCall
    <3> HIDE DEF Wider
    <3>2. call' \in [Calls -> Wider]
      BY <2>1, <3>1
    <3> QED
      BY <3>2 DEF Wider
  <2>5. shown' \in [Entities -> Light]
    BY <1>9, <2>2 DEF EndUpdate, LightTypeOK
  <2>6. late' \subseteq Attrs /\ unpushed' \subseteq {"skip", "fail"}
    BY <1>9 DEF EndUpdate, LightTypeOK
  <2> QED
    BY <1>9, <2>1, <2>2, <2>4, <2>5, <2>6 DEF EndUpdate, LightTypeOK
<1>10. CASE Receive
  BY <1>10, EventReceived DEF Receive, LightTypeOK
<1>11. CASE Push
  BY <1>11 DEF Push, ResetIgnoreUpdate, LightTypeOK
<1>12. ASSUME NEW e \in Entities, WriteState(e) PROVE LightTypeOK'
  BY <1>12 DEF WriteState, LightTypeOK
<1>13. CASE UNCHANGED lightVars
  BY <1>13 DEF lightVars, history, LightTypeOK
<1> QED
  BY <1>1, <1>2, <1>3, <1>4, <1>5, <1>6, <1>7, <1>8, <1>9, <1>10, <1>11, <1>12, <1>13
     DEF LightNext, Progress

\* The calls.
LEMMA CallsStep ==
  ASSUME LightTypeOK, CallsFit, WireFits, [LightNext]_lightVars
  PROVE  CallsFit'
<1> USE DEF CallsFit, Active
<1>1. CASE Touch
  BY <1>1 DEF Touch
<1>2. ASSUME NEW c \in Calls, NEW to \in Entities, NEW todo \in Requests,
             Begin(c, to, todo)
      PROVE  CallsFit'
  <2>1. todo \in Seq(Patch) /\ todo # <<>>
    BY RequestsFit
  <2>2. Submit(c, to, todo, held) /\ held \in Light
    BY <1>2 DEF Begin, LightTypeOK
  <2>3. /\ \A d \in Calls \ {c} : call'[d] = call[d]
        /\ call'[c].to = to /\ call'[c].todo = todo /\ call'[c].at = "ask"
    BY <2>1, <2>2, SubmitEffect
  <2> QED
    BY <2>1, <2>3 DEF Entities
<1>3. ASSUME NEW c \in Calls, BeginUpdate(c) PROVE CallsFit'
  <2>1. /\ \A d \in Calls \ {c} : call'[d] = call[d]
        /\ call'[c].to = "update" /\ call'[c].at = "ask"
    BY <1>3 DEF BeginUpdate, LightTypeOK
  <2> QED
    BY <2>1 DEF Entities
<1>4. ASSUME NEW c \in Calls, Answer(c) PROVE CallsFit'
  BY <1>4, MovedOn DEF Answer, Entities
<1>5. ASSUME NEW c \in Calls, Write(c) PROVE CallsFit'
  <2>1. /\ \A d \in Calls \ {c} : call'[d] = call[d]
        /\ call'[c].at = "back" /\ call'[c].to = call[c].to
        /\ call'[c].todo = call[c].todo
    BY <1>5, MovedOn DEF Write
  <2>2. call[c].at = "sent"
    BY <1>5 DEF Write
  <2>3. call[c].to # "update"
    BY <2>2 DEF CallsFit
  <2> QED
    BY <2>1, <2>2, <2>3
<1>6. ASSUME NEW c \in Calls, Fail(c) PROVE CallsFit'
  BY <1>6, DoneEffect DEF Fail
<1>7. ASSUME NEW c \in Calls, Resume(c) PROVE CallsFit'
  <2>1. /\ \A d \in Calls \ {c} : call'[d] = call[d]
        /\ call'[c].to = call[c].to /\ call[c].to \in Entities
        /\ call'[c].at = "done" \/ (call'[c].at = "ask" /\ call'[c].todo # <<>>)
    BY <1>7, ResumeEffect
  <2> QED
    BY <2>1 DEF Entities
<1>8. ASSUME NEW c \in Calls, Fetch(c) PROVE CallsFit'
  <2>1. /\ \A d \in Calls \ {c} : call'[d] = call[d]
        /\ call'[c].to = call[c].to /\ call'[c].at = "back" /\ call'[c].snap = hub
    BY <1>8 DEF Fetch, LightTypeOK
  <2> QED
    BY <1>8, <2>1 DEF Fetch, Entities, LightTypeOK
<1>9. ASSUME NEW c \in Calls, EndUpdate(c) PROVE CallsFit'
  BY <1>9, DoneEffect DEF EndUpdate
<1>10. CASE Receive
  BY <1>10 DEF Receive
<1>11. CASE Push
  BY <1>11 DEF Push
<1>12. ASSUME NEW e \in Entities, WriteState(e) PROVE CallsFit'
  BY <1>12 DEF WriteState
<1>13. CASE UNCHANGED lightVars
  BY <1>13 DEF lightVars, history, CallsFit, Active
<1> QED
  BY <1>1, <1>2, <1>3, <1>4, <1>5, <1>6, <1>7, <1>8, <1>9, <1>10, <1>11, <1>12, <1>13
     DEF LightNext, Progress

\* The events not received yet.
LEMMA WireStep ==
  ASSUME LightTypeOK, CallsFit, WireFits, [LightNext]_lightVars
  PROVE  WireFits'
<1>1. CASE Touch
  BY <1>1, LampTouched
<1>2. ASSUME NEW c \in Calls, NEW to \in Entities, NEW todo \in Requests,
             Begin(c, to, todo)
      PROVE  WireFits'
  BY <1>2 DEF Begin, WireFits
<1>3. ASSUME NEW c \in Calls, BeginUpdate(c) PROVE WireFits'
  BY <1>3 DEF BeginUpdate, WireFits
<1>4. ASSUME NEW c \in Calls, Answer(c) PROVE WireFits'
  <2>1. call[c].todo \in Seq(Patch) /\ call[c].todo # <<>>
    BY <1>4 DEF Answer, CallsFit, Active, LightTypeOK
  <2>2. call[c].todo[1] \in Patch
    BY <2>1, TailOf
  <2> QED
    BY <1>4, <2>2, ApplyEffect DEF Answer
<1>5. ASSUME NEW c \in Calls, Write(c) PROVE WireFits'
  BY <1>5 DEF Write, WireFits
<1>6. ASSUME NEW c \in Calls, Fail(c) PROVE WireFits'
  BY <1>6 DEF Fail, WireFits
<1>7. ASSUME NEW c \in Calls, Resume(c) PROVE WireFits'
  BY <1>7 DEF Resume, WireFits
<1>8. ASSUME NEW c \in Calls, Fetch(c) PROVE WireFits'
  BY <1>8 DEF Fetch, WireFits
<1>9. ASSUME NEW c \in Calls, EndUpdate(c) PROVE WireFits'
  BY <1>9 DEF EndUpdate, WireFits
<1>10. CASE Receive
  BY <1>10, EventReceived
<1>11. CASE Push
  BY <1>11 DEF Push, WireFits
<1>12. ASSUME NEW e \in Entities, WriteState(e) PROVE WireFits'
  BY <1>12 DEF WriteState, WireFits
<1>13. CASE UNCHANGED lightVars
  BY <1>13 DEF lightVars, history, WireFits
<1> QED
  BY <1>1, <1>2, <1>3, <1>4, <1>5, <1>6, <1>7, <1>8, <1>9, <1>10, <1>11, <1>12, <1>13
     DEF LightNext, Progress

\* The model.
LEMMA HeldStep ==
  ASSUME LightTypeOK, CallsFit, WireFits, HeldFollows, [LightNext]_lightVars
  PROVE  HeldFollows'
<1> USE DEF HeldFollows, Ahead
<1>1. CASE Touch
  <2>1. /\ \A a \in Attrs : HasEvent(wire, a) => HasEvent(wire', a)
        /\ \A a \in Attrs : hub'[a] = hub[a] \/ HasEvent(wire', a)
    BY <1>1, LampTouched
  <2>2. held' = held /\ late' = late /\ call' = call /\ obj' = obj
    BY <1>1 DEF Touch, history
  <2> QED
    BY <2>1, <2>2
<1>2. ASSUME NEW c \in Calls, NEW to \in Entities, NEW todo \in Requests,
             Begin(c, to, todo)
      PROVE  HeldFollows'
  <2>1. todo \in Seq(Patch) /\ todo # <<>>
    BY RequestsFit
  <2>2. Submit(c, to, todo, held) /\ held \in Light /\ call[c].at = "idle"
    BY <1>2 DEF Begin, LightTypeOK
  <2>3. hub' = hub /\ late' = late /\ wire' = wire /\ obj' = obj
    BY <1>2 DEF Begin, history
  <2>4. /\ \A d \in Calls \ {c} : call'[d] = call[d]
        /\ call'[c].to = to /\ call'[c].todo = todo /\ call'[c].at = "ask"
        /\ call'[c].obj = obj
        /\ \A a \in Attrs :
             \/ to = "bulb" /\ a = "lightLevel" /\ todo[1].attr = a
             \/ held'[a] = held[a]
    BY <2>1, <2>2, SubmitEffect
  <2> QED
    BY <2>2, <2>3, <2>4
<1>3. ASSUME NEW c \in Calls, BeginUpdate(c) PROVE HeldFollows'
  <2>1. /\ \A d \in Calls \ {c} : call'[d] = call[d]
        /\ call[c].at = "idle"
    BY <1>3 DEF BeginUpdate, LightTypeOK
  <2>2. UNCHANGED <<hub, wire, held, obj, late>>
    BY <1>3 DEF BeginUpdate, history
  <2> QED
    BY <2>1, <2>2
<1>4. ASSUME NEW c \in Calls, Answer(c) PROVE HeldFollows'
  <2>0. call[c].todo \in Seq(Patch) /\ call[c].todo # <<>>
    BY <1>4 DEF Answer, CallsFit, Active, LightTypeOK
  <2>1. /\ \A a \in Attrs : HasEvent(wire, a) => HasEvent(wire', a)
        /\ \A a \in Attrs : hub'[a] = hub[a] \/ HasEvent(wire', a)
    BY <1>4, <2>0, TailOf, ApplyEffect DEF Answer
  <2>2. /\ \A d \in Calls \ {c} : call'[d] = call[d]
        /\ call'[c].at = "sent" /\ call'[c].to = call[c].to
        /\ call'[c].todo = call[c].todo
        /\ call'[c].obj = call[c].obj
    BY <1>4, MovedOn DEF Answer
  <2>3. held' = held /\ late' = late /\ obj' = obj
    BY <1>4 DEF Answer, history
  <2> QED
    BY <2>1, <2>2, <2>3
<1>5. ASSUME NEW c \in Calls, Write(c) PROVE HeldFollows'
  <2>1. /\ \A d \in Calls \ {c} : call'[d] = call[d]
        /\ call[c].at = "sent"
    BY <1>5, MovedOn DEF Write
  <2>2. hub' = hub /\ wire' = wire /\ obj' = obj
    BY <1>5 DEF Write
  <2>3. CASE call[c].to = "bulb" /\ call[c].obj = obj /\ call[c].todo[1].attr # "colorMode"
    <3>1. call[c].todo \in Seq(Patch) /\ call[c].todo # <<>>
      BY <2>1, <2>3 DEF CallsFit, Active, LightTypeOK, Entities
    <3>2. PICK p \in Patch : p = call[c].todo[1]
      BY <3>1, TailOf
    <3>3. held' = [held EXCEPT ![p.attr] = p.val] /\ held \in Light
      BY <1>5, <2>3, <3>2 DEF Write, LightTypeOK
    <3>4. late' = IF hub[p.attr] # p.val THEN late \cup {p.attr} ELSE late
      BY <1>5, <2>3, <3>2 DEF Write
    <3>5. \A a \in Attrs : held'[a] = IF a = p.attr THEN p.val ELSE held[a]
      BY <3>3, LightIs
    <3> QED
      BY <2>1, <2>2, <3>2, <3>4, <3>5
  <2>4. CASE ~(call[c].to = "bulb" /\ call[c].obj = obj
               /\ call[c].todo[1].attr # "colorMode")
    BY <1>5, <2>1, <2>2, <2>4 DEF Write
  <2> QED
    BY <2>3, <2>4
<1>6. ASSUME NEW c \in Calls, Fail(c) PROVE HeldFollows'
  <2>1. \A d \in Calls \ {c} : call'[d] = call[d]
    BY <1>6, DoneEffect DEF Fail
  <2> QED
    BY <1>6, <2>1 DEF Fail
<1>7. ASSUME NEW c \in Calls, Resume(c) PROVE HeldFollows'
  <2>1. /\ call[c].to \in Entities /\ call[c].at = "back"
        /\ \A d \in Calls \ {c} : call'[d] = call[d]
        /\ call'[c].to = call[c].to
        /\ \/ /\ call'[c].at = "ask" /\ call'[c].obj = obj
              /\ \A a \in Attrs :
                   \/ call[c].to = "bulb" /\ a = "lightLevel" /\ call'[c].todo[1].attr = a
                   \/ held'[a] = ModelAfter(c)[a]
           \/ held' = ModelAfter(c)
    BY <1>7, ResumeEffect
  <2>2. hub' = hub /\ wire' = wire /\ obj' = obj /\ held \in Light
    BY <1>7 DEF Resume, LightTypeOK
  <2>3. \A a \in Attrs :
          \/ ModelAfter(c)[a] = held[a]
          \/ /\ a = "colorMode" /\ call[c].to = "bulb" /\ call[c].todo[1].attr = "colorMode"
             /\ ModelAfter(c)[a] = call[c].todo[1].val
    BY <2>2, AttrsAre DEF ModelAfter, Light
  <2>4. late' = IF /\ call[c].to = "bulb" /\ call[c].todo[1].attr = "colorMode"
                   /\ hub.colorMode # call[c].todo[1].val
                THEN late \cup {"colorMode"} ELSE late
    BY <1>7 DEF Resume
  <2>5. \A a \in Attrs :
          ModelAfter(c)[a] = hub[a] \/ a \in late' \/ HasEvent(wire, a) \/ Ahead(a)
    BY <2>3, <2>4
  <2> QED
    BY <2>1, <2>2, <2>5
<1>8. ASSUME NEW c \in Calls, Fetch(c) PROVE HeldFollows'
  <2>1. /\ \A d \in Calls \ {c} : call'[d] = call[d]
        /\ call[c].to = "update"
    BY <1>8 DEF Fetch, LightTypeOK
  <2>2. UNCHANGED <<hub, wire, held, obj, late>>
    BY <1>8 DEF Fetch, history
  <2> QED
    BY <2>1, <2>2
<1>9. ASSUME NEW c \in Calls, EndUpdate(c) PROVE HeldFollows'
  <2>1. \A a \in Attrs : held'[a] = hub[a] \/ a \in late'
    BY <1>9 DEF EndUpdate
  <2> QED
    BY <1>9, <2>1 DEF EndUpdate
<1>10. CASE Receive
  <2>1. /\ \A a \in Attrs : a # got' => held'[a] = held[a]
        /\ \A a \in Attrs : a # got' /\ HasEvent(wire, a) => HasEvent(wire', a)
        /\ held'[got'] = hub[got'] \/ HasEvent(wire', got')
    BY <1>10, EventReceived
  <2>2. hub' = hub /\ late' = late \ {got'} /\ call' = call /\ obj' = obj
    BY <1>10 DEF Receive
  <2> QED
    BY <2>1, <2>2
<1>11. CASE Push
  BY <1>11 DEF Push
<1>12. ASSUME NEW e \in Entities, WriteState(e) PROVE HeldFollows'
  BY <1>12 DEF WriteState
<1>13. CASE UNCHANGED lightVars
  BY <1>13 DEF lightVars, history, HeldFollows, Ahead
<1> QED
  BY <1>1, <1>2, <1>3, <1>4, <1>5, <1>6, <1>7, <1>8, <1>9, <1>10, <1>11, <1>12, <1>13
     DEF LightNext, Progress

\* What is shown of the bulb.
LEMMA ShownStep ==
  ASSUME LightTypeOK, CallsFit, WireFits, ShownFollows, [LightNext]_lightVars
  PROVE  ShownFollows'
<1> USE DEF ShownFollows, Active
<1>1. CASE Touch
  BY <1>1 DEF Touch, history
<1>2. ASSUME NEW c \in Calls, NEW to \in Entities, NEW todo \in Requests,
             Begin(c, to, todo)
      PROVE  ShownFollows'
  <2>1. todo \in Seq(Patch) /\ todo # <<>>
    BY RequestsFit
  <2>2. Submit(c, to, todo, held) /\ held \in Light /\ call[c].at = "idle"
    BY <1>2 DEF Begin, LightTypeOK
  <2>3. shown' = shown /\ unpushed' = unpushed /\ pending' = pending /\ got' = got
    BY <1>2 DEF Begin, history
  <2>4. /\ \A d \in Calls \ {c} : call'[d] = call[d]
        /\ call'[c].to = to /\ call'[c].at = "ask"
        /\ to = "bulb" \/ \A a \in Attrs : held'[a] = held[a]
    BY <2>1, <2>2, SubmitEffect
  <2> QED
    BY <2>2, <2>3, <2>4
<1>3. ASSUME NEW c \in Calls, BeginUpdate(c) PROVE ShownFollows'
  <2>1. /\ \A d \in Calls \ {c} : call'[d] = call[d]
        /\ call[c].at = "idle"
    BY <1>3 DEF BeginUpdate, LightTypeOK
  <2> QED
    BY <1>3, <2>1 DEF BeginUpdate, history
<1>4. ASSUME NEW c \in Calls, Answer(c) PROVE ShownFollows'
  <2>1. /\ \A d \in Calls \ {c} : call'[d] = call[d]
        /\ call'[c].at = "sent" /\ call'[c].to = call[c].to
    BY <1>4, MovedOn DEF Answer
  <2> QED
    BY <1>4, <2>1 DEF Answer, history
<1>5. ASSUME NEW c \in Calls, Write(c) PROVE ShownFollows'
  <2>1. /\ \A d \in Calls \ {c} : call'[d] = call[d]
        /\ call'[c].at = "back" /\ call'[c].to = call[c].to
    BY <1>5, MovedOn DEF Write
  <2>2. shown' = shown /\ unpushed' = unpushed /\ pending' = pending /\ got' = got
    BY <1>5 DEF Write
  <2>3. call[c].to = "bulb" \/ held' = held
    BY <1>5 DEF Write
  <2> QED
    BY <2>1, <2>2, <2>3
<1>6. ASSUME NEW c \in Calls, Fail(c) PROVE ShownFollows'
  <2>1. \A d \in Calls \ {c} : call'[d] = call[d]
    BY <1>6, DoneEffect DEF Fail
  <2>2. shown' = shown /\ pending' = pending /\ got' = got /\ held' = held
    BY <1>6 DEF Fail
  <2>3. IF call[c].to = "bulb" THEN "fail" \in unpushed' ELSE unpushed' = unpushed
    BY <1>6 DEF Fail
  <2> QED
    BY <2>1, <2>2, <2>3
<1>7. ASSUME NEW c \in Calls, Resume(c) PROVE ShownFollows'
  <2>1. /\ call[c].to \in Entities /\ call[c].at = "back"
        /\ \A d \in Calls \ {c} : call'[d] = call[d]
        /\ call'[c].to = call[c].to
        /\ \/ /\ call'[c].at = "ask"
              /\ \A a \in Attrs :
                   \/ call[c].to = "bulb" /\ a = "lightLevel" /\ call'[c].todo[1].attr = a
                   \/ held'[a] = ModelAfter(c)[a]
              /\ UNCHANGED <<shown, unpushed>>
           \/ /\ call'[c].at = "done" /\ held' = ModelAfter(c)
              /\ Finish(call[c].to = "bulb", ModelAfter(c))
    BY <1>7, ResumeEffect
  <2>2. pending' = pending /\ got' = got
    BY <1>7 DEF Resume
  <2>3. CASE call[c].to = "bulb"
    <3>1. CASE call'[c].at = "ask"
      BY <2>1, <2>3, <3>1
    <3>2. CASE call'[c].at = "done"
      <4>1. shown' = [shown EXCEPT !["bulb"] = ModelAfter(c)] /\ held' = ModelAfter(c)
        BY <2>1, <2>3, <3>2 DEF Finish
      <4>2. shown'["bulb"] = held'
        BY <4>1 DEF LightTypeOK, Entities
      <4> QED
        BY <4>2
    <3> QED
      BY <2>1, <3>1, <3>2
  <2>4. CASE call[c].to # "bulb"
    <3>1. ModelAfter(c) = held
      BY <2>4 DEF ModelAfter
    <3>2. shown' = shown /\ unpushed' = unpushed
      BY <2>1, <2>4 DEF Finish
    <3>3. \A a \in Attrs : held'[a] = held[a]
      BY <2>1, <2>4, <3>1
    <3> QED
      BY <2>1, <2>2, <2>4, <3>2, <3>3
  <2> QED
    BY <2>3, <2>4
<1>8. ASSUME NEW c \in Calls, Fetch(c) PROVE ShownFollows'
  <2>1. /\ \A d \in Calls \ {c} : call'[d] = call[d]
        /\ call[c].to = "update"
    BY <1>8 DEF Fetch, LightTypeOK
  <2> QED
    BY <1>8, <2>1 DEF Fetch, history
<1>9. ASSUME NEW c \in Calls, EndUpdate(c) PROVE ShownFollows'
  <2>1. shown'["bulb"] = held'
    BY <1>9 DEF EndUpdate, LightTypeOK, Entities
  <2> QED
    BY <2>1
<1>10. CASE Receive
  <2>1. \A a \in Attrs : a # got' => held'[a] = held[a]
    BY <1>10, EventReceived
  <2> QED
    BY <1>10, <2>1, AttrsAre DEF Receive
<1>11. CASE Push
  BY <1>11 DEF Push, Ignored, Entities
<1>12. ASSUME NEW e \in Entities, WriteState(e) PROVE ShownFollows'
  <2>1. CASE e = "bulb"
    <3>1. shown'["bulb"] = held'
      BY <1>12, <2>1 DEF WriteState, LightTypeOK, Entities
    <3> QED
      BY <3>1
  <2>2. CASE e # "bulb"
    <3>1. shown'["bulb"] = shown["bulb"] /\ ("bulb" \in pending => "bulb" \in pending')
      BY <1>12, <2>2 DEF WriteState, LightTypeOK, Entities
    <3> QED
      BY <1>12, <2>2, <3>1 DEF WriteState
  <2> QED
    BY <2>1, <2>2
<1>13. CASE UNCHANGED lightVars
  BY <1>13 DEF lightVars, history, ShownFollows, Active
<1> QED
  BY <1>1, <1>2, <1>3, <1>4, <1>5, <1>6, <1>7, <1>8, <1>9, <1>10, <1>11, <1>12, <1>13
     DEF LightNext, Progress

\* And of both when the set alone is called.
LEMMA SetStep ==
  ASSUME LightTypeOK, CallsFit, WireFits, SetFollows, [LightNext]_lightVars
  PROVE  SetFollows'
<1>1. CASE Touch
  <2>1. /\ \A a \in Attrs : HasEvent(wire, a) => HasEvent(wire', a)
        /\ \A a \in Attrs : hub'[a] = hub[a] \/ HasEvent(wire', a)
    BY <1>1, LampTouched
  <2>2. UNCHANGED <<held, call, ignore, shown, pending, got>>
    BY <1>1 DEF Touch
  <2> QED
    BY <2>1, <2>2 DEF SetFollows, OnlySet
<1>2. ASSUME NEW c \in Calls, NEW to \in Entities, NEW todo \in Requests,
             Begin(c, to, todo)
      PROVE  SetFollows'
  <2>1. todo \in Seq(Patch) /\ todo # <<>>
    BY RequestsFit
  <2>2. Submit(c, to, todo, held) /\ held \in Light /\ call[c].to = "none"
    BY <1>2 DEF Begin, LightTypeOK, CallsFit
  <2>3. UNCHANGED <<hub, wire, shown, pending, got>> /\ ignore' = FALSE
    BY <1>2 DEF Begin, ResetIgnoreUpdate
  <2>4. /\ \A d \in Calls \ {c} : call'[d] = call[d]
        /\ call'[c].to = to
        /\ to = "bulb" \/ \A a \in Attrs : held'[a] = held[a]
    BY <2>1, <2>2, SubmitEffect
  <2> QED
    BY <2>2, <2>3, <2>4 DEF SetFollows, OnlySet
<1>3. ASSUME NEW c \in Calls, BeginUpdate(c) PROVE SetFollows'
  <2>1. call'[c].to = "update"
    BY <1>3 DEF BeginUpdate, LightTypeOK
  <2> QED
    BY <2>1 DEF SetFollows, OnlySet
<1>4. ASSUME NEW c \in Calls, Answer(c) PROVE SetFollows'
  <2>0. call[c].todo \in Seq(Patch) /\ call[c].todo # <<>>
    BY <1>4 DEF Answer, CallsFit, Active, LightTypeOK
  <2>1. /\ \A a \in Attrs : HasEvent(wire, a) => HasEvent(wire', a)
        /\ \A a \in Attrs : hub'[a] = hub[a] \/ HasEvent(wire', a)
    BY <1>4, <2>0, TailOf, ApplyEffect DEF Answer
  <2>2. /\ \A d \in Calls \ {c} : call'[d] = call[d]
        /\ call'[c].to = call[c].to
    BY <1>4, MovedOn DEF Answer
  <2>3. UNCHANGED <<held, ignore, shown, pending, got>>
    BY <1>4 DEF Answer
  <2> QED
    BY <2>1, <2>2, <2>3 DEF SetFollows, OnlySet
<1>5. ASSUME NEW c \in Calls, Write(c) PROVE SetFollows'
  <2>1. /\ \A d \in Calls \ {c} : call'[d] = call[d]
        /\ call'[c].to = call[c].to
    BY <1>5, MovedOn DEF Write
  <2>2. UNCHANGED <<hub, wire, ignore, shown, pending, got>>
    BY <1>5 DEF Write
  <2>3. call[c].to = "bulb" \/ held' = held
    BY <1>5 DEF Write
  <2> QED
    BY <2>1, <2>2, <2>3 DEF SetFollows, OnlySet
<1>6. ASSUME NEW c \in Calls, Fail(c) PROVE SetFollows'
  <2>1. /\ \A d \in Calls \ {c} : call'[d] = call[d]
        /\ call'[c].to = call[c].to
    BY <1>6, DoneEffect DEF Fail
  <2> QED
    BY <1>6, <2>1 DEF Fail, SetFollows, OnlySet
<1>7. ASSUME NEW c \in Calls, Resume(c) PROVE SetFollows'
  <2> SUFFICES ASSUME OnlySet' PROVE SetFollows'
    BY DEF SetFollows
  <2>1. /\ call[c].to \in Entities
        /\ \A d \in Calls \ {c} : call'[d] = call[d]
        /\ call'[c].to = call[c].to
        /\ \/ /\ \A a \in Attrs :
                   \/ call[c].to = "bulb" /\ a = "lightLevel" /\ call'[c].todo[1].attr = a
                   \/ held'[a] = ModelAfter(c)[a]
              /\ UNCHANGED <<shown, unpushed>>
           \/ /\ held' = ModelAfter(c)
              /\ Finish(call[c].to = "bulb", ModelAfter(c))
    BY <1>7, ResumeEffect
  <2>2. OnlySet /\ call[c].to = "set"
    BY <2>1 DEF OnlySet, Entities
  <2>3. UNCHANGED <<hub, wire, pending, got>> /\ ignore' = ignore
    BY <1>7, <2>2 DEF Resume, LightTypeOK
  <2>4. shown' = shown /\ \A a \in Attrs : held'[a] = held[a]
    BY <2>1, <2>2 DEF ModelAfter, Finish
  <2> QED
    BY <2>2, <2>3, <2>4 DEF SetFollows
<1>8. ASSUME NEW c \in Calls, Fetch(c) PROVE SetFollows'
  <2>1. call[c].to = "update" /\ call'[c].to = "update"
    BY <1>8 DEF Fetch, LightTypeOK
  <2> QED
    BY <2>1 DEF SetFollows, OnlySet
<1>9. ASSUME NEW c \in Calls, EndUpdate(c) PROVE SetFollows'
  <2>1. call'[c].to = "update"
    BY <1>9, DoneEffect DEF EndUpdate
  <2> QED
    BY <2>1 DEF SetFollows, OnlySet
<1>10. CASE Receive
  <2>1. /\ \A a \in Attrs : a # got' => held'[a] = held[a]
        /\ \A a \in Attrs : a # got' /\ HasEvent(wire, a) => HasEvent(wire', a)
        /\ held'[got'] = hub[got'] \/ HasEvent(wire', got')
    BY <1>10, EventReceived
  <2>2. UNCHANGED <<hub, call, ignore, shown, pending>> /\ got = "none"
    BY <1>10 DEF Receive
  <2> QED
    BY <2>1, <2>2, AttrsAre DEF SetFollows, OnlySet
<1>11. CASE Push
  BY <1>11 DEF Push, Ignored, SetFollows, OnlySet
<1>12. ASSUME NEW e \in Entities, WriteState(e) PROVE SetFollows'
  <2>1. UNCHANGED <<hub, wire, got, held, ignore, call>>
    BY <1>12 DEF WriteState
  <2>2. \A f \in Entities : IF f = e THEN shown'[f] = held
                            ELSE shown'[f] = shown[f] /\ (f \in pending => f \in pending')
    BY <1>12 DEF WriteState, LightTypeOK
  <2> QED
    BY <2>1, <2>2 DEF SetFollows, OnlySet
<1>13. CASE UNCHANGED lightVars
  BY <1>13 DEF lightVars, history, SetFollows, OnlySet
<1> QED
  BY <1>1, <1>2, <1>3, <1>4, <1>5, <1>6, <1>7, <1>8, <1>9, <1>10, <1>11, <1>12, <1>13
     DEF LightNext, Progress

\* A bulb that is off, known and shown, fits.
LEMMA LightInitHolds == ASSUME LightInit PROVE LightInv
<1>1. hub \in Light
  BY DEF LightInit, Light, Values
<1>2. LightTypeOK
  <2>1. \A c \in Calls : call[c] = Idle
    BY DEF LightInit
  <2>2. Idle \in ServiceCall
    BY DEF LightInit, Idle, ServiceCall
  <2>3. call \in [Calls -> ServiceCall]
    BY <2>2 DEF LightInit
  <2>4. held \in Light /\ shown \in [Entities -> Light]
    BY <1>1 DEF LightInit
  <2>5. obj \in Nat /\ touches \in 0 .. MaxTouches
    BY RequestsAssumption DEF LightInit
  <2>6. wire \in Seq(Patch)
    BY DEF LightInit
  <2>7. /\ late \subseteq Attrs /\ unpushed \subseteq {"skip", "fail"}
        /\ pending \subseteq Entities
        /\ got \in Attrs \cup {"none"} /\ ignore \in BOOLEAN
    BY DEF LightInit
  <2> QED
    BY <1>1, <2>3, <2>4, <2>5, <2>6, <2>7 DEF LightTypeOK, ServiceCall
<1>3. CallsFit
  BY DEF LightInit, Idle, CallsFit, Active, Entities
<1>4. WireFits
  BY DEF LightInit, WireFits, LastEvent
<1>5. HeldFollows
  BY DEF LightInit, HeldFollows
<1>6. ShownFollows
  BY DEF LightInit, ShownFollows, Entities
<1>7. SetFollows
  BY DEF LightInit, SetFollows
<1> QED
  BY <1>2, <1>3, <1>4, <1>5, <1>6, <1>7 DEF LightInv

LEMMA LightStepHolds ==
  ASSUME LightInv, [LightNext]_lightVars PROVE LightInv'
<1>1. LightTypeOK /\ CallsFit /\ WireFits /\ HeldFollows /\ ShownFollows /\ SetFollows
  BY DEF LightInv
<1>2. LightTypeOK'
  BY <1>1, LightTypeStep
<1>3. CallsFit'
  BY <1>1, CallsStep
<1>4. WireFits'
  BY <1>1, WireStep
<1>5. HeldFollows'
  BY <1>1, HeldStep
<1>6. ShownFollows'
  BY <1>1, ShownStep
<1>7. SetFollows'
  BY <1>1, SetStep
<1> QED
  BY <1>2, <1>3, <1>4, <1>5, <1>6, <1>7 DEF LightInv

LEMMA LightInvHolds == LightSpec => []LightInv
<1>1. LightInit => LightInv
  BY LightInitHolds
<1>2. LightInv /\ [LightNext]_lightVars => LightInv'
  BY LightStepHolds
<1> QED
  BY <1>1, <1>2, PTL DEF LightSpec

\* The bulb, its model, the calls and what is shown have their types.
THEOREM LightTypeCorrect == LightSpec => []LightTypeOK
<1>1. LightInv => LightTypeOK
  BY DEF LightInv
<1> QED
  BY <1>1, LightInvHolds, PTL

\* At rest the model is the bulb, but for what a call wrote when the hub had another value.
THEOREM ModelIsTheBulb == LightSpec => []HeldIsHub
<1>1. LightInv => HeldIsHub
  BY DEF LightInv, HeldFollows, HeldIsHub, AtRest, HasEvent, Ahead
<1> QED
  BY <1>1, LightInvHolds, PTL

\* At rest Home Assistant shows the model, unless the last push was taken for an echo or a
\* call failed; switching on and off is shown even then if no call failed.
THEOREM BulbIsShown == LightSpec => []ShownIsHeld
<1>1. LightInv => ShownIsHeld
  BY AttrsAre DEF LightInv, ShownFollows, ShownIsHeld, AtRest, Active
<1> QED
  BY <1>1, LightInvHolds, PTL

\* As long as only the set is called, both entities end up showing the bulb as it is.
THEOREM SetIsShown == LightSpec => []SetCallsShown
<1>1. LightInv => SetCallsShown
  <2> SUFFICES ASSUME LightInv, AtRest, OnlySet, NEW e \in Entities PROVE shown[e] = hub
    BY DEF SetCallsShown, OnlySet
  <2>1. \A a \in Attrs : shown[e][a] = held[a] /\ held[a] = hub[a]
    BY AttrsAre DEF LightInv, SetFollows, AtRest, HasEvent
  <2>2. shown[e] \in Light /\ hub \in Light
    BY DEF LightInv, LightTypeOK
  <2> QED
    BY <2>1, <2>2, AttrsAre DEF Light
<1> QED
  BY <1>1, LightInvHolds, PTL

=============================================================================
