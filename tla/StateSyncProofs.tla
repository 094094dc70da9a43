--------------------------- MODULE StateSyncProofs ---------------------------
(***************************************************************************)
(* Proof that a stale state always has one of the three excuses of         *)
(* StateSync, for any devices and any number of changes and reconnects.    *)
(***************************************************************************)
EXTENDS SensorPath, SequenceTheorems, TLAPS

\* No connection, no events.
Silent == ~connected => wire = <<>>

\* Nothing is newer than the hub, and nothing held is newer than the newest held.
Bounded ==
  /\ \A d \in Devices : held[d] <= newest[d] /\ newest[d] <= hub[d]
  /\ \A n \in Opens, d \in Devices : snap[n][d] <= hub[d]
  /\ \A i \in 1 .. Len(wire) : wire[i].val <= hub[wire[i].dev]

\* The events of a device are in order, the last one is its present state.
InOrder ==
  \A i, j \in 1 .. Len(wire) : i < j /\ wire[i].dev = wire[j].dev => wire[i].val < wire[j].val
Sent(d) == \E i \in 1 .. Len(wire) : wire[i] = [dev |-> d, val |-> hub[d]]
Complete == \A i \in 1 .. Len(wire) : Sent(wire[i].dev)

\* Only connections that were opened have a resync.
NotYet == \A n \in Opens : n > opens => at[n] = "none"

Known(d) == newest[d] = hub[d]
Replays(n, d) == at[n] = "answered" \/ (at[n] = "replay" /\ d \in left[n])

\* Before the first connection, only the early changes are unknown.
First == opens = 0 => ~connected /\ \A d \in Devices : d \in early \/ Known(d)

\* What the latest resync has yet to replay is the present state, unless that is on the
\* wire or was known already.
Latest ==
  connected => \A n \in Opens, d \in Devices :
    n = opens /\ Replays(n, d) => snap[n][d] = hub[d] \/ Sent(d) \/ Known(d)

\* StaleIsExcused in terms of what was ever known: unlike held, that never goes back.
Excuse == connected => \A d \in Devices : UnderWay(d) \/ d \in early \/ failed \/ Known(d)

IInv ==
  /\ TypeOK /\ Silent /\ Bounded /\ InOrder /\ Complete
  /\ NotYet /\ First /\ Latest /\ Excuse

-----------------------------------------------------------------------------

LEMMA InitHolds == Init => IInv
<1> SUFFICES ASSUME Init PROVE IInv
  OBVIOUS
<1>1. TypeOK
  <2>1. hub \in States
    BY DEF Init, States
  <2>2. wire \in Seq(Event)
    BY DEF Init
  <2>3. opens \in 0 .. MaxOpens
    BY BoundsAssumption DEF Init
  <2> QED
    BY <2>1, <2>2, <2>3 DEF Init, TypeOK
<1>2. wire = <<>> /\ Len(wire) = 0
  BY DEF Init
<1>3. Silent /\ InOrder /\ Complete
  BY <1>2 DEF Silent, InOrder, Complete
<1>4. Bounded
  BY <1>2 DEF Init, Bounded, Opens
<1>5. NotYet /\ First /\ Latest /\ Excuse
  BY DEF Init, NotYet, First, Latest, Excuse, Known
<1> QED
  BY <1>1, <1>3, <1>4, <1>5 DEF IInv

LEMMA TypeStep == TypeOK /\ [Next]_vars => TypeOK'
<1> SUFFICES ASSUME TypeOK, [Next]_vars PROVE TypeOK'
  OBVIOUS
<1> USE DEF TypeOK, States, Opens
<1>1. ASSUME NEW d \in Devices, Change(d) PROVE TypeOK'
  <2>1. hub[d] + 1 \in Nat
    OBVIOUS
  <2>2. hub' \in States
    BY <1>1, <2>1 DEF Change
  <2>3. wire' \in Seq(Event)
    <3> DEFINE e == [dev |-> d, val |-> hub[d] + 1]
    <3>1. e \in Event
      BY <2>1 DEF Event
    <3> HIDE DEF e
    <3>2. wire' = Append(wire, e) \/ wire' = wire
      BY <1>1 DEF Change, e
    <3>3. wire \in Seq(Event)
      OBVIOUS
    <3>4. Append(wire, e) \in Seq(Event)
      BY ONLY <3>1, <3>3, AppendProperties
    <3> QED
      BY ONLY <3>2, <3>3, <3>4
  <2> QED
    BY <1>1, <2>2, <2>3 DEF Change
<1>2. CASE Drop
  <2>1. wire' \in Seq(Event)
    BY <1>2 DEF Drop
  <2> QED
    BY <1>2, <2>1 DEF Drop
<1>3. CASE Open
  <2>1. opens' \in Opens
    BY <1>3, BoundsAssumption DEF Open
  <2>2. at' \in [Opens -> {"none", "fetch", "answered", "replay", "done"}]
    BY <1>3, <2>1 DEF Open
  <2>3. opens' \in 0 .. MaxOpens
    BY <2>1
  <2>4. UNCHANGED <<hub, wire, snap, left, held, newest>> /\ connected' = TRUE /\ failed' = FALSE
    BY <1>3 DEF Open
  <2>5. early' \subseteq Devices
    BY <1>3 DEF Open
  <2> QED
    BY <2>2, <2>3, <2>4, <2>5
<1>4. CASE Receive
  <2>1. Head(wire) \in Event /\ Tail(wire) \in Seq(Event)
    BY <1>4 DEF Receive
  <2>2. held' \in States /\ newest' \in States
    BY <1>4, <2>1 DEF Receive, Apply, Event
  <2> QED
    BY <1>4, <2>1, <2>2 DEF Receive
<1>5. ASSUME NEW n \in Opens, Resync(n) PROVE TypeOK'
  <2>1. CASE Answer(n)
    BY <2>1 DEF Answer
  <2>2. CASE FetchFails(n)
    BY <2>2 DEF FetchFails
  <2>3. CASE BeginReplay(n)
    BY <2>3 DEF BeginReplay
  <2>4. CASE EndReplay(n)
    BY <2>4 DEF EndReplay
  <2>5. ASSUME NEW d \in Devices, Replay(n, d) PROVE TypeOK'
    <3>1. snap[n][d] \in Nat
      OBVIOUS
    <3>2. held' \in States /\ newest' \in States
      BY <2>5, <3>1 DEF Replay, Apply
    <3>3. left' \in [Opens -> SUBSET Devices]
      BY <2>5 DEF Replay
    <3> QED
      BY <2>5, <3>2, <3>3 DEF Replay
  <2> QED
    BY <1>5, <2>1, <2>2, <2>3, <2>4, <2>5 DEF Resync
<1>6. CASE UNCHANGED vars
  BY <1>6 DEF vars
<1> QED
  BY <1>1, <1>2, <1>3, <1>4, <1>5, <1>6 DEF Next

\* Setting a state no newer than the hub's keeps the bounds, and forgets nothing known.
LEMMA ApplyBounded ==
  ASSUME TypeOK, Bounded, UNCHANGED <<hub, snap>>,
         NEW d \in Devices, NEW v \in Nat, v <= hub[d], Apply(d, v)
  PROVE  /\ \A e \in Devices : held'[e] <= newest'[e] /\ newest'[e] <= hub'[e]
         /\ \A e \in Devices : Known(e) => Known(e)'
         /\ v = hub[d] => Known(d)'
<1>1. ASSUME NEW e \in Devices
      PROVE  /\ held'[e] <= newest'[e] /\ newest'[e] <= hub'[e]
             /\ newest[e] <= newest'[e]
  <2>0. held[e] \in Nat /\ newest[e] \in Nat /\ hub[e] \in Nat
    BY DEF TypeOK, States
  <2>1. CASE e = d
    <3>1. held'[d] = v /\ newest'[d] = IF v > newest[d] THEN v ELSE newest[d]
      BY DEF Apply, TypeOK, States
    <3> QED
      BY <2>0, <2>1, <3>1 DEF Bounded
  <2>2. CASE e # d
    <3>1. held'[e] = held[e] /\ newest'[e] = newest[e]
      BY <2>2 DEF Apply, TypeOK, States
    <3> QED
      BY <2>0, <3>1 DEF Bounded
  <2> QED
    BY <2>1, <2>2
<1>2. ASSUME NEW e \in Devices, Known(e) PROVE Known(e)'
  <2>1. newest'[e] \in Nat
    BY DEF Apply, TypeOK, States
  <2> QED
    BY <1>1, <1>2, <2>1 DEF Known, TypeOK, States
<1>3. ASSUME v = hub[d] PROVE Known(d)'
  <2>1. held'[d] = v /\ newest'[d] \in Nat
    BY DEF Apply, TypeOK, States
  <2> QED
    BY <1>1, <1>3, <2>1 DEF Known, TypeOK, States
<1> QED
  BY <1>1, <1>2, <1>3

\* The wire: events stay in order, complete and no newer than the hub.
WireOK == Silent /\ InOrder /\ Complete /\ Bounded

LEMMA WireStep == TypeOK /\ WireOK /\ [Next]_vars => WireOK'
<1> SUFFICES ASSUME TypeOK, WireOK, [Next]_vars PROVE WireOK'
  OBVIOUS
<1> USE DEF WireOK
<1>0. \A i \in 1 .. Len(wire) : wire[i] \in Event
  BY DEF TypeOK
<1>t. TypeOK'
  BY TypeStep
<1>1. ASSUME NEW d \in Devices, Change(d) PROVE WireOK'
  <2> DEFINE e == [dev |-> d, val |-> hub[d] + 1]
  <2>0. hub[d] \in Nat
    BY DEF TypeOK, States
  <2>1. /\ hub'[d] = hub[d] + 1
        /\ \A c \in Devices : c # d => hub'[c] = hub[c]
        /\ \A c \in Devices : hub[c] <= hub'[c]
    BY <1>1, <2>0 DEF Change, TypeOK, States
  <2>2. UNCHANGED <<connected, held, newest, snap>>
    BY <1>1 DEF Change
  <2>3. /\ \A c \in Devices : held'[c] <= newest'[c] /\ newest'[c] <= hub'[c]
        /\ \A n \in Opens, c \in Devices : snap'[n][c] <= hub'[c]
    <3>1. ASSUME NEW c \in Devices
          PROVE  held[c] \in Nat /\ newest[c] \in Nat /\ hub[c] \in Nat /\ hub'[c] \in Nat
      BY <1>t DEF TypeOK, States
    <3>2. ASSUME NEW n \in Opens, NEW c \in Devices PROVE snap[n][c] \in Nat
      BY DEF TypeOK, States
    <3> QED
      BY <2>1, <2>2, <3>1, <3>2 DEF Bounded
  <2>4. CASE connected
    <3>1. /\ wire' = Append(wire, e)
          /\ Len(wire') = Len(wire) + 1
          /\ Len(wire) \in Nat
          /\ wire'[Len(wire) + 1] = e
          /\ \A i \in 1 .. Len(wire) : wire'[i] = wire[i]
      BY <1>1, <2>4 DEF Change, TypeOK
    <3>2. InOrder'
      <4> SUFFICES ASSUME NEW i \in 1 .. Len(wire'), NEW j \in 1 .. Len(wire'),
                          i < j, wire'[i].dev = wire'[j].dev
                   PROVE  wire'[i].val < wire'[j].val
        BY DEF InOrder
      <4>1. i \in 1 .. Len(wire)
        BY <3>1
      <4>2. CASE j \in 1 .. Len(wire)
        BY <3>1, <4>1, <4>2 DEF InOrder
      <4>3. CASE j = Len(wire) + 1
        <5>1. wire[i].dev = d /\ wire[i].val <= hub[d] /\ wire[i].val \in Nat
          BY <1>0, <3>1, <4>1, <4>3 DEF Bounded, Event
        <5> QED
          BY <2>0, <3>1, <4>1, <4>3, <5>1
      <4> QED
        BY <3>1, <4>2, <4>3
    <3>3. Sent(d)'
      BY <2>1, <3>1 DEF Sent
    <3>4. Complete'
      <4> SUFFICES ASSUME NEW i \in 1 .. Len(wire'), wire'[i].dev # d
                   PROVE  Sent(wire[i].dev)'
        BY <3>3 DEF Complete
      <4>1. i \in 1 .. Len(wire) /\ wire'[i] = wire[i]
        BY <3>1
      <4>2. wire[i].dev \in Devices
        BY <1>0, <4>1 DEF Event
      <4>3. PICK j \in 1 .. Len(wire) : wire[j] = [dev |-> wire[i].dev, val |-> hub[wire[i].dev]]
        BY <4>1 DEF Complete, Sent
      <4>4. j \in 1 .. Len(wire') /\ wire'[j] = [dev |-> wire'[i].dev, val |-> hub'[wire'[i].dev]]
        BY <2>1, <3>1, <4>1, <4>2, <4>3
      <4> QED
        BY <4>4 DEF Sent
    <3>5. ASSUME NEW i \in 1 .. Len(wire') PROVE wire'[i].val <= hub'[wire'[i].dev]
      <4>1. CASE i \in 1 .. Len(wire)
        <5>1. wire[i].dev \in Devices /\ wire[i].val \in Nat /\ wire[i].val <= hub[wire[i].dev]
          BY <1>0, <4>1 DEF Bounded, Event
        <5>2. hub[wire[i].dev] \in Nat /\ hub'[wire[i].dev] \in Nat
          BY <1>t, <5>1 DEF TypeOK, States
        <5> QED
          BY <2>1, <3>1, <4>1, <5>1, <5>2
      <4>2. CASE i = Len(wire) + 1
        BY <2>0, <2>1, <3>1, <4>2
      <4> QED
        BY <3>1, <4>1, <4>2
    <3> QED
      BY <2>2, <2>3, <2>4, <3>2, <3>4, <3>5 DEF Silent, Bounded
  <2>5. CASE ~connected
    <3>1. wire' = <<>> /\ Len(wire') = 0
      BY <1>1, <2>5 DEF Change, Silent
    <3> QED
      BY <2>3, <3>1 DEF Silent, InOrder, Complete, Bounded
  <2> QED
    BY <2>4, <2>5
<1>2. CASE Drop
  <2>1. wire' = <<>> /\ Len(wire') = 0 /\ UNCHANGED <<hub, snap, held, newest>>
    BY <1>2 DEF Drop
  <2> QED
    BY <2>1 DEF Silent, InOrder, Complete, Bounded
<1>3. CASE Open
  <2>1. UNCHANGED <<wire, hub, snap, held, newest>> /\ connected'
    BY <1>3 DEF Open
  <2> QED
    BY <2>1 DEF Silent, InOrder, Complete, Bounded, Sent
<1>4. CASE Receive
  <2> DEFINE h == Head(wire)
  <2>1. UNCHANGED <<hub, snap, connected>>
    BY <1>4 DEF Receive
  <2>2. /\ wire # <<>> /\ wire' = Tail(wire)
        /\ Len(wire) \in Nat /\ 1 \in 1 .. Len(wire)
        /\ Len(wire') = Len(wire) - 1
        /\ h = wire[1]
        /\ \A i \in 1 .. Len(wire') : i + 1 \in 1 .. Len(wire) /\ wire'[i] = wire[i + 1]
    BY <1>4 DEF Receive, TypeOK
  <2>3. h \in Event /\ h.dev \in Devices /\ h.val \in Nat /\ h.val <= hub[h.dev]
    BY <1>0, <2>2 DEF Bounded, Event
  <2>4. \A c \in Devices : held'[c] <= newest'[c] /\ newest'[c] <= hub'[c]
    <3>1. Apply(h.dev, h.val)
      BY <1>4 DEF Receive
    <3> QED
      BY <2>1, <2>3, <3>1, ApplyBounded
  <2>5. InOrder'
    BY <2>2 DEF InOrder
  <2>6. Complete'
    <3> SUFFICES ASSUME NEW i \in 1 .. Len(wire') PROVE Sent(wire[i].dev)'
      BY DEF Complete
    <3>1. i + 1 \in 1 .. Len(wire) /\ wire'[i] = wire[i + 1]
      BY <2>2
    <3>2. wire[i + 1] \in Event
      BY <1>0, <3>1
    <3> DEFINE c == wire[i + 1].dev
    <3>3. PICK j \in 1 .. Len(wire) : wire[j] = [dev |-> c, val |-> hub[c]]
      BY <3>1 DEF Complete, Sent
    <3>4. j # 1
      <4> SUFFICES ASSUME j = 1 PROVE FALSE
        OBVIOUS
      <4>1. wire[1].dev = c /\ wire[1].val = hub[c]
        BY <3>3
      <4>2. 1 < i + 1
        BY <2>2
      <4>3. wire[1].val < wire[i + 1].val
        BY <2>2, <3>1, <4>1, <4>2 DEF InOrder
      <4>4. wire[i + 1].val <= hub[c] /\ c \in Devices
        BY <3>1, <3>2 DEF Bounded, Event
      <4>5. hub[c] \in Nat /\ wire[i + 1].val \in Nat
        BY <3>2, <4>4 DEF Event, TypeOK, States
      <4> QED
        BY <4>1, <4>3, <4>4, <4>5
    <3>5. j - 1 \in 1 .. Len(wire') /\ wire'[j - 1] = wire[j]
      BY <2>2, <3>4
    <3> QED
      BY <2>1, <3>1, <3>3, <3>5 DEF Sent
  <2>7. \A i \in 1 .. Len(wire') : wire'[i].val <= hub'[wire'[i].dev]
    BY <2>1, <2>2 DEF Bounded
  <2>8. Silent'
    BY <2>1, <2>2 DEF Silent
  <2> QED
    BY <2>1, <2>4, <2>5, <2>6, <2>7, <2>8 DEF Bounded
<1>5. ASSUME NEW n \in Opens, Resync(n) PROVE WireOK'
  <2>1. UNCHANGED <<hub, wire, connected>>
    BY <1>5 DEF Resync, Answer, FetchFails, BeginReplay, EndReplay, Replay
  <2>2. Silent' /\ InOrder' /\ Complete'
    BY <2>1 DEF Silent, InOrder, Complete, Sent
  <2>3. Bounded'
    <3>1. CASE Answer(n)
      <4>1. \A m \in Opens, d \in Devices : snap'[m][d] <= hub[d]
        <5> SUFFICES ASSUME NEW m \in Opens, NEW d \in Devices PROVE snap'[m][d] <= hub[d]
          OBVIOUS
        <5>1. hub[d] \in Nat
          BY DEF TypeOK, States
        <5> QED
          BY <3>1, <5>1 DEF Answer, Bounded, TypeOK
      <4> QED
        BY <2>1, <3>1, <4>1 DEF Answer, Bounded
    <3>2. CASE FetchFails(n) \/ BeginReplay(n) \/ EndReplay(n)
      BY <2>1, <3>2 DEF FetchFails, BeginReplay, EndReplay, Bounded
    <3>3. ASSUME NEW d \in Devices, Replay(n, d) PROVE Bounded'
      <4>1. snap[n][d] \in Nat /\ snap[n][d] <= hub[d] /\ Apply(d, snap[n][d])
        BY <3>3 DEF Replay, Bounded, TypeOK, States
      <4>2. UNCHANGED snap
        BY <3>3 DEF Replay
      <4> QED
        BY <2>1, <4>1, <4>2, ApplyBounded DEF Bounded
    <3> QED
      BY <1>5, <3>1, <3>2, <3>3 DEF Resync
  <2> QED
    BY <2>2, <2>3
<1>6. CASE UNCHANGED vars
  BY <1>6 DEF vars, Silent, InOrder, Complete, Bounded, Sent
<1> QED
  BY <1>1, <1>2, <1>3, <1>4, <1>5, <1>6 DEF Next

-----------------------------------------------------------------------------

\* An event adds the present state of its device and removes nothing.
LEMMA ChangeSends ==
  ASSUME TypeOK, connected, NEW d \in Devices, Change(d)
  PROVE  /\ Sent(d)'
         /\ \A c \in Devices \ {d} : Sent(c) => Sent(c)'
<1> DEFINE e == [dev |-> d, val |-> hub[d] + 1]
<1>1. /\ wire' = Append(wire, e)
      /\ Len(wire') = Len(wire) + 1
      /\ Len(wire) \in Nat
      /\ wire'[Len(wire) + 1] = e
      /\ \A i \in 1 .. Len(wire) : i \in 1 .. Len(wire') /\ wire'[i] = wire[i]
  BY DEF Change, TypeOK
<1>2. hub'[d] = hub[d] + 1 /\ \A c \in Devices \ {d} : hub'[c] = hub[c]
  BY DEF Change, TypeOK, States
<1>3. Sent(d)'
  BY <1>1, <1>2 DEF Sent
<1>4. ASSUME NEW c \in Devices \ {d}, Sent(c) PROVE Sent(c)'
  BY <1>1, <1>2, <1>4 DEF Sent
<1> QED
  BY <1>3, <1>4

\* What leaves the wire is known afterwards.
LEMMA ReceiveKnows ==
  ASSUME TypeOK, WireOK, Receive, NEW c \in Devices
  PROVE  /\ Known(c) => Known(c)'
         /\ Sent(c) => Sent(c)' \/ Known(c)'
<1>0. PICK h : h = Head(wire)
  OBVIOUS
<1>1. UNCHANGED <<hub, snap>> /\ Apply(h.dev, h.val)
  BY <1>0 DEF Receive
<1>2. /\ wire' = Tail(wire)
      /\ Len(wire) \in Nat /\ 1 \in 1 .. Len(wire)
      /\ Len(wire') = Len(wire) - 1
      /\ h = wire[1]
      /\ \A i \in 1 .. Len(wire') : wire'[i] = wire[i + 1]
  BY <1>0 DEF Receive, TypeOK
<1>e. h \in Event
  BY <1>2 DEF TypeOK
<1>3. h.dev \in Devices /\ h.val \in Nat /\ h.val <= hub[h.dev]
  BY <1>2, <1>e DEF WireOK, Bounded, Event
<1>4. /\ Known(c) => Known(c)'
      /\ h.val = hub[h.dev] => Known(h.dev)'
  BY <1>1, <1>3, ApplyBounded DEF WireOK
<1>5. ASSUME Sent(c) PROVE Sent(c)' \/ Known(c)'
  <2>1. PICK i \in 1 .. Len(wire) : wire[i] = [dev |-> c, val |-> hub[c]]
    BY <1>5 DEF Sent
  <2>2. CASE i = 1
    <3>1. h.dev = c /\ h.val = hub[c]
      BY <1>2, <2>1, <2>2
    <3> QED
      BY <1>4, <3>1 DEF Known
  <2>3. CASE i # 1
    <3>1. i - 1 \in 1 .. Len(wire') /\ wire'[i - 1] = wire[i]
      BY <1>2, <2>3
    <3> QED
      BY <1>1, <2>1, <3>1 DEF Sent
  <2> QED
    BY <2>2, <2>3
<1> QED
  BY <1>4, <1>5

LEMMA NotYetStep == TypeOK /\ NotYet /\ [Next]_vars => NotYet'
<1> SUFFICES ASSUME TypeOK, NotYet, [Next]_vars, NEW n \in Opens, n > opens'
             PROVE  at'[n] = "none"
  BY DEF NotYet
<1>1. opens \in Nat /\ opens' \in Nat /\ n \in Nat
  BY TypeStep, BoundsAssumption DEF TypeOK, Opens
<1>2. CASE Open
  <2>1. opens' = opens + 1 /\ at'[n] = at[n]
    BY <1>1, <1>2 DEF Open, TypeOK
  <2> QED
    BY <1>1, <2>1 DEF NotYet
<1>3. CASE \E m \in Opens : Resync(m)
  <2>1. PICK m \in Opens : Resync(m)
    BY <1>3
  <2>2. opens' = opens /\ (m # n => at'[n] = at[n]) /\ at[n] = "none"
    BY <2>1 DEF Resync, Answer, FetchFails, BeginReplay, EndReplay, Replay, NotYet, TypeOK
  <2>3. m # n
    BY <2>1, <2>2 DEF Resync, Answer, FetchFails, BeginReplay, EndReplay, Replay, NotYet
  <2> QED
    BY <2>2, <2>3
<1>4. CASE UNCHANGED <<opens, at>>
  BY <1>4 DEF NotYet
<1> QED
  BY <1>2, <1>3, <1>4 DEF Next, Change, Drop, Receive, vars

\* What is known stays known, and what was sent stays sent or is known: the part of the
\* next lemma that the steps after the first connection share.
Track == First /\ Latest /\ Excuse

LEMMA TrackStep ==
  ASSUME TypeOK, WireOK, NotYet, Track, [Next]_vars
  PROVE  Track'
<1> USE DEF Track
<1>o. opens \in Nat
  BY BoundsAssumption DEF TypeOK
<1>1. ASSUME NEW d \in Devices, Change(d) PROVE Track'
  <2>1. UNCHANGED <<connected, opens, at, snap, left, newest, failed>>
    BY <1>1 DEF Change
  <2>2. \A c \in Devices \ {d} : hub'[c] = hub[c]
    BY <1>1 DEF Change, TypeOK, States
  <2>3. \A c \in Devices \ {d} : Known(c) => Known(c)'
    BY <2>1, <2>2 DEF Known
  <2>4. early \subseteq early' /\ (opens = 0 => d \in early')
    BY <1>1 DEF Change
  <2>5. First'
    BY <2>1, <2>3, <2>4 DEF First
  <2>6. CASE connected
    <3>1. Sent(d)' /\ \A c \in Devices \ {d} : Sent(c) => Sent(c)'
      BY <1>1, <2>6, ChangeSends
    <3>2. Latest'
      <4> SUFFICES ASSUME NEW n \in Opens, NEW c \in Devices, n = opens', Replays(n, c)', c # d
                   PROVE  snap'[n][c] = hub'[c] \/ Sent(c)' \/ Known(c)'
        BY <3>1 DEF Latest
      <4>1. Replays(n, c) /\ n = opens
        BY <2>1 DEF Replays
      <4>2. snap[n][c] = hub[c] \/ Sent(c) \/ Known(c)
        BY <2>6, <4>1 DEF Latest
      <4> QED
        BY <2>1, <2>2, <2>3, <3>1, <4>2
    <3>3. Excuse'
      <4> SUFFICES ASSUME NEW c \in Devices, c # d
                   PROVE  (UnderWay(c) \/ c \in early \/ failed \/ Known(c))'
        BY <3>1 DEF Excuse, UnderWay, Sent
      <4>1. UnderWay(c) \/ c \in early \/ failed \/ Known(c)
        BY <2>6 DEF Excuse
      <4>2. UnderWay(c) => UnderWay(c)'
        BY <2>1, <3>1 DEF UnderWay, Sent
      <4> QED
        BY <2>1, <2>3, <2>4, <4>1, <4>2
    <3> QED
      BY <2>5, <3>2, <3>3
  <2>7. CASE ~connected
    BY <2>1, <2>5, <2>7 DEF Latest, Excuse
  <2> QED
    BY <2>6, <2>7
<1>2. CASE Drop
  BY <1>2 DEF Drop, First, Latest, Excuse
<1>3. CASE Open
  <2>1. /\ UNCHANGED <<hub, wire, snap, left, newest>>
        /\ ~connected /\ opens < MaxOpens /\ opens' = opens + 1
    BY <1>3 DEF Open
  <2>2. opens' \in Opens
    BY <1>o, <2>1, BoundsAssumption DEF Opens
  <2>3. First'
    BY <1>o, <2>1 DEF First
  <2>4. CASE opens > 0
    <3>1. at'[opens'] = "fetch"
      BY <1>3, <2>2, <2>4 DEF Open, TypeOK
    <3>2. Latest'
      BY <3>1 DEF Latest, Replays
    <3>3. Excuse'
      BY <2>2, <3>1 DEF Excuse, UnderWay
    <3> QED
      BY <2>3, <3>2, <3>3
  <2>5. CASE opens = 0
    <3>1. at'[opens'] = "none" /\ early' = early
      BY <1>3, <2>1, <2>2, <2>5 DEF Open, NotYet
    <3>2. Latest'
      BY <3>1 DEF Latest, Replays
    <3>3. \A d \in Devices : Known(d) => Known(d)'
      BY <2>1 DEF Known
    <3>4. Excuse'
      BY <2>5, <3>1, <3>3 DEF Excuse, First
    <3> QED
      BY <2>3, <3>2, <3>4
  <2> QED
    BY <1>o, <2>4, <2>5
<1>4. CASE Receive
  <2>1. UNCHANGED <<hub, connected, opens, at, snap, left, early, failed>>
    BY <1>4 DEF Receive
  <2>2. \A c \in Devices : (Known(c) => Known(c)') /\ (Sent(c) => Sent(c)' \/ Known(c)')
    BY <1>4, ReceiveKnows
  <2>3. First'
    BY <2>1, <2>2 DEF First
  <2>4. Latest'
    <3> SUFFICES ASSUME connected', NEW n \in Opens, NEW c \in Devices, n = opens', Replays(n, c)'
                 PROVE  snap'[n][c] = hub'[c] \/ Sent(c)' \/ Known(c)'
      BY DEF Latest
    <3>1. Replays(n, c) /\ n = opens /\ connected
      BY <2>1 DEF Replays
    <3>2. snap[n][c] = hub[c] \/ Sent(c) \/ Known(c)
      BY <3>1 DEF Latest
    <3> QED
      BY <2>1, <2>2, <3>2
  <2>5. Excuse'
    <3> SUFFICES ASSUME connected', NEW c \in Devices
                 PROVE  (UnderWay(c) \/ c \in early \/ failed \/ Known(c))'
      BY DEF Excuse
    <3>1. UnderWay(c) \/ c \in early \/ failed \/ Known(c)
      BY <2>1 DEF Excuse
    <3>2. UnderWay(c) => UnderWay(c)' \/ Known(c)'
      BY <2>1, <2>2 DEF UnderWay, Sent
    <3> QED
      BY <2>1, <2>2, <3>1, <3>2
  <2> QED
    BY <2>3, <2>4, <2>5
<1>5. ASSUME NEW n \in Opens, Resync(n) PROVE Track'
  <2>1. UNCHANGED <<hub, wire, connected, opens, early>>
    BY <1>5 DEF Resync, Answer, FetchFails, BeginReplay, EndReplay, Replay
  <2>2. \A c \in Devices : (Known(c) => Known(c)') /\ (Sent(c) <=> Sent(c)')
    <3>1. CASE UNCHANGED newest
      BY <2>1, <3>1 DEF Known, Sent
    <3>2. ASSUME NEW d \in Devices, Replay(n, d)
          PROVE  \A c \in Devices : Known(c) => Known(c)'
      <4>1. snap[n][d] \in Nat /\ snap[n][d] <= hub[d] /\ Apply(d, snap[n][d]) /\ UNCHANGED snap
        BY <3>2 DEF Replay, WireOK, Bounded, TypeOK, States
      <4> QED
        BY <2>1, <4>1, ApplyBounded DEF WireOK
    <3>3. \A c \in Devices : Sent(c) <=> Sent(c)'
      BY <2>1 DEF Sent
    <3> QED
      BY <1>5, <3>1, <3>2, <3>3 DEF Resync, Answer, FetchFails, BeginReplay, EndReplay
  <2>3. First'
    BY <2>1, <2>2 DEF First
  <2>4. SUFFICES ASSUME connected PROVE Latest' /\ Excuse'
    BY <2>1, <2>3 DEF Latest, Excuse
  \* It is enough to look at the latest resync, n, and the devices it has just dealt with.
  <2>5. /\ failed => failed'
        /\ \A m \in Opens \ {n} : at'[m] = at[m] /\ snap'[m] = snap[m] /\ left'[m] = left[m]
    BY <1>5 DEF Resync, Answer, FetchFails, BeginReplay, EndReplay, Replay, TypeOK
  <2>6. ASSUME NEW c \in Devices,
               n = opens /\ Replays(n, c)' => snap'[n][c] = hub'[c] \/ Sent(c)' \/ Known(c)',
               n = opens /\ UnderWay(c) => UnderWay(c)' \/ Known(c)' \/ failed'
        PROVE  /\ \A m \in Opens : m = opens' /\ Replays(m, c)' =>
                     snap'[m][c] = hub'[c] \/ Sent(c)' \/ Known(c)'
               /\ (UnderWay(c) \/ c \in early \/ failed \/ Known(c))'
    <3>1. ASSUME NEW m \in Opens, m = opens', Replays(m, c)', m # n
          PROVE  snap'[m][c] = hub'[c] \/ Sent(c)' \/ Known(c)'
      <4>1. Replays(m, c) /\ m = opens
        BY <2>1, <2>5, <3>1 DEF Replays
      <4>2. snap[m][c] = hub[c] \/ Sent(c) \/ Known(c)
        BY <2>4, <4>1 DEF Latest
      <4> QED
        BY <2>1, <2>2, <2>5, <3>1, <4>2
    <3>2. UnderWay(c) \/ c \in early \/ failed \/ Known(c)
      BY <2>4 DEF Excuse
    <3>3. n # opens /\ UnderWay(c) => UnderWay(c)'
      BY <2>1, <2>2, <2>5 DEF UnderWay
    <3> QED
      BY <2>1, <2>2, <2>5, <2>6, <3>1, <3>2, <3>3
  <2>7. SUFFICES ASSUME NEW c \in Devices, n = opens
        PROVE  /\ Replays(n, c)' => snap'[n][c] = hub'[c] \/ Sent(c)' \/ Known(c)'
               /\ UnderWay(c) => UnderWay(c)' \/ Known(c)' \/ failed'
    <3>1. \A c \in Devices :
            /\ \A m \in Opens : m = opens' /\ Replays(m, c)' =>
                  snap'[m][c] = hub'[c] \/ Sent(c)' \/ Known(c)'
            /\ (UnderWay(c) \/ c \in early \/ failed \/ Known(c))'
      BY <2>6, <2>7
    <3> QED
      BY <2>1, <3>1 DEF Latest, Excuse
  <2>8. CASE Answer(n)
    <3>1. at'[n] = "answered" /\ snap'[n] = hub
      BY <2>8 DEF Answer, TypeOK
    <3> QED
      BY <2>1, <2>7, <3>1 DEF UnderWay
  <2>9. CASE FetchFails(n)
    <3>1. at'[n] = "done" /\ failed'
      BY <2>7, <2>9 DEF FetchFails, TypeOK
    <3> QED
      BY <3>1 DEF Replays
  <2>10. CASE BeginReplay(n)
    <3>1. at[n] = "answered" /\ at'[n] = "replay" /\ left'[n] = Devices /\ snap' = snap
      BY <2>10 DEF BeginReplay, TypeOK
    <3>2. snap[n][c] = hub[c] \/ Sent(c) \/ Known(c)
      BY <2>4, <2>7, <3>1 DEF Latest, Replays
    <3> QED
      BY <2>1, <2>2, <2>7, <3>1, <3>2 DEF UnderWay
  <2>11. CASE EndReplay(n)
    <3>1. at[n] = "replay" /\ at'[n] = "done" /\ left[n] = {}
      BY <2>11 DEF EndReplay, TypeOK
    <3>2. UnderWay(c) => Sent(c)
      BY <2>7, <3>1 DEF UnderWay, Sent
    <3>3. Sent(c)' => UnderWay(c)'
      BY DEF UnderWay, Sent
    <3> QED
      BY <2>2, <3>1, <3>2, <3>3 DEF Replays
  <2>12. ASSUME NEW d \in Devices, Replay(n, d)
         PROVE  /\ Replays(n, c)' => snap'[n][c] = hub'[c] \/ Sent(c)' \/ Known(c)'
                /\ UnderWay(c) => UnderWay(c)' \/ Known(c)' \/ failed'
    <3>1. /\ at' = at /\ snap' = snap /\ at[n] = "replay" /\ d \in left[n]
          /\ left'[n] = left[n] \ {d} /\ Apply(d, snap[n][d])
      BY <2>12 DEF Replay, TypeOK
    <3>2. Replays(n, c) => snap[n][c] = hub[c] \/ Sent(c) \/ Known(c)
      BY <2>4, <2>7 DEF Latest
    <3>3. Replays(n, c)' => Replays(n, c)
      BY <3>1 DEF Replays
    <3>4. CASE c # d
      <4>1. UnderWay(c) => UnderWay(c)'
        BY <2>1, <2>2, <2>7, <3>1, <3>4 DEF UnderWay
      <4> QED
        BY <2>1, <2>2, <3>1, <3>2, <3>3, <4>1
    <3>5. CASE c = d
      <4>1. snap[n][d] = hub[d] => Known(d)'
        <5>1. snap[n][d] \in Nat /\ snap[n][d] <= hub[d] /\ UNCHANGED <<hub, snap>>
          BY <2>1, <3>1 DEF WireOK, Bounded, TypeOK, States
        <5> QED
          BY <3>1, <5>1, ApplyBounded DEF WireOK
      <4>2. Replays(n, d)
        BY <3>1 DEF Replays
      <4>3. Sent(d)' \/ Known(d)'
        BY <2>2, <3>2, <3>5, <4>1, <4>2
      <4>4. Sent(d)' => UnderWay(d)'
        BY DEF UnderWay, Sent
      <4> QED
        BY <3>5, <4>3, <4>4
    <3> QED
      BY <3>4, <3>5
  <2> QED
    BY <1>5, <2>8, <2>9, <2>10, <2>11, <2>12 DEF Resync
<1>6. CASE UNCHANGED vars
  BY <1>6 DEF vars, First, Latest, Excuse, Known, Sent, Replays, UnderWay
<1> QED
  BY <1>1, <1>2, <1>3, <1>4, <1>5, <1>6 DEF Next

-----------------------------------------------------------------------------

LEMMA InvHolds == Spec => []IInv
<1>1. Init => IInv
  BY InitHolds
<1>2. IInv /\ [Next]_vars => IInv'
  BY TypeStep, WireStep, NotYetStep, TrackStep DEF IInv, WireOK, Track
<1> QED
  BY <1>1, <1>2, PTL DEF Spec

\* Type correctness.
THEOREM TypeCorrect == Spec => []TypeOK
BY InvHolds, PTL DEF IInv

\* While connected, an entity is out of date for no other reason than the three that
\* _on_open and _resync_all_states leave open (hub_event_listener.py).
THEOREM StalenessExcused == Spec => []StaleIsExcused
<1>1. IInv => StaleIsExcused
  <2> SUFFICES ASSUME IInv, connected, NEW d \in Devices,
                      ~UnderWay(d), d \notin early, ~failed
               PROVE  held[d] = hub[d] \/ held[d] < newest[d]
    BY DEF StaleIsExcused, Excused
  <2>1. newest[d] = hub[d] /\ held[d] <= newest[d]
    BY DEF IInv, Excuse, Known, Bounded
  <2>2. held[d] \in Nat /\ newest[d] \in Nat
    BY DEF IInv, TypeOK, States
  <2> QED
    BY <2>1, <2>2
<1> QED
  BY <1>1, InvHolds, PTL

-----------------------------------------------------------------------------
(* The composition: StateSync and a write-behind cache per device.         *)

LEMMA PathInvHolds == PathSpec => [](IInv /\ PathTypeOK)
<1>1. PathInit => IInv /\ PathTypeOK
  BY InitHolds DEF PathInit, PathTypeOK, IInv, TypeOK
<1>2. IInv /\ [PathNext]_pathVars => IInv'
  <2>1. [PathNext]_pathVars => [Next]_vars
    BY DEF PathNext, pathVars, Attach, GiveUp, Show
  <2> QED
    BY <2>1, TypeStep, WireStep, NotYetStep, TrackStep DEF IInv, WireOK, Track
<1>3. IInv /\ IInv' /\ PathTypeOK /\ [PathNext]_pathVars => PathTypeOK'
  <2> SUFFICES ASSUME TypeOK', PathTypeOK, [PathNext]_pathVars
               PROVE  PathTypeOK'
    BY DEF IInv
  <2> USE DEF PathTypeOK, States, TypeOK
  <2>1. CASE Next /\ UNCHANGED <<shown, client>>
    BY <2>1
  <2>2. ASSUME NEW d \in Devices, Attach(d) \/ GiveUp(d) \/ Show(d)
        PROVE  PathTypeOK'
    <3>1. CASE Attach(d)
      BY <3>1 DEF Attach
    <3>2. CASE GiveUp(d)
      BY <3>2 DEF GiveUp
    <3>3. CASE Show(d)
      BY <3>3 DEF Show
    <3> QED
      BY <2>2, <3>1, <3>2, <3>3
  <2>3. CASE UNCHANGED pathVars
    BY <2>3 DEF pathVars
  <2> QED
    BY <2>1, <2>2, <2>3 DEF PathNext
<1> QED
  BY <1>1, <1>2, <1>3, PTL DEF PathSpec

\* The promise that PushThrottle keeps is all that the composition assumes of the entity
\* of a device: its steps are those of a WriteBehind on what the device object holds.
THEOREM EntitiesWriteBehind ==
  ASSUME NEW d \in Devices PROVE PathSpec => Path(d)!SafeSpec
<1>1. PathInit /\ PathTypeOK => Path(d)!Init
  BY DEF PathInit, PathTypeOK, States, Path!Init
<1>2. PathTypeOK /\ PathTypeOK' /\ [PathNext]_pathVars => [Path(d)!Next]_(Path(d)!vars)
  <2> SUFFICES ASSUME PathTypeOK, PathTypeOK', [PathNext]_pathVars
               PROVE  [Path(d)!Next]_(Path(d)!vars)
    OBVIOUS
  <2> USE DEF PathTypeOK, TypeOK, States, Path!Next, Path!vars
  <2>1. CASE Next /\ UNCHANGED <<shown, client>>
    BY <2>1 DEF Path!Put
  <2>2. ASSUME NEW e \in Devices, Attach(e)
        PROVE  [Path(d)!Next]_(Path(d)!vars)
    BY <2>2 DEF Attach, vars, Path!Open
  <2>3. ASSUME NEW e \in Devices, GiveUp(e)
        PROVE  [Path(d)!Next]_(Path(d)!vars)
    BY <2>3 DEF GiveUp, vars, Path!GiveUp
  <2>4. ASSUME NEW e \in Devices, Show(e)
        PROVE  [Path(d)!Next]_(Path(d)!vars)
    BY <2>4 DEF Show, vars, Path!Show
  <2>5. CASE UNCHANGED pathVars
    BY <2>5 DEF pathVars, vars
  <2> QED
    BY <2>1, <2>2, <2>3, <2>4, <2>5 DEF PathNext
<1> QED
  BY <1>1, <1>2, PathInvHolds, PTL DEF PathSpec, Path!SafeSpec

\* StalenessExcused for the composition, the specification of the run.
THEOREM PathStalenessExcused == PathSpec => []StaleIsExcused
<1>1. PathInit => Init
  BY DEF PathInit
<1>2. [PathNext]_pathVars => [Next]_vars
  BY DEF PathNext, pathVars, Attach, GiveUp, Show
<1> QED
  BY <1>1, <1>2, StalenessExcused, PTL DEF Spec, PathSpec
=============================================================================
