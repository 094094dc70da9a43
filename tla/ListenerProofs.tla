--------------------------- MODULE ListenerProofs ---------------------------
(***************************************************************************)
(* Theorems about what hub_event_listener.py does.  First, that isolated   *)
(* dips of an energy total never inflate Home Assistant's statistics, and  *)
(* that the guard does not freeze the sensor.  Second, about the threads   *)
(* of the listener, its keepalive timers and stop(): an open connection    *)
(* has a keepalive, one at a time, and a reconnect schedules its resync.   *)
(***************************************************************************)
EXTENDS EnergyStatistics, ListenerThread, TLAPS

\* A reset of the meter that HA has not seen: counting the whole total is right.
Debt == sum + meter <= used

\* HA has seen the last number shown.
Seen == stored[Total] \in {counted, NoValue}

\* The statistics, relative to what HA saw last: a correct increase is covered, and so is
\* the whole total whenever HA has seen more than the meter.
Covered ==
  /\ sum <= used
  /\ sum + meter <= used + counted
  /\ counted > meter => Debt

\* A plug that announces: after the announcement the entity never exceeds the meter, so
\* the counter only ever counts the one dip that no plain reading has followed.
Announced ==
  style = "announced" =>
    /\ resetAt <= resets
    /\ resetAt = resets => counted <= meter \/ stored[Total] = NoValue
    /\ resetAt # resets => Debt \/ (dipped /\ counted <= meter)
    /\ held[Total] <= 1 /\ (held[Total] = 1 => dipped)

\* A plug that resets silently: a second dip in a row is the reset.
Silent ==
  style = "silent" =>
    /\ held[Total] >= 1 /\ ~dipped => Debt
    /\ held[Total] >= 2 => Debt

\* Without a number no dips are counted.
Blind == stored[Total] = NoValue => held[Total] = 0

\* While the entity shows something else than the last reading, each correct reading in a
\* row has been counted as a dip.
Counting ==
  streak >= 1 =>
    /\ reported <= meter /\ stored[Total] # NoValue
    /\ stored[Total] # reported => held[Total] >= streak

Guarded == Covered /\ Announced /\ Silent /\ Blind
IInv == TypeOK /\ Seen /\ (unguarded \/ Guarded)

-----------------------------------------------------------------------------
(* What a payload does to Total, in plain arithmetic.                      *)

Values == Nat \cup {NoValue}
Advanced(stamp) == stamp # NoTime /\ (resetAt = NoTime \/ stamp > resetAt)
Both(v) == stored[Total] # NoValue /\ v # NoValue
Dip(v) == Both(v) /\ v < stored[Total] /\ v > 0
Skips(v, stamp) == ~Advanced(stamp) /\ Dip(v) /\ held[Total] + 1 < AcceptAfter

LEMMA NumbersAreValues == \A n \in Nat : n # NoValue
BY NoValueAssumption

LEMMA PayloadOnTotal ==
  ASSUME TypeOK, NEW v \in Values, NEW stamp \in Nat, Payload(v, stamp)
  PROVE  /\ stored'[Total] = IF Skips(v, stamp) THEN stored[Total] ELSE v
         /\ held'[Total] = IF Advanced(stamp) \/ ~Both(v) THEN held[Total]
                           ELSE IF Skips(v, stamp) THEN held[Total] + 1 ELSE 0
         /\ resetAt' = IF stamp # NoTime THEN stamp ELSE resetAt
         /\ Counted
         /\ UNCHANGED <<style, meter, used, resets>>
<1>1. PICK as \in SUBSET others : \E f \in [as -> OthersValues] :
        OnAttributes([vals |-> [a \in as \cup {Total} |-> IF a = Total THEN v ELSE f[a]],
                      reset |-> stamp])
  BY DEF Payload
<1>2. PICK f \in [as -> OthersValues] :
        OnAttributes([vals |-> [a \in as \cup {Total} |-> IF a = Total THEN v ELSE f[a]],
                      reset |-> stamp])
  BY <1>1
<1> DEFINE p == [vals |-> [a \in as \cup {Total} |-> IF a = Total THEN v ELSE f[a]],
                 reset |-> stamp]
<1>3. Total \in DOMAIN p.vals /\ p.vals[Total] = v /\ p.reset = stamp
  OBVIOUS
<1>4. OnAttributes(p)
  BY <1>2
<1> HIDE DEF p
<1>5. HeldBack(p, Total) <=> Skips(v, stamp)
  BY <1>3 DEF HeldBack, Skips, IsDip, Compares, Dip, Both, ResetAdvanced, Advanced
<1>6. HeldAfter(p, Total) = IF Advanced(stamp) \/ ~Both(v) THEN held[Total]
                            ELSE IF Skips(v, stamp) THEN held[Total] + 1 ELSE 0
  BY <1>3 DEF HeldAfter, Skips, IsDip, Compares, Dip, Both, ResetAdvanced, Advanced
<1>7. stored'[Total] = IF Skips(v, stamp) THEN stored[Total] ELSE v
  BY <1>3, <1>4, <1>5, TotalAssumption DEF OnAttributes
<1>8. held'[Total] = HeldAfter(p, Total)
  BY <1>3, <1>4, TotalAssumption DEF OnAttributes
<1>9. resetAt' = IF stamp # NoTime THEN stamp ELSE resetAt
  BY <1>3, <1>4 DEF OnAttributes
<1> QED
  BY <1>6, <1>7, <1>8, <1>9 DEF Payload, plug

LEMMA PayloadTypes ==
  ASSUME TypeOK, NEW v \in Values, NEW stamp \in Nat, Payload(v, stamp)
  PROVE  /\ stored' \in [Attrs -> Values]
         /\ held' \in [Attrs -> 0 .. (AcceptAfter - 1)]
<1>1. PICK as \in SUBSET others : \E f \in [as -> OthersValues] :
        OnAttributes([vals |-> [a \in as \cup {Total} |-> IF a = Total THEN v ELSE f[a]],
                      reset |-> stamp])
  BY DEF Payload
<1>2. PICK f \in [as -> OthersValues] :
        OnAttributes([vals |-> [a \in as \cup {Total} |-> IF a = Total THEN v ELSE f[a]],
                      reset |-> stamp])
  BY <1>1
<1> DEFINE p == [vals |-> [a \in as \cup {Total} |-> IF a = Total THEN v ELSE f[a]],
                 reset |-> stamp]
<1>3. \A a \in DOMAIN p.vals : p.vals[a] \in Values
  <2>1. \A a \in as : f[a] \in Values
    <3>1. OthersValues \subseteq Values
      BY BoundsAssumption DEF OthersValues, Values
    <3> QED
      BY <3>1
  <2>2. \A a \in as \cup {Total} : (IF a = Total THEN v ELSE f[a]) \in Values
    BY <2>1
  <2>3. p.vals = [a \in as \cup {Total} |-> IF a = Total THEN v ELSE f[a]]
    OBVIOUS
  <2> HIDE DEF p
  <2> QED
    BY <2>2, <2>3
<1>4. OnAttributes(p)
  BY <1>2
<1> HIDE DEF p
<1>5. \A a \in Attrs : HeldAfter(p, a) \in 0 .. (AcceptAfter - 1)
  BY AcceptAssumption DEF HeldAfter, TypeOK
<1>6. stored' \in [Attrs -> Values]
  BY <1>3, <1>4 DEF OnAttributes, TypeOK, Values
<1>7. held' \in [Attrs -> 0 .. (AcceptAfter - 1)]
  BY <1>4, <1>5 DEF OnAttributes, TypeOK
<1> QED
  BY <1>6, <1>7

-----------------------------------------------------------------------------
(* The invariant.                                                          *)

AtMostTwoStyles == Styles \subseteq {"announced", "silent"}

LEMMA StampTypes == ASSUME TypeOK PROVE Stamps \subseteq Nat /\ GlitchStamps \subseteq Nat
BY StylesAssumption DEF TypeOK, Stamps, GlitchStamps, NoTime

\* The stamps of a correct reading.
LEMMA StampsKnown ==
  ASSUME TypeOK, AtMostTwoStyles
  PROVE  /\ Stamps \subseteq Nat /\ GlitchStamps \subseteq Nat
         /\ style = "announced" => /\ Stamps \subseteq {NoTime, resets}
                                   /\ GlitchStamps = {NoTime, resets}
                                   /\ resetAt # resets => Stamps = {resets}
         /\ style = "silent" => Stamps = {NoTime} /\ GlitchStamps = {NoTime}
         /\ style \in {"announced", "silent"}
BY DEF TypeOK, AtMostTwoStyles, Stamps, GlitchStamps, NoTime

LEMMA TypeInit == Init => TypeOK
<1> SUFFICES ASSUME Init PROVE TypeOK
  OBVIOUS
<1>1. meter \in Nat
  BY BoundsAssumption DEF Init
<1>2. stored \in [Attrs -> Nat \cup {NoValue}]
  BY <1>1 DEF Init
<1>3. held \in [Attrs -> 0 .. (AcceptAfter - 1)] /\ streak \in 0 .. AcceptAfter
  BY AcceptAssumption DEF Init
<1> QED
  BY <1>1, <1>2, <1>3 DEF Init, TypeOK, NoTime

\* HA's statistics stay numbers, whatever is shown.
LEMMA CountedTypes ==
  ASSUME sum \in Nat, counted \in Nat, stored'[Total] \in Values, Counted
  PROVE  sum' \in Nat /\ counted' \in Nat
<1>1. CASE stored'[Total] = NoValue
  BY <1>1 DEF Counted, statistics
<1>2. CASE stored'[Total] \in Nat
  BY <1>2, NumbersAreValues DEF Counted
<1> QED
  BY <1>1, <1>2 DEF Values

LEMMA TypeStep == TypeOK /\ [Next]_vars => TypeOK'
<1> SUFFICES ASSUME TypeOK, [Next]_vars PROVE TypeOK'
  OBVIOUS
<1>1. CASE Consume
  BY <1>1 DEF TypeOK, Consume, guardVars, statistics
<1>2. CASE Reset
  BY <1>2, AcceptAssumption DEF TypeOK, Reset, guardVars, statistics
<1>3. ASSUME NEW v \in Values, NEW stamp \in Nat, Payload(v, stamp)
      PROVE  /\ stored' \in [Attrs -> Nat \cup {NoValue}]
             /\ held' \in [Attrs -> 0 .. (AcceptAfter - 1)]
             /\ resetAt' \in Nat /\ resets' \in Nat /\ style' \in Styles
             /\ meter' \in Nat /\ used' \in Nat /\ sum' \in Nat /\ counted' \in Nat
  <2>1. stored' \in [Attrs -> Values] /\ held' \in [Attrs -> 0 .. (AcceptAfter - 1)]
    BY <1>3, PayloadTypes
  <2>2. sum' \in Nat /\ counted' \in Nat
    BY <1>3, <2>1, PayloadOnTotal, CountedTypes, TotalAssumption DEF TypeOK
  <2>3. resetAt' \in Nat
    BY <1>3, PayloadOnTotal DEF TypeOK
  <2> QED
    BY <1>3, <2>1, <2>2, <2>3, PayloadOnTotal DEF TypeOK, Values
<1>4. CASE Reading
  <2>1. PICK stamp \in Stamps : Payload(meter, stamp)
    BY <1>4 DEF Reading
  <2>2. stamp \in Nat /\ meter \in Values
    BY StampTypes DEF TypeOK, Values
  <2>3. reported' \in Nat /\ dipped' \in BOOLEAN /\ unguarded' \in BOOLEAN
    BY <1>4 DEF Reading, TypeOK
  <2>4. streak' \in 0 .. AcceptAfter
    BY <1>4, AcceptAssumption DEF Reading, TypeOK
  <2> QED
    BY <1>3, <2>1, <2>2, <2>3, <2>4 DEF TypeOK
<1>5. CASE Glitch
  <2>1. PICK v \in 1 .. (meter - 1), stamp \in GlitchStamps : Payload(v, stamp)
    BY <1>5 DEF Glitch
  <2>2. stamp \in Nat /\ v \in Values
    BY StampTypes DEF TypeOK, Values
  <2>3. /\ reported' \in Nat /\ dipped' \in BOOLEAN /\ unguarded' \in BOOLEAN
        /\ streak' \in 0 .. AcceptAfter
    BY <1>5, AcceptAssumption DEF Glitch, TypeOK
  <2> QED
    BY <1>3, <2>1, <2>2, <2>3 DEF TypeOK
<1>6. CASE Blank
  <2>1. PICK stamp \in Stamps : Payload(NoValue, stamp)
    BY <1>6 DEF Blank
  <2>2. stamp \in Nat /\ NoValue \in Values
    BY StampTypes DEF Values
  <2>3. /\ reported' \in Nat /\ dipped' \in BOOLEAN /\ unguarded' \in BOOLEAN
        /\ streak' \in 0 .. AcceptAfter
    BY <1>6, AcceptAssumption DEF Blank, TypeOK
  <2> QED
    BY <1>3, <2>1, <2>2, <2>3 DEF TypeOK
<1>7. CASE UNCHANGED vars
  BY <1>7 DEF TypeOK, vars, guardVars, plug, statistics
<1> QED
  BY <1>1, <1>2, <1>4, <1>5, <1>6, <1>7 DEF Next

\* What HA has seen is what is shown.
LEMMA SeenStep ==
  ASSUME TypeOK, Seen, [Next]_vars PROVE Seen'
<1>1. ASSUME NEW v \in Values, NEW stamp \in Nat, Payload(v, stamp) PROVE Seen'
  BY <1>1, PayloadOnTotal DEF Counted, Seen
<1>2. CASE Reading
  BY <1>1, <1>2, StampTypes DEF Reading, TypeOK, Values
<1>3. CASE Glitch
  <2>1. PICK v \in 1 .. (meter - 1), stamp \in GlitchStamps : Payload(v, stamp)
    BY <1>3 DEF Glitch
  <2>2. stamp \in Nat /\ v \in Values
    BY StampTypes DEF TypeOK, Values
  <2> QED
    BY <1>1, <2>1, <2>2
<1>4. CASE Blank
  BY <1>1, <1>4, StampTypes DEF Blank, Values
<1>5. CASE Consume \/ Reset \/ UNCHANGED vars
  BY <1>5 DEF Consume, Reset, vars, guardVars, statistics, Seen
<1> QED
  BY <1>2, <1>3, <1>4, <1>5 DEF Next

\* The types of what the steps compute with.
LEMMA Numbers ==
  ASSUME TypeOK
  PROVE  /\ stored[Total] \in Nat \cup {NoValue} /\ held[Total] \in 0 .. (AcceptAfter - 1)
         /\ resetAt \in Nat /\ resets \in Nat /\ meter \in Nat /\ used \in Nat /\ sum \in Nat
         /\ counted \in Nat /\ reported \in Nat /\ streak \in 0 .. AcceptAfter
         /\ AcceptAfter \in Nat \ {0} /\ dipped \in BOOLEAN /\ unguarded \in BOOLEAN
BY TotalAssumption, AcceptAssumption DEF TypeOK

\* A correct reading that is compared with a number, or is the first after none.
LEMMA ReadingStep ==
  ASSUME AtMostTwoStyles, TypeOK, Seen, Guarded, Reading PROVE Guarded'
<1>1. PICK stamp \in Stamps :
        /\ Payload(meter, stamp)
        /\ dipped' = (dipped /\ style # "mixed" /\ stamp > resetAt)
  BY DEF Reading
<1>2. stamp \in Nat /\ meter \in Values /\ meter # NoValue
  BY StampsKnown, NumbersAreValues DEF TypeOK, Values
<1> DEFINE s == stored[Total]
           h == held[Total]
<1>3. /\ stored'[Total] = IF Skips(meter, stamp) THEN s ELSE meter
      /\ held'[Total] = IF Advanced(stamp) \/ ~Both(meter) THEN h
                        ELSE IF Skips(meter, stamp) THEN h + 1 ELSE 0
      /\ resetAt' = IF stamp # NoTime THEN stamp ELSE resetAt
      /\ Counted
      /\ UNCHANGED <<style, meter, used, resets>>
  BY <1>1, <1>2, PayloadOnTotal
<1>4. CASE s # NoValue
  <2>1. s = counted /\ stored'[Total] # NoValue /\ Both(meter)
    BY <1>2, <1>3, <1>4 DEF Seen, Both
  <2>2. /\ counted' = IF Skips(meter, stamp) THEN counted ELSE meter
        /\ sum' = IF ~Skips(meter, stamp) /\ meter < counted THEN sum + meter
                  ELSE IF Skips(meter, stamp) THEN sum ELSE sum + (meter - counted)
    BY <1>3, <2>1, Numbers DEF Counted
  <2>3. Skips(meter, stamp) <=>
          ~Advanced(stamp) /\ meter < counted /\ meter > 0 /\ h + 1 < AcceptAfter
    BY <2>1 DEF Skips, Dip
  <2>4. Covered'
    BY <1>3, <2>2, <2>3, Numbers DEF Guarded, Covered, Debt
  <2>5. Announced'
    BY <1>1, <1>2, <1>3, <2>1, <2>2, <2>3, StampsKnown, Numbers
       DEF Guarded, Announced, Covered, Debt, Advanced, NoTime
  <2>6. Silent'
    BY <1>1, <1>2, <1>3, <2>1, <2>2, <2>3, StampsKnown, Numbers
       DEF Guarded, Silent, Covered, Debt, Advanced, NoTime
  <2> QED
    BY <2>1, <2>4, <2>5, <2>6 DEF Guarded, Blind
<1>5. CASE s = NoValue
  <2>1. /\ stored'[Total] = meter /\ held'[Total] = 0 /\ h = 0 /\ counted' = meter
        /\ sum' = IF meter < counted THEN sum + meter ELSE sum + (meter - counted)
    BY <1>2, <1>3, <1>5 DEF Counted, Skips, Dip, Both, Guarded, Blind
  <2>2. Covered'
    BY <1>3, <2>1, Numbers DEF Guarded, Covered, Debt
  <2>3. Announced' /\ Silent'
    BY <1>2, <1>1, <1>3, <2>1, StampsKnown, Numbers DEF Guarded, Announced, Silent, Debt, NoTime
  <2> QED
    BY <1>2, <2>1, <2>2, <2>3 DEF Guarded, Blind
<1> QED
  BY <1>4, <1>5

\* A dip compared with a number.  It is the first since the last plain reading, so it is let
\* through only if a reset is still unaccounted for.
LEMMA GlitchStep ==
  ASSUME AtMostTwoStyles, AcceptAfter >= 2, TypeOK, Seen, Guarded, Glitch, ~unguarded'
  PROVE  Guarded'
<1>1. PICK v \in 1 .. (meter - 1), stamp \in GlitchStamps : Payload(v, stamp)
  BY DEF Glitch
<1>2. ~dipped /\ dipped' = TRUE /\ stored[Total] # NoValue
  BY DEF Glitch
<1>3. /\ stamp \in Nat /\ v \in Nat /\ v > 0 /\ v < meter
      /\ v \in Values /\ v # NoValue /\ Both(v) /\ stored[Total] = counted
  BY <1>2, StampsKnown, Numbers, NumbersAreValues DEF Values, Both, Seen
<1> DEFINE h == held[Total]
<1>4. /\ stored'[Total] = IF Skips(v, stamp) THEN counted ELSE v
      /\ held'[Total] = IF Advanced(stamp) THEN h ELSE IF Skips(v, stamp) THEN h + 1 ELSE 0
      /\ resetAt' = IF stamp # NoTime THEN stamp ELSE resetAt
      /\ Counted
      /\ UNCHANGED <<style, meter, used, resets>>
  BY <1>1, <1>3, PayloadOnTotal
<1>5. stored'[Total] # NoValue
  BY <1>3, <1>4, Numbers, NumbersAreValues
<1>6. /\ counted' = IF Skips(v, stamp) THEN counted ELSE v
      /\ sum' = IF ~Skips(v, stamp) /\ v < counted THEN sum + v
                ELSE IF Skips(v, stamp) THEN sum ELSE sum + (v - counted)
  BY <1>3, <1>4, <1>5, Numbers DEF Counted
<1>7. Skips(v, stamp) <=> ~Advanced(stamp) /\ v < counted /\ h + 1 < AcceptAfter
  BY <1>3 DEF Skips, Dip
<1>8. counted' < counted => Debt
  BY <1>1, <1>2, <1>3, <1>6, <1>7, StampsKnown, Numbers
     DEF Guarded, Announced, Silent, Covered, Advanced, NoTime
<1>9. Covered'
  BY <1>3, <1>4, <1>6, <1>7, <1>8, Numbers DEF Guarded, Covered, Debt
<1>10. Announced'
  BY <1>1, <1>2, <1>3, <1>4, <1>6, <1>7, <1>8, StampsKnown, Numbers
     DEF Guarded, Announced, Covered, Debt, Advanced, NoTime
<1>11. Silent'
  BY <1>1, <1>2, <1>3, <1>4, <1>6, <1>7, <1>8, StampsKnown, Numbers
     DEF Guarded, Silent, Covered, Debt, Advanced, NoTime
<1> QED
  BY <1>5, <1>9, <1>10, <1>11 DEF Guarded, Blind

\* A total that is no number, while no dips are being counted.
LEMMA BlankStep ==
  ASSUME AtMostTwoStyles, TypeOK, Guarded, Blank, ~unguarded' PROVE Guarded'
<1>1. PICK stamp \in Stamps : Payload(NoValue, stamp)
  BY DEF Blank
<1>2. held[Total] = 0 /\ dipped' = dipped
  BY DEF Blank
<1>3. stamp \in Nat /\ NoValue \in Values
  BY StampsKnown DEF Values
<1>4. /\ stored'[Total] = NoValue /\ held'[Total] = 0 /\ sum' = sum /\ counted' = counted
      /\ resetAt' = IF stamp # NoTime THEN stamp ELSE resetAt
      /\ UNCHANGED <<style, meter, used, resets>>
  BY <1>1, <1>2, <1>3, PayloadOnTotal DEF Skips, Dip, Both, Counted, statistics
<1> QED
  BY <1>1, <1>2, <1>3, <1>4, StampsKnown, Numbers
     DEF Guarded, Blind, Covered, Announced, Silent, Debt, NoTime

LEMMA GuardedStep ==
  ASSUME AtMostTwoStyles, AcceptAfter >= 2, IInv, [Next]_vars PROVE (unguarded \/ Guarded)'
<1> SUFFICES ASSUME ~unguarded' PROVE Guarded'
  OBVIOUS
<1>1. ~unguarded /\ TypeOK /\ Seen /\ Guarded
  <2>1. TypeOK /\ Seen /\ (unguarded \/ Guarded)
    BY DEF IInv
  <2>2. unguarded => unguarded'
    BY DEF Next, Consume, Reset, Reading, Blank, Glitch, vars
  <2> QED
    BY <2>1, <2>2
<1> USE DEF Guarded, Covered, Announced, Silent, Blind, Debt
<1>2. CASE Consume
  BY <1>1, <1>2, Numbers DEF Consume, guardVars, statistics
<1>3. CASE Reset
  BY <1>1, <1>3, Numbers DEF Reset, guardVars, statistics
<1>4. CASE Reading
  BY <1>1, <1>4, ReadingStep
<1>5. CASE Blank
  BY <1>1, <1>5, BlankStep
<1>6. CASE Glitch
  BY <1>1, <1>6, GlitchStep
<1>7. CASE UNCHANGED vars
  BY <1>1, <1>7 DEF vars, guardVars, plug, statistics
<1> QED
  BY <1>2, <1>3, <1>4, <1>5, <1>6, <1>7 DEF Next

\* After none a correct reading is shown at once; else it is, or counts as a dip.
LEMMA CountingStep ==
  ASSUME TypeOK, Counting, [Next]_vars PROVE Counting'
<1>1. CASE Consume
  BY <1>1, Numbers DEF Consume, guardVars, Counting
<1>2. CASE Reset \/ Blank \/ Glitch
  BY <1>2 DEF Reset, Blank, Glitch, Counting
<1>3. CASE Reading
  <2>1. PICK stamp \in Stamps : Payload(meter, stamp)
    BY <1>3 DEF Reading
  <2>2. stamp \in Nat /\ meter \in Values /\ meter # NoValue
    BY StampTypes, NumbersAreValues DEF TypeOK, Values
  <2>3. /\ stored'[Total] = IF Skips(meter, stamp) THEN stored[Total] ELSE meter
        /\ held'[Total] = IF Advanced(stamp) \/ ~Both(meter) THEN held[Total]
                          ELSE IF Skips(meter, stamp) THEN held[Total] + 1 ELSE 0
        /\ UNCHANGED meter
    BY <2>1, <2>2, PayloadOnTotal
  <2>4. reported' = meter /\ streak' \in {streak, streak + 1}
    BY <1>3 DEF Reading
  <2>5. CASE ~Skips(meter, stamp)
    BY <2>2, <2>3, <2>4, <2>5, Numbers DEF Counting
  <2>6. CASE Skips(meter, stamp)
    <3>1. /\ stored[Total] # NoValue /\ meter < stored[Total] /\ ~Advanced(stamp)
          /\ Both(meter) /\ stored'[Total] = stored[Total] /\ held'[Total] = held[Total] + 1
      BY <2>3, <2>6 DEF Skips, Dip, Both
    <3>2. stored[Total] # reported => held[Total] >= streak
      BY <3>1, Numbers DEF Counting
    <3>3. streak >= 1 => stored[Total] # reported
      BY <3>1, Numbers DEF Counting
    <3>4. held'[Total] >= streak'
      BY <3>1, <3>2, <3>3, <2>4, Numbers
    <3> QED
      BY <2>3, <2>4, <3>1, <3>4, Numbers DEF Counting
  <2> QED
    BY <2>5, <2>6
<1>4. CASE UNCHANGED vars
  BY <1>4 DEF vars, guardVars, plug, Counting
<1> QED
  BY <1>1, <1>2, <1>3, <1>4 DEF Next

LEMMA InvHolds ==
  ASSUME AtMostTwoStyles, AcceptAfter >= 2 PROVE Spec => []IInv
<1>1. Init => IInv
  <2> SUFFICES ASSUME Init PROVE IInv
    OBVIOUS
  <2>1. TypeOK
    BY TypeInit
  <2>2. Seen
    BY TotalAssumption DEF Init, Seen
  <2>3. Guarded
    BY <2>1, TotalAssumption, Numbers
       DEF Init, Guarded, Covered, Announced, Silent, Blind, Debt, NoTime
  <2> QED
    BY <2>1, <2>2, <2>3 DEF IInv
<1>2. IInv /\ [Next]_vars => IInv'
  BY TypeStep, SeenStep, GuardedStep DEF IInv
<1> QED
  BY <1>1, <1>2, PTL DEF Spec

\* Whatever the hub reports for the total, a number or not, and whatever the style of the
\* resets: what is stored is a number or none, the counter of dips stays below AcceptAfter
\* (_hold_back_energy_decrease), and what HA adds up are numbers.
THEOREM StatisticsTypeCorrect == Spec => []TypeOK
<1>1. TypeOK /\ [Next]_vars => TypeOK'
  BY TypeStep
<1> QED
  BY <1>1, TypeInit, PTL DEF Spec

\* Isolated dips never inflate the statistics, unless a total without a number has left the
\* guard nothing to compare with.
THEOREM StatisticsSound ==
  ASSUME AtMostTwoStyles, AcceptAfter >= 2 PROVE Spec => []NoInflation
<1>1. IInv => NoInflation
  BY DEF IInv, Guarded, Covered, NoInflation
<1> QED
  BY <1>1, InvHolds, PTL

\* A reset that was not announced is taken over after AcceptAfter correct readings, whatever
\* was reported before: also by a plug of the mixed style, and if AcceptAfter is 1.
THEOREM SensorNotFrozen == Spec => []NotFrozen
<1>1. Init => TypeOK /\ Counting
  BY TypeInit DEF Init, Counting
<1>2. TypeOK /\ Counting /\ [Next]_vars => (TypeOK /\ Counting)'
  BY TypeStep, CountingStep
<1>3. TypeOK /\ Counting => NotFrozen
  BY Numbers DEF Counting, NotFrozen
<1> QED
  BY <1>1, <1>2, <1>3, PTL DEF Spec

-----------------------------------------------------------------------------
(* The listener's threads.                                                 *)

\* Where the listener's thread is: between cancel() and the assignment of None, between the
\* new Timer and its start(), and where no keepalive thread can still be at work.
Cancelling == {"open_clear", "close_clear"}
Starting == {"open_daemon", "open_start"}
Quiet == {"create", "enter", "connect"} \cup OnOpenSteps

\* _keepalive_timer: there is a timer from its creation on; it is not one that was cancelled,
\* but right after, and one that is over was told to stop; a thread that re-arms has put
\* another there.
FieldFits ==
  /\ pc \in Cancelling \cup Starting \cup {"open_resync", "open"} => field # None
  /\ field # None /\ pc \notin Cancelling =>
       timer[field] # "revoked" /\ (timer[field] = "over" => RequestToStop)
  /\ \A t \in Timers : timer[t] \in {"daemon", "start"} => t # field

\* The listener's thread leaves a timer unstarted only for a keepalive thread to start it.
NewIsStarted ==
  pc \in {"open_resync", "open"} /\ timer[field] = "new" =>
    \E t \in Timers : timer[t] \in {"daemon", "start"}

\* Unless one was forgotten there is one keepalive, the field's: none is at work when a
\* connection opens, none is left when the next is created, and what was started after a
\* connection broke has not fired yet.
Single ==
  ~escaped =>
    /\ \A t, u \in Timers : Busy(t) /\ Busy(u) => t = u
    /\ \A t \in Timers : timer[t] = "armed" => t = field
    /\ pc \in Quiet => \A t \in Timers : ~Running(t)
    /\ pc \in Gap \ {"close_cancel"} => \A t \in Timers : timer[t] = "armed" => t \in fresh
    /\ pc \in Starting \cup {"open_clear", "open_new"} => \A t \in Timers : ~Busy(t)
    /\ pc \in Starting => timer[field] = "new"

\* _has_opened is set when _on_open is over, and a resync is owed only until then.
Remembered ==
  /\ pc \in OnOpenSteps => opened
  /\ ~escaped =>
       /\ opened /\ pc \notin OnOpenSteps => hasOpened
       /\ resync = "owed" => pc \in OnOpenSteps /\ hasOpened

\* None of these is inductive alone: that the field's timer serves needs that a cancelled or
\* a new one is not left there, and that there is one keepalive needs where each thread is.
ThreadInv == ThreadTypeOK /\ FieldFits /\ NewIsStarted /\ Single /\ Remembered

\* What a Timer(...) call returns is an object nobody uses.
LEMMA NewTimerIsUnused ==
  Unused # {} => NewTimer \in Timers /\ ~Busy(NewTimer) /\ NewTimer # field
BY DEF NewTimer, Unused

\* Every field of the listener keeps its type; what is fresh is armed.
LEMMA ThreadTypeStep == ThreadTypeOK /\ Remembered /\ [ThreadNext]_threadVars => ThreadTypeOK'
<1> SUFFICES ASSUME ThreadTypeOK, Remembered, [ThreadNext]_threadVars PROVE ThreadTypeOK'
  OBVIOUS
<1> USE DEF ThreadTypeOK, Remembered
<1>1. CASE Build
  BY <1>1 DEF Build, Gap
<1>2. CASE Enter
  BY <1>2 DEF Enter, Gap
<1>3. CASE Connected
  BY <1>3 DEF Connected, Gap, OnOpenSteps
<1>4. CASE NotConnected
  BY <1>4 DEF NotConnected, Return, Gap
<1>5. CASE Closed
  BY <1>5 DEF Closed, Return, Gap
<1>6. CASE Cancel
  BY <1>6 DEF Cancel, Gap, OnOpenSteps, Cancelled
<1>7. CASE Clear
  BY <1>7 DEF Clear, Gap, OnOpenSteps
<1>8. CASE StartCreate
  BY <1>8, NewTimerIsUnused DEF StartCreate, Busy, Gap, OnOpenSteps
<1>9. CASE StartDaemon
  BY <1>9 DEF StartDaemon, Gap, OnOpenSteps
<1>10. CASE StartTimer
  BY <1>10 DEF StartTimer, Gap, OnOpenSteps, Started, Startable
<1>11. CASE Opened
  BY <1>11 DEF Opened, OnOpenSteps
<1>12. CASE Check
  BY <1>12 DEF Check, Gap
<1>13. CASE Backoff
  BY <1>13 DEF Backoff, Gap
<1>14. CASE Drop
  BY <1>14 DEF Drop, Return, Gap
<1>15. CASE SetFlag
  BY <1>15 DEF SetFlag
<1>16. CASE SetEvent
  BY <1>16 DEF SetEvent
<1>17. CASE CloseApp
  BY <1>17 DEF CloseApp
<1>18. CASE Join
  BY <1>18 DEF Join
<1>19. ASSUME NEW t \in Timers, Fire(t) PROVE ThreadTypeOK'
  BY <1>19 DEF Fire
<1>20. ASSUME NEW t \in Timers, Send(t) PROVE ThreadTypeOK'
  BY <1>20 DEF Send
<1>21. ASSUME NEW t \in Timers, RearmCreate(t) PROVE ThreadTypeOK'
  BY <1>21, NewTimerIsUnused DEF RearmCreate, Busy
<1>22. ASSUME NEW t \in Timers, RearmDaemon(t) PROVE ThreadTypeOK'
  BY <1>22 DEF RearmDaemon
<1>23. ASSUME NEW t \in Timers, RearmStart(t) PROVE ThreadTypeOK'
  BY <1>23 DEF RearmStart, Started, Startable
<1>24. CASE UNCHANGED threadVars
  BY <1>24 DEF threadVars
<1> QED
  BY <1>1, <1>2, <1>3, <1>4, <1>5, <1>6, <1>7, <1>8, <1>9, <1>10, <1>11, <1>12, <1>13,
     <1>14, <1>15, <1>16, <1>17, <1>18, <1>19, <1>20, <1>21, <1>22, <1>23, <1>24
     DEF ThreadNext, Listener, Keepalive, Stop, Done

\* The field, action by action.
LEMMA FieldStep == ThreadTypeOK /\ FieldFits /\ [ThreadNext]_threadVars => FieldFits'
<1> SUFFICES ASSUME ThreadTypeOK, FieldFits, [ThreadNext]_threadVars PROVE FieldFits'
  OBVIOUS
<1> USE DEF ThreadTypeOK, FieldFits, RequestToStop, Cancelling, Starting
<1>1. CASE Build
  BY <1>1 DEF Build
<1>2. CASE Enter
  BY <1>2 DEF Enter
<1>3. CASE Connected
  BY <1>3 DEF Connected
<1>4. CASE NotConnected
  BY <1>4 DEF NotConnected, Return, Running
<1>5. CASE Closed
  BY <1>5 DEF Closed, Return, Running
<1>6. CASE Cancel
  BY <1>6 DEF Cancel, Cancelled
<1>7. CASE Clear
  BY <1>7, NoneAssumption DEF Clear
<1>8. CASE StartCreate
  BY <1>8, NewTimerIsUnused, NoneAssumption DEF StartCreate
<1>9. CASE StartDaemon
  BY <1>9 DEF StartDaemon
<1>10. CASE StartTimer
  BY <1>10 DEF StartTimer, Started, Startable
<1>11. CASE Opened
  BY <1>11 DEF Opened
<1>12. CASE Check
  BY <1>12 DEF Check
<1>13. CASE Backoff
  BY <1>13 DEF Backoff
<1>14. CASE Drop
  BY <1>14 DEF Drop, Return, Running
<1>15. CASE SetFlag
  BY <1>15 DEF SetFlag
<1>16. CASE SetEvent
  BY <1>16 DEF SetEvent
<1>17. CASE CloseApp
  BY <1>17 DEF CloseApp
<1>18. CASE Join
  BY <1>18 DEF Join
<1>19. ASSUME NEW t \in Timers, Fire(t) PROVE FieldFits'
  BY <1>19 DEF Fire
<1>20. ASSUME NEW t \in Timers, Send(t) PROVE FieldFits'
  BY <1>20 DEF Send
<1>21. ASSUME NEW t \in Timers, RearmCreate(t) PROVE FieldFits'
  BY <1>21, NewTimerIsUnused, NoneAssumption DEF RearmCreate
<1>22. ASSUME NEW t \in Timers, RearmDaemon(t) PROVE FieldFits'
  BY <1>22 DEF RearmDaemon
<1>23. ASSUME NEW t \in Timers, RearmStart(t) PROVE FieldFits'
  BY <1>23 DEF RearmStart, Started, Startable
<1>24. CASE UNCHANGED threadVars
  BY <1>24 DEF threadVars
<1> QED
  BY <1>1, <1>2, <1>3, <1>4, <1>5, <1>6, <1>7, <1>8, <1>9, <1>10, <1>11, <1>12, <1>13,
     <1>14, <1>15, <1>16, <1>17, <1>18, <1>19, <1>20, <1>21, <1>22, <1>23, <1>24
     DEF ThreadNext, Listener, Keepalive, Stop, Done

\* A new timer that is not started yet.
LEMMA NewStep ==
  ThreadTypeOK /\ FieldFits /\ NewIsStarted /\ [ThreadNext]_threadVars => NewIsStarted'
<1> SUFFICES ASSUME ThreadTypeOK, FieldFits, NewIsStarted, [ThreadNext]_threadVars
             PROVE  NewIsStarted'
  OBVIOUS
<1> USE DEF ThreadTypeOK, FieldFits, NewIsStarted, RequestToStop, Cancelling, Starting
<1>1. CASE Build
  BY <1>1 DEF Build
<1>2. CASE Enter
  BY <1>2 DEF Enter
<1>3. CASE Connected
  BY <1>3 DEF Connected
<1>4. CASE NotConnected
  BY <1>4 DEF NotConnected, Return, Running
<1>5. CASE Closed
  BY <1>5 DEF Closed, Return, Running
<1>6. CASE Cancel
  BY <1>6 DEF Cancel
<1>7. CASE Clear
  BY <1>7 DEF Clear
<1>8. CASE StartCreate
  BY <1>8 DEF StartCreate
<1>9. CASE StartDaemon
  BY <1>9 DEF StartDaemon, Startable
<1>10. CASE StartTimer
  BY <1>10 DEF StartTimer, Started, Startable
<1>11. CASE Opened
  BY <1>11 DEF Opened
<1>12. CASE Check
  BY <1>12 DEF Check
<1>13. CASE Backoff
  BY <1>13 DEF Backoff
<1>14. CASE Drop
  BY <1>14 DEF Drop, Return, Running
<1>15. CASE SetFlag
  BY <1>15 DEF SetFlag
<1>16. CASE SetEvent
  BY <1>16 DEF SetEvent
<1>17. CASE CloseApp
  BY <1>17 DEF CloseApp
<1>18. CASE Join
  BY <1>18 DEF Join
<1>19. ASSUME NEW t \in Timers, Fire(t) PROVE NewIsStarted'
  BY <1>19 DEF Fire
<1>20. ASSUME NEW t \in Timers, Send(t) PROVE NewIsStarted'
  BY <1>20 DEF Send
<1>21. ASSUME NEW t \in Timers, RearmCreate(t) PROVE NewIsStarted'
  BY <1>21 DEF RearmCreate
<1>22. ASSUME NEW t \in Timers, RearmDaemon(t) PROVE NewIsStarted'
  BY <1>22 DEF RearmDaemon, Startable
<1>23. ASSUME NEW t \in Timers, RearmStart(t) PROVE NewIsStarted'
  BY <1>23 DEF RearmStart, Started, Startable
<1>24. CASE UNCHANGED threadVars
  BY <1>24 DEF threadVars
<1> QED
  BY <1>1, <1>2, <1>3, <1>4, <1>5, <1>6, <1>7, <1>8, <1>9, <1>10, <1>11, <1>12, <1>13,
     <1>14, <1>15, <1>16, <1>17, <1>18, <1>19, <1>20, <1>21, <1>22, <1>23, <1>24
     DEF ThreadNext, Listener, Keepalive, Stop, Done

\* The one keepalive.
LEMMA SingleStep == ThreadTypeOK /\ FieldFits /\ Single /\ [ThreadNext]_threadVars => Single'
<1> SUFFICES ASSUME ThreadTypeOK, FieldFits, Single, [ThreadNext]_threadVars PROVE Single'
  OBVIOUS
<1> USE DEF ThreadTypeOK, FieldFits, Single, Cancelling, Starting, Quiet, Busy, Running
<1>1. CASE Build
  BY <1>1 DEF Build
<1>2. CASE Enter
  BY <1>2 DEF Enter
<1>3. CASE Connected
  BY <1>3 DEF Connected
<1>4. CASE NotConnected
  BY <1>4 DEF NotConnected, Return
<1>5. CASE Closed
  BY <1>5 DEF Closed, Return, OnOpenSteps
<1>6. CASE Cancel
  BY <1>6, NoneAssumption DEF Cancel, OnOpenSteps, Cancelled
<1>7. CASE Clear
  BY <1>7 DEF Clear, OnOpenSteps
<1>8. CASE StartCreate
  BY <1>8, NewTimerIsUnused DEF StartCreate
<1>9. CASE StartDaemon
  BY <1>9 DEF StartDaemon
<1>10. CASE StartTimer
  BY <1>10 DEF StartTimer, Started
<1>11. CASE Opened
  BY <1>11 DEF Opened, Gap, OnOpenSteps
<1>12. CASE Check
  BY <1>12 DEF Check, OnOpenSteps
<1>13. CASE Backoff
  BY <1>13 DEF Backoff, OnOpenSteps
<1>14. CASE Drop
  BY <1>14 DEF Drop, Return, OnOpenSteps
<1>15. CASE SetFlag
  BY <1>15 DEF SetFlag
<1>16. CASE SetEvent
  BY <1>16 DEF SetEvent
<1>17. CASE CloseApp
  BY <1>17 DEF CloseApp
<1>18. CASE Join
  BY <1>18 DEF Join
<1>19. ASSUME NEW t \in Timers, Fire(t) PROVE Single'
  BY <1>19 DEF Fire, OnOpenSteps
<1>20. ASSUME NEW t \in Timers, Send(t) PROVE Single'
  BY <1>20 DEF Send
<1>21. ASSUME NEW t \in Timers, RearmCreate(t) PROVE Single'
  BY <1>21 DEF RearmCreate
<1>22. ASSUME NEW t \in Timers, RearmDaemon(t) PROVE Single'
  BY <1>22 DEF RearmDaemon
<1>23. ASSUME NEW t \in Timers, RearmStart(t) PROVE Single'
  BY <1>23 DEF RearmStart
<1>24. CASE UNCHANGED threadVars
  BY <1>24 DEF threadVars
<1> QED
  BY <1>1, <1>2, <1>3, <1>4, <1>5, <1>6, <1>7, <1>8, <1>9, <1>10, <1>11, <1>12, <1>13,
     <1>14, <1>15, <1>16, <1>17, <1>18, <1>19, <1>20, <1>21, <1>22, <1>23, <1>24
     DEF ThreadNext, Listener, Keepalive, Stop, Done

\* What _on_open remembers.
LEMMA RememberedStep ==
  ThreadTypeOK /\ FieldFits /\ Single /\ Remembered /\ [ThreadNext]_threadVars => Remembered'
<1> SUFFICES ASSUME ThreadTypeOK, FieldFits, Single, Remembered, [ThreadNext]_threadVars
             PROVE  Remembered'
  OBVIOUS
<1> USE DEF ThreadTypeOK, FieldFits, Single, Remembered, Starting
<1>1. CASE Build
  BY <1>1 DEF Build, OnOpenSteps
<1>2. CASE Enter
  BY <1>2 DEF Enter, OnOpenSteps
<1>3. CASE Connected
  BY <1>3 DEF Connected, OnOpenSteps
<1>4. CASE NotConnected
  BY <1>4 DEF NotConnected, Return, OnOpenSteps
<1>5. CASE Closed
  BY <1>5 DEF Closed, Return, OnOpenSteps
<1>6. CASE Cancel
  BY <1>6 DEF Cancel, OnOpenSteps
<1>7. CASE Clear
  BY <1>7 DEF Clear, OnOpenSteps
<1>8. CASE StartCreate
  BY <1>8 DEF StartCreate, OnOpenSteps
<1>9. CASE StartDaemon
  BY <1>9 DEF StartDaemon, OnOpenSteps, Startable
<1>10. CASE StartTimer
  BY <1>10 DEF StartTimer, OnOpenSteps, Startable
<1>11. CASE Opened
  BY <1>11 DEF Opened, OnOpenSteps
<1>12. CASE Check
  BY <1>12 DEF Check, OnOpenSteps
<1>13. CASE Backoff
  BY <1>13 DEF Backoff, OnOpenSteps
<1>14. CASE Drop
  BY <1>14 DEF Drop, Return, OnOpenSteps
<1>15. CASE SetFlag
  BY <1>15 DEF SetFlag
<1>16. CASE SetEvent
  BY <1>16 DEF SetEvent
<1>17. CASE CloseApp
  BY <1>17 DEF CloseApp
<1>18. CASE Join
  BY <1>18 DEF Join
<1>19. ASSUME NEW t \in Timers, Fire(t) PROVE Remembered'
  BY <1>19 DEF Fire
<1>20. ASSUME NEW t \in Timers, Send(t) PROVE Remembered'
  BY <1>20 DEF Send
<1>21. ASSUME NEW t \in Timers, RearmCreate(t) PROVE Remembered'
  BY <1>21 DEF RearmCreate
<1>22. ASSUME NEW t \in Timers, RearmDaemon(t) PROVE Remembered'
  BY <1>22 DEF RearmDaemon
<1>23. ASSUME NEW t \in Timers, RearmStart(t) PROVE Remembered'
  BY <1>23 DEF RearmStart
<1>24. CASE UNCHANGED threadVars
  BY <1>24 DEF threadVars
<1> QED
  BY <1>1, <1>2, <1>3, <1>4, <1>5, <1>6, <1>7, <1>8, <1>9, <1>10, <1>11, <1>12, <1>13,
     <1>14, <1>15, <1>16, <1>17, <1>18, <1>19, <1>20, <1>21, <1>22, <1>23, <1>24
     DEF ThreadNext, Listener, Keepalive, Stop, Done

LEMMA ThreadInvHolds == ThreadSpec => []ThreadInv
<1>1. ThreadInit => ThreadInv
  BY DEF ThreadInit, ThreadInv, ThreadTypeOK, FieldFits, NewIsStarted, Single, Remembered,
         Cancelling, Starting, OnOpenSteps, Gap, Busy, Running
<1>2. ThreadInv /\ [ThreadNext]_threadVars => ThreadInv'
  BY ThreadTypeStep, FieldStep, NewStep, SingleStep, RememberedStep DEF ThreadInv
<1> QED
  BY <1>1, <1>2, PTL DEF ThreadSpec

\* The listener's thread, the timers and stop() stay in the states they have.
THEOREM ThreadsTypeCorrect == ThreadSpec => []ThreadTypeOK
<1>1. ThreadInv => ThreadTypeOK
  BY DEF ThreadInv
<1> QED
  BY <1>1, ThreadInvHolds, PTL

\* Whatever the order in which the threads cancel, create and start timers, an open connection
\* of a listener that is not to stop has a keepalive, armed or about to re-arm.
THEOREM ConnectionIsKeptAlive == ThreadSpec => []KeepaliveServes
<1>1. ThreadInv => KeepaliveServes
  BY DEF ThreadInv, ThreadTypeOK, FieldFits, NewIsStarted, KeepaliveServes, Cancelling, Busy,
         Running
<1> QED
  BY <1>1, ThreadInvHolds, PTL

\* There are never two, unless _stop_keepalive's assignment lost the reference to one.
THEOREM OneAtATime == ThreadSpec => []OneKeepalive
<1>1. ThreadInv => OneKeepalive
  BY DEF ThreadInv, Single, OneKeepalive
<1> QED
  BY <1>1, ThreadInvHolds, PTL

\* A connection that is not the first has its resync scheduled once _on_open is over, unless
\* a keepalive was lost.
THEOREM ReconnectResyncs == ThreadSpec => []ResyncScheduled
<1>1. ThreadInv => ResyncScheduled
  BY DEF ThreadInv, Remembered, ResyncScheduled, OnOpenSteps
<1> QED
  BY <1>1, ThreadInvHolds, PTL
=============================================================================
