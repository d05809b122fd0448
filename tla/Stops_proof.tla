----------------------------- MODULE Stops_proof -----------------------------
(* Proofs about the two brokers' stops: TrailingStops, for any number of     *)
(* overlapping passes, any thresholds and any number of stops in the life of *)
(* a position; and SmcReplay, for every plan, candle and funding rate.       *)
EXTENDS TrailingStops, SmcReplay, CollectionLemmas, SequenceTheorems, TLAPS

-----------------------------------------------------------------------------
(* TrailingStops: type correctness *)

StopRecord == [trigger: InitialStop..MaxPrice, resting: BOOLEAN]
PassRecord == [pc: {"idle", "position", "orders", "placing", "replacing"},
               price: Prices, old: Nat, trigger: InitialStop..MaxPrice]
TrackerRecord == [high: -1..MaxPrice, even: BOOLEAN]

TrailTypeInv ==
  /\ trade \in BOOLEAN
  /\ stops \in Seq(StopRecord) /\ Len(stops) <= MaxStops
  /\ tracker \in TrackerRecord
  /\ moving \in BOOLEAN /\ throttled \in BOOLEAN
  /\ pass \in [Passes -> PassRecord]

\* A pass that asked for a move holds an order of the position that its trigger
\* tightens, or none any more.
Tightens(p) ==
  pass[p].pc \in {"placing", "replacing"} /\ pass[p].old # 0 =>
    pass[p].old \in DOMAIN stops /\ pass[p].trigger > stops[pass[p].old].trigger

\* The order it is about to cancel is not the tightest that rests.
Covered(p) ==
  pass[p].pc = "replacing" /\ pass[p].old # 0 /\ stops[pass[p].old].resting =>
    \E j \in RestingStops : stops[j].trigger > stops[pass[p].old].trigger

TrailInv == TrailTypeInv /\ \A p \in Passes : Tightens(p) /\ Covered(p)

\* The strengthening is one: it has the type of the component's own invariant.
LEMMA TrailInvGivesType == TrailInv => TrailTypeOK
BY DEF TrailInv, TrailTypeInv, TrailTypeOK, StopRecord, PassRecord, TrackerRecord, Tightens

\* What the manager answers: a tracker, and a trigger that is a price and, where it
\* asks for a move, tighter than the current one.
LEMMA UpdateStopLossTightens ==
  ASSUME TrailTypeInv, NEW price \in Prices, NEW current \in InitialStop..MaxPrice
  PROVE  LET u == UpdateStopLoss(price, current)
         IN  /\ u.to \in TrackerRecord /\ u.move \in BOOLEAN
             /\ u.trigger \in InitialStop..MaxPrice
             /\ u.move => u.trigger > current
<1> DEFINE high == Max({tracker.high, 0, price})
<1>1. tracker \in TrackerRecord /\ MaxPrice \in Int /\ Distance \in Nat
  BY TrailingAssumption DEF TrailTypeInv
<1>2. high \in 0..MaxPrice
  <2>1. high \in {tracker.high, 0, price} /\ \A y \in {tracker.high, 0, price} : high >= y
    <3> HIDE DEF high
    <3>1. {tracker.high, 0, price} \subseteq Int /\ \A x \in {tracker.high, 0, price} : x <= MaxPrice
      BY <1>1, TrailingAssumption DEF TrackerRecord, Prices
    <3> QED
      BY <1>1, <3>1, MaxOfBounded DEF high
  <2> HIDE DEF high
  <2> QED
    BY <1>1, <2>1, TrailingAssumption DEF TrackerRecord, Prices
<1>3. Tracked(price) = [tracker EXCEPT !.high = high]
  BY DEF Tracked
<1> HIDE DEF high
<1>4. Tracked(price) \in TrackerRecord /\ Tracked(price).high = high
  BY <1>1, <1>2, <1>3 DEF TrackerRecord
<1>5. 0 \in InitialStop..MaxPrice /\ high - Distance \in InitialStop..MaxPrice
  BY <1>1, <1>2, TrailingAssumption DEF InitialStop
<1>6. [Tracked(price) EXCEPT !.even = TRUE] \in TrackerRecord
  BY <1>4 DEF TrackerRecord
<1>7. current \in Int
  BY <1>1 DEF InitialStop
<1> DEFINE t == Tracked(price)
           u == UpdateStopLoss(price, current)
<1> SUFFICES /\ u.to \in TrackerRecord /\ u.move \in BOOLEAN
             /\ u.trigger \in InitialStop..MaxPrice
             /\ u.move => u.trigger > current
  OBVIOUS
<1>8. CASE price >= Breakeven /\ ~t.even
  <2> DEFINE back == 0 > current
  <2>1. u = [to |-> [t EXCEPT !.even = TRUE], move |-> back, trigger |-> 0]
    BY <1>8 DEF UpdateStopLoss
  <2>0. back \in BOOLEAN
    OBVIOUS
  <2> HIDE DEF u, t, back
  <2>2. u.to = [t EXCEPT !.even = TRUE] /\ u.trigger = 0
    BY <2>1
  <2>3. u.move = back
    BY <2>1
  <2>4. u.move \in BOOLEAN /\ (u.move => 0 > current)
    BY <2>0, <2>3 DEF back
  <2> QED
    BY <1>5, <1>6, <1>7, <2>2, <2>4 DEF t
<1>9. CASE ~(price >= Breakeven /\ ~t.even)
  <2>1. u = [to |-> t, move |-> price >= Activation /\ high - Distance > current,
             trigger |-> high - Distance]
    BY <1>4, <1>9 DEF UpdateStopLoss
  <2> HIDE DEF u, t
  <2>2. u.to = t /\ u.trigger = high - Distance
    BY <2>1
  <2>3. u.move = (price >= Activation /\ high - Distance > current)
    BY <2>1
  <2>4. u.move \in BOOLEAN /\ (u.move => high - Distance > current)
    BY <2>3
  <2> QED
    BY <1>4, <1>5, <1>7, <2>2, <2>4 DEF t
<1> QED
  BY <1>8, <1>9
-----------------------------------------------------------------------------
(* What a step does to the stops *)

Resting(ss) == {i \in DOMAIN ss : ss[i].resting}
Out(ss) == IF Resting(ss) = {} THEN -(Distance + 1) ELSE Max({ss[i].trigger : i \in Resting(ss)})

\* Stops are added and canceled, none moves or comes back, and for each that
\* rested one that is at least as tight rests after.
Guards(ss, tt) ==
  /\ \A i \in DOMAIN ss : /\ i \in DOMAIN tt /\ tt[i].trigger = ss[i].trigger
                          /\ tt[i].resting => ss[i].resting
  /\ \A j \in Resting(ss) : \E k \in Resting(tt) : tt[k].trigger >= ss[j].trigger

\* Stops that guard as well take the position out at no lower price.
LEMMA OutGrows ==
  ASSUME NEW ss \in Seq(StopRecord), NEW tt \in Seq(StopRecord), Guards(ss, tt)
  PROVE  Out(tt) >= Out(ss)
<1> DEFINE Triggers(qq) == {qq[i].trigger : i \in Resting(qq)}
<1>1. Distance \in Nat /\ MaxPrice \in Int
  BY TrailingAssumption
<1>2. ASSUME NEW qq \in Seq(StopRecord), NEW i \in Resting(qq)
      PROVE  qq[i].trigger \in InitialStop..MaxPrice
  <2>1. qq[i] \in StopRecord
    BY DEF Resting
  <2> QED
    BY <2>1 DEF StopRecord
<1>3. \A qq \in Seq(StopRecord) : Triggers(qq) \subseteq InitialStop..MaxPrice
  BY <1>2
<1>4. ASSUME NEW qq \in Seq(StopRecord), Resting(qq) # {}
      PROVE  /\ Out(qq) \in Triggers(qq)
             /\ \A y \in Triggers(qq) : Out(qq) >= y
  <2>1. Triggers(qq) # {} /\ Triggers(qq) \subseteq Int
        /\ \A x \in Triggers(qq) : x <= MaxPrice
    BY <1>1, <1>3, <1>4 DEF InitialStop
  <2>2. Out(qq) = Max(Triggers(qq))
    BY <1>4 DEF Out
  <2> HIDE DEF Triggers
  <2> QED
    BY <1>1, <2>1, <2>2, MaxOfBounded
<1>5. CASE Resting(ss) = {}
  <2>1. Out(ss) = -(Distance + 1)
    BY <1>5 DEF Out
  <2>2. CASE Resting(tt) = {}
    BY <1>1, <2>1, <2>2 DEF Out
  <2>3. CASE Resting(tt) # {}
    <3>1. Out(tt) \in InitialStop..MaxPrice
      BY <1>3, <1>4, <2>3
    <3> QED
      BY <1>1, <2>1, <3>1 DEF InitialStop
  <2> QED
    BY <2>2, <2>3
<1>6. CASE Resting(ss) # {}
  <2>1. PICK j \in Resting(ss) : Out(ss) = ss[j].trigger
    BY <1>4, <1>6
  <2>2. PICK k \in Resting(tt) : tt[k].trigger >= ss[j].trigger
    BY DEF Guards
  <2>3. Out(tt) >= tt[k].trigger /\ Out(tt) \in InitialStop..MaxPrice
    BY <1>3, <1>4
  <2>4. tt[k].trigger \in Int /\ ss[j].trigger \in Int /\ Out(tt) \in Int
    BY <1>1, <1>2, <2>3 DEF InitialStop
  <2> QED
    BY <2>1, <2>2, <2>3, <2>4
<1> QED
  BY <1>5, <1>6

\* A stop more guards as well, and is typed.
LEMMA AppendGuards ==
  ASSUME NEW ss \in Seq(StopRecord), NEW e \in StopRecord
  PROVE  /\ Append(ss, e) \in Seq(StopRecord)
         /\ Len(Append(ss, e)) = Len(ss) + 1
         /\ Append(ss, e)[Len(ss) + 1] = e
         /\ Len(ss) + 1 \in DOMAIN Append(ss, e)
         /\ Guards(ss, Append(ss, e))
<1>1. /\ Append(ss, e) \in Seq(StopRecord)
      /\ Len(Append(ss, e)) = Len(ss) + 1
      /\ \A i \in 1..Len(ss) : Append(ss, e)[i] = ss[i]
      /\ Append(ss, e)[Len(ss) + 1] = e
      /\ Len(ss) \in Nat /\ DOMAIN ss = 1..Len(ss)
  BY AppendProperties
<1>2. DOMAIN Append(ss, e) = 1..(Len(ss) + 1)
  BY <1>1
<1>3. \A i \in DOMAIN ss : i \in DOMAIN Append(ss, e) /\ Append(ss, e)[i] = ss[i]
  BY <1>1, <1>2
<1>4. ASSUME NEW j \in Resting(ss)
      PROVE  j \in Resting(Append(ss, e)) /\ Append(ss, e)[j].trigger >= ss[j].trigger
  <2>1. j \in DOMAIN ss /\ ss[j] \in StopRecord /\ ss[j].resting
    BY DEF Resting
  <2>2. ss[j].trigger \in Int
    BY <2>1, TrailingAssumption DEF StopRecord, InitialStop
  <2> QED
    BY <1>3, <2>1, <2>2 DEF Resting
<1>5. Guards(ss, Append(ss, e))
  BY <1>3, <1>4 DEF Guards
<1> QED
  BY <1>1, <1>2, <1>5

\* So do the stops as they are.
LEMMA SameGuards == ASSUME NEW ss \in Seq(StopRecord) PROVE Guards(ss, ss)
<1>1. ASSUME NEW j \in Resting(ss) PROVE ss[j].trigger >= ss[j].trigger
  <2>1. ss[j] \in StopRecord
    BY DEF Resting
  <2> QED
    BY <2>1, TrailingAssumption DEF StopRecord, InitialStop
<1> QED
  BY <1>1 DEF Guards

\* The original that is canceled is covered by one that rests: canceling it leaves
\* the others, one of which is tighter.
LEMMA CancelGuards ==
  ASSUME TrailInv, NEW p \in Passes, NEW ok \in BOOLEAN, OriginalCanceled(p, ok)
  PROVE  stops' \in Seq(StopRecord) /\ Len(stops') = Len(stops) /\ Guards(stops, stops')
<1> DEFINE gone(i) == ok /\ i = pass[p].old
<1>1. /\ stops \in Seq(StopRecord) /\ DOMAIN stops = 1..Len(stops) /\ Len(stops) \in Nat
      /\ \A i \in DOMAIN stops : stops[i] \in StopRecord
  BY DEF TrailInv, TrailTypeInv
<1>2. stops' = [i \in 1..Len(stops) |-> [stops[i] EXCEPT !.resting = @ /\ ~gone(i)]]
  BY <1>1 DEF OriginalCanceled
<1>3. \A i \in 1..Len(stops) : [stops[i] EXCEPT !.resting = @ /\ ~gone(i)] \in StopRecord
  BY <1>1 DEF StopRecord
<1>4. stops' \in [1..Len(stops) -> StopRecord]
  BY <1>2, <1>3
<1>5. stops' \in Seq(StopRecord)
  BY <1>1, <1>4, SeqDef
<1>6. DOMAIN stops' = 1..Len(stops) /\ Len(stops') = Len(stops)
  BY <1>1, <1>4, <1>5
<1>7. \A i \in DOMAIN stops : /\ stops'[i].trigger = stops[i].trigger
                              /\ stops'[i].resting = (stops[i].resting /\ ~gone(i))
  BY <1>1, <1>2 DEF StopRecord
<1>8. \A i \in DOMAIN stops : stops[i].trigger \in Int
  BY <1>1, TrailingAssumption DEF StopRecord, InitialStop
<1>9. ASSUME NEW j \in Resting(stops)
      PROVE  \E k \in Resting(stops') : stops'[k].trigger >= stops[j].trigger
  <2>0. j \in DOMAIN stops /\ stops[j].resting
    BY DEF Resting
  <2>1. CASE ~gone(j)
    <3>1. j \in Resting(stops')
      BY <1>1, <1>6, <1>7, <2>0, <2>1 DEF Resting
    <3> QED
      BY <1>7, <1>8, <2>0, <3>1
  <2>2. CASE gone(j)
    <3>1. pass[p].pc = "replacing" /\ j = pass[p].old
      BY <2>2 DEF OriginalCanceled
    <3>2. j # 0
      BY <1>1, <2>0
    <3>3. PICK k \in RestingStops : stops[k].trigger > stops[j].trigger
      BY <2>0, <3>1, <3>2 DEF TrailInv, Covered
    <3>4. k \in DOMAIN stops /\ stops[k].resting /\ k # j
      BY <1>8, <2>0, <3>3 DEF RestingStops
    <3>5. k \in Resting(stops')
      BY <1>1, <1>6, <1>7, <3>1, <3>4 DEF Resting
    <3> QED
      BY <1>7, <1>8, <2>0, <3>3, <3>4, <3>5
  <2> QED
    BY <2>1, <2>2
<1>10. \A i \in DOMAIN stops : /\ i \in DOMAIN stops' /\ stops'[i].trigger = stops[i].trigger
                               /\ stops'[i].resting => stops[i].resting
  BY <1>1, <1>6, <1>7
<1> QED
  BY <1>5, <1>6, <1>9, <1>10 DEF Guards
-----------------------------------------------------------------------------
(* The steps *)

\* A pass that is not moving, or whose original is gone, has nothing to keep.
Resigned(p) == pass[p].pc \notin {"placing", "replacing"} \/ pass[p].old = 0

\* What other passes and the executor do to the stops leaves a pass what it holds.
LEMMA PassKept ==
  ASSUME TrailInv, NEW q \in Passes, pass'[q] = pass[q],
         stops' \in Seq(StopRecord), Guards(stops, stops')
  PROVE  Tightens(q)' /\ Covered(q)'
<1>1. Tightens(q) /\ Covered(q)
  BY DEF TrailInv
<1>2. Tightens(q)'
  BY <1>1 DEF Tightens, Guards
<1>3. ASSUME pass'[q].pc = "replacing", pass'[q].old # 0, stops'[pass'[q].old].resting
      PROVE  \E k \in RestingStops' : stops'[k].trigger > stops'[pass'[q].old].trigger
  <2> DEFINE o == pass[q].old
  <2>1. o \in DOMAIN stops /\ stops[o].resting /\ stops'[o].trigger = stops[o].trigger
    BY <1>1, <1>3 DEF Tightens, Guards
  <2>2. PICK j \in RestingStops : stops[j].trigger > stops[o].trigger
    BY <1>1, <1>3, <2>1 DEF Covered
  <2>3. PICK k \in Resting(stops') : stops'[k].trigger >= stops[j].trigger
    BY <2>2 DEF Guards, Resting, RestingStops
  <2>4. stops[j] \in StopRecord /\ stops'[k] \in StopRecord /\ stops[o] \in StopRecord
    BY <2>1, <2>2, <2>3 DEF TrailInv, TrailTypeInv, RestingStops, Resting
  <2>5. stops[j].trigger \in Int /\ stops'[k].trigger \in Int /\ stops[o].trigger \in Int
    BY <2>4, TrailingAssumption DEF StopRecord, InitialStop
  <2>6. k \in RestingStops' /\ stops'[k].trigger > stops'[o].trigger
    BY <2>1, <2>2, <2>3, <2>5 DEF Resting, RestingStops
  <2> QED
    BY <1>3, <2>6
<1> QED
  BY <1>2, <1>3 DEF Covered

\* A step of one pass, or of none, keeps the invariant when the stops guard as well
\* and the pass itself holds a tightening order or none.
LEMMA OnePass ==
  ASSUME TrailInv, TrailTypeInv', Guards(stops, stops'), NEW p \in Passes,
         \A q \in Passes \ {p} : pass'[q] = pass[q],
         Tightens(p)' /\ Covered(p)'
  PROVE  TrailInv'
<1>1. stops' \in Seq(StopRecord)
  BY DEF TrailTypeInv
<1> QED
  BY <1>1, PassKept DEF TrailInv

\* Nothing rests, nothing is tracked and no pass is under way at the start.
LEMMA TrailInitInv == TrailInit => TrailInv
<1> SUFFICES ASSUME TrailInit PROVE TrailInv
  OBVIOUS
<1>1. Idle \in PassRecord /\ NoTracker \in TrackerRecord
  BY TrailingAssumption DEF Idle, NoTracker, PassRecord, TrackerRecord, Prices, InitialStop
<1>2. TrailTypeInv
  <2>1. stops \in Seq(StopRecord) /\ Len(stops) = 0
    BY DEF TrailInit
  <2>2. pass \in [Passes -> PassRecord]
    BY <1>1 DEF TrailInit
  <2>3. trade \in BOOLEAN /\ moving \in BOOLEAN /\ throttled \in BOOLEAN
    BY DEF TrailInit
  <2>4. tracker \in TrackerRecord /\ Len(stops) <= MaxStops
    BY <1>1, <2>1, TrailingAssumption DEF TrailInit
  <2> QED
    BY <2>1, <2>2, <2>3, <2>4 DEF TrailTypeInv
<1>3. \A p \in Passes : Tightens(p) /\ Covered(p)
  BY DEF TrailInit, Tightens, Covered, Idle
<1> QED
  BY <1>2, <1>3 DEF TrailInv

\* Every step but the close of the position leaves stops that guard as well.
LEMMA StepGuards ==
  ASSUME TrailInv, [TrailNext]_trailVars, ~PositionCloses
  PROVE  stops' \in Seq(StopRecord) /\ Len(stops') <= MaxStops /\ Guards(stops, stops')
<1>0. /\ stops \in Seq(StopRecord) /\ Len(stops) \in Nat /\ Len(stops) <= MaxStops
      /\ \A p \in Passes : pass[p] \in PassRecord
  BY DEF TrailInv, TrailTypeInv
<1>1. CASE \E p \in Passes : ReplacementPlaced(p)
  <2> PICK p \in Passes : ReplacementPlaced(p)
    BY <1>1
  <2>1. [trigger |-> pass[p].trigger, resting |-> TRUE] \in StopRecord
    BY <1>0 DEF PassRecord, StopRecord
  <2> QED
    BY <1>0, <2>1, AppendGuards, TrailingAssumption DEF ReplacementPlaced
<1>2. CASE EntryStopPlaced
  <2>1. [trigger |-> InitialStop, resting |-> TRUE] \in StopRecord
    BY TrailingAssumption DEF StopRecord, InitialStop
  <2> QED
    BY <1>0, <1>2, <2>1, AppendGuards, TrailingAssumption DEF EntryStopPlaced
<1>3. CASE \E p \in Passes, ok \in BOOLEAN : OriginalCanceled(p, ok)
  BY <1>0, <1>3, CancelGuards
<1>4. CASE stops' = stops
  BY <1>0, <1>4, SameGuards
<1>5. ASSUME ~(stops' = stops)
      PROVE  \/ \E p \in Passes : ReplacementPlaced(p)
             \/ EntryStopPlaced
             \/ \E p \in Passes, ok \in BOOLEAN : OriginalCanceled(p, ok)
  BY <1>5 DEF TrailNext, trailVars, StartPass, PositionRead, OrdersRead, ReplacementRefused,
     PositionOpens, ForgetAfterExit, IntervalOver
<1> QED
  BY <1>1, <1>2, <1>3, <1>4, <1>5

\* No interleaving of passes, fills, closes and forgetting breaks the invariant.
LEMMA TrailStep == TrailInv /\ [TrailNext]_trailVars => TrailInv'
<1> SUFFICES ASSUME TrailInv, [TrailNext]_trailVars PROVE TrailInv'
  OBVIOUS
<1>0. /\ TrailTypeInv
      /\ pass \in [Passes -> PassRecord] /\ tracker \in TrackerRecord
      /\ stops \in Seq(StopRecord) /\ Len(stops) \in Nat /\ DOMAIN stops = 1..Len(stops)
      /\ Idle \in PassRecord /\ NoTracker \in TrackerRecord
  BY TrailingAssumption DEF TrailInv, TrailTypeInv, Idle, NoTracker, PassRecord, TrackerRecord, Prices,
     InitialStop
<1>1. ~PositionCloses =>
        stops' \in Seq(StopRecord) /\ Len(stops') <= MaxStops /\ Guards(stops, stops')
  BY StepGuards
<1>2. CASE \E p \in Passes, price \in Prices : StartPass(p, price)
  <2> PICK p \in Passes, price \in Prices : StartPass(p, price)
    BY <1>2
  <2>1. pass' \in [Passes -> PassRecord] /\ Resigned(p)'
        /\ \A q \in Passes \ {p} : pass'[q] = pass[q]
    BY <1>0 DEF StartPass, PassRecord, Resigned
  <2>2. ~PositionCloses
    BY DEF StartPass, PositionCloses
  <2>3. TrailTypeInv'
    BY <1>0, <1>1, <2>1, <2>2 DEF StartPass, TrailTypeInv
  <2> QED
    BY <1>1, <2>1, <2>2, <2>3, OnePass DEF Resigned, Tightens, Covered
<1>3. CASE \E p \in Passes : PositionRead(p)
  <2> PICK p \in Passes : PositionRead(p)
    BY <1>3
  <2>1. pass' \in [Passes -> PassRecord] /\ Resigned(p)'
        /\ \A q \in Passes \ {p} : pass'[q] = pass[q]
    <3>1. CASE trade
      <4>1. pass' = [pass EXCEPT ![p].pc = "orders"]
        BY <3>1 DEF PositionRead
      <4> QED
        BY <1>0, <4>1 DEF PassRecord, Resigned
    <3>2. CASE ~trade
      BY <1>0, <3>2 DEF PositionRead, Resigned, Idle
    <3> QED
      BY <3>1, <3>2
  <2>2. ~PositionCloses
    BY DEF PositionRead, PositionCloses
  <2>3. TrailTypeInv'
    BY <1>0, <1>1, <2>1, <2>2 DEF PositionRead, TrailTypeInv, Forget
  <2> QED
    BY <1>1, <2>1, <2>2, <2>3, OnePass DEF Resigned, Tightens, Covered
<1>4. CASE \E p \in Passes : OrdersRead(p)
  <2> PICK p \in Passes : OrdersRead(p)
    BY <1>4
  <2>0. ~PositionCloses
    BY DEF OrdersRead, PositionCloses
  <2>1. CASE RestingStops = {}
    <3>1. pass' \in [Passes -> PassRecord] /\ Resigned(p)'
          /\ \A q \in Passes \ {p} : pass'[q] = pass[q]
      BY <1>0, <2>1 DEF OrdersRead, Resigned, Idle
    <3>2. TrailTypeInv'
      BY <1>0, <1>1, <2>0, <2>1, <3>1 DEF OrdersRead, TrailTypeInv
    <3> QED
      BY <1>1, <2>0, <3>1, <3>2, OnePass DEF Resigned, Tightens, Covered
  <2>2. CASE RestingStops # {}
    <3> DEFINE current == stops[FirstStop].trigger
               u == UpdateStopLoss(pass[p].price, current)
    <3>1. FirstStop \in RestingStops
      <4>1. RestingStops \subseteq Nat
        BY <1>0 DEF RestingStops
      <4> QED
        BY <2>2, <4>1, MinOfNaturals DEF FirstStop
    <3>2. FirstStop \in DOMAIN stops /\ FirstStop \in Nat \ {0}
          /\ current \in InitialStop..MaxPrice /\ pass[p].price \in Prices
      <4>1. FirstStop \in 1..Len(stops) /\ stops[FirstStop] \in StopRecord /\ pass[p] \in PassRecord
        BY <1>0, <3>1 DEF RestingStops
      <4> QED
        BY <1>0, <4>1 DEF StopRecord, PassRecord
    <3>3. /\ u.to \in TrackerRecord /\ u.move \in BOOLEAN
          /\ u.trigger \in InitialStop..MaxPrice
          /\ u.move => u.trigger > current
      BY <1>0, <3>2, UpdateStopLossTightens
    <3>4. /\ tracker' = u.to /\ moving' = u.move
          /\ pass' = [pass EXCEPT ![p] =
               IF u.move THEN [@ EXCEPT !.pc = "placing", !.old = FirstStop, !.trigger = u.trigger]
               ELSE Idle]
      BY <2>2 DEF OrdersRead
    <3>5. stops' = stops /\ trade' = trade /\ throttled' = throttled
      BY DEF OrdersRead
    <3> HIDE DEF u
    <3>6. pass' \in [Passes -> PassRecord] /\ \A q \in Passes \ {p} : pass'[q] = pass[q]
      BY <1>0, <3>2, <3>3, <3>4 DEF PassRecord
    <3>7. TrailTypeInv'
      BY <1>0, <3>3, <3>4, <3>5, <3>6 DEF TrailTypeInv
    <3>8. \/ pass'[p] = Idle
          \/ pass'[p].pc = "placing" /\ pass'[p].old = FirstStop /\ pass'[p].trigger > current
      BY <1>0, <3>3, <3>4 DEF PassRecord
    <3>9. Tightens(p)' /\ Covered(p)'
      BY <3>2, <3>5, <3>8 DEF Tightens, Covered, Idle
    <3> QED
      BY <1>1, <2>0, <3>6, <3>7, <3>9, OnePass
  <2> QED
    BY <2>1, <2>2
<1>5. CASE \E p \in Passes : ReplacementPlaced(p)
  <2> PICK p \in Passes : ReplacementPlaced(p)
    BY <1>5
  <2> DEFINE e == [trigger |-> pass[p].trigger, resting |-> TRUE]
             o == pass[p].old
  <2>0. ~PositionCloses
    BY DEF ReplacementPlaced, PositionCloses
  <2>1. /\ pass' = [pass EXCEPT ![p].pc = "replacing"]
        /\ pass[p].pc = "placing" /\ stops' = Append(stops, e)
    BY DEF ReplacementPlaced
  <2>2. pass' \in [Passes -> PassRecord] /\ \A q \in Passes \ {p} : pass'[q] = pass[q]
    BY <1>0, <2>1 DEF PassRecord
  <2>3. TrailTypeInv'
    BY <1>0, <1>1, <2>0, <2>2 DEF ReplacementPlaced, TrailTypeInv
  <2>4. pass'[p].old = o /\ pass'[p].trigger = pass[p].trigger
    BY <1>0, <2>1 DEF PassRecord
  <2>5. e \in StopRecord
    BY <1>0 DEF PassRecord, StopRecord
  <2>6. Len(stops) + 1 \in RestingStops' /\ stops'[Len(stops) + 1].trigger = pass[p].trigger
    BY <1>0, <2>1, <2>5, AppendGuards DEF RestingStops
  <2>7. o # 0 => /\ o \in DOMAIN stops' /\ stops'[o].trigger = stops[o].trigger
                 /\ pass[p].trigger > stops[o].trigger
    BY <1>1, <2>0, <2>1 DEF TrailInv, Tightens, Guards
  <2>8. Tightens(p)' /\ Covered(p)'
    BY <2>4, <2>6, <2>7 DEF Tightens, Covered
  <2> QED
    BY <1>1, <2>0, <2>2, <2>3, <2>8, OnePass
<1>6. CASE \E p \in Passes : ReplacementRefused(p) \/ \E ok \in BOOLEAN : OriginalCanceled(p, ok)
  <2> PICK p \in Passes : ReplacementRefused(p) \/ \E ok \in BOOLEAN : OriginalCanceled(p, ok)
    BY <1>6
  <2>0. ~PositionCloses
    BY DEF ReplacementRefused, OriginalCanceled, PositionCloses
  <2>1. pass' \in [Passes -> PassRecord] /\ Resigned(p)'
        /\ \A q \in Passes \ {p} : pass'[q] = pass[q]
    BY <1>0 DEF ReplacementRefused, OriginalCanceled, Ends, Resigned, Idle
  <2>2. trade' = trade /\ tracker' = tracker /\ moving' \in BOOLEAN /\ throttled' \in BOOLEAN
    BY DEF ReplacementRefused, OriginalCanceled, Ends, TrailInv, TrailTypeInv
  <2>3. TrailTypeInv'
    BY <1>0, <1>1, <2>0, <2>1, <2>2 DEF TrailTypeInv
  <2> QED
    BY <1>1, <2>0, <2>1, <2>3, OnePass DEF Resigned, Tightens, Covered
<1>7. CASE PositionOpens \/ EntryStopPlaced \/ ForgetAfterExit \/ IntervalOver \/ UNCHANGED trailVars
  <2>0. ~PositionCloses \/ UNCHANGED trailVars
    BY <1>7 DEF PositionOpens, EntryStopPlaced, ForgetAfterExit, IntervalOver, PositionCloses, Forget
  <2>1. stops' \in Seq(StopRecord) /\ Len(stops') <= MaxStops /\ Guards(stops, stops')
    BY <1>0, <1>1, <2>0, SameGuards DEF trailVars, TrailTypeInv
  <2>2. pass' = pass
    BY <1>7 DEF PositionOpens, EntryStopPlaced, ForgetAfterExit, IntervalOver, trailVars
  <2>3. TrailTypeInv'
    BY <1>0, <1>7, <2>1, <2>2 DEF PositionOpens, EntryStopPlaced, ForgetAfterExit, IntervalOver,
       trailVars, Forget, TrailTypeInv
  <2> QED
    BY <2>1, <2>2, <2>3, PassKept DEF TrailInv
<1>8. CASE PositionCloses
  <2>1. pass' = [p \in Passes |-> [pass[p] EXCEPT !.old = 0]] /\ stops' = <<>>
    BY <1>8 DEF PositionCloses
  <2>2. pass' \in [Passes -> PassRecord] /\ \A p \in Passes : pass'[p].old = 0
    BY <1>0, <2>1 DEF PassRecord
  <2>3. stops' \in Seq(StopRecord) /\ Len(stops') <= MaxStops
    BY <2>1, TrailingAssumption
  <2>4. TrailTypeInv'
    BY <1>0, <1>8, <2>2, <2>3 DEF PositionCloses, TrailTypeInv
  <2> QED
    BY <2>2, <2>4 DEF TrailInv, Tightens, Covered
<1> QED
  BY <1>2, <1>3, <1>4, <1>5, <1>6, <1>7, <1>8 DEF TrailNext
-----------------------------------------------------------------------------
(* Theorems *)

\* TrailTypeOK is invariant: records keep their shape, and a pass that moves a stop
\* holds one of the position's, or none.
THEOREM TrailTypeCorrect == TrailSpec => []TrailTypeOK
<1>1. TrailSpec => []TrailInv
  BY TrailInitInv, TrailStep, PTL DEF TrailSpec
<1> QED
  BY <1>1, TrailInvGivesType, PTL

\* ProtectionOnlyTightens holds of every behaviour: while a position lives, however
\* many passes overlap and whatever is refused, the price at which its stops take it
\* out never falls back.
THEOREM ProtectionTightens == TrailSpec => ProtectionOnlyTightens
<1>1. TrailSpec => []TrailInv
  BY TrailInitInv, TrailStep, PTL DEF TrailSpec
<1>2. ASSUME TrailInv, [TrailNext]_trailVars
      PROVE  [trade /\ trade' => Protection' >= Protection]_trailVars
  <2> SUFFICES ASSUME trade, trade' PROVE Protection' >= Protection
    OBVIOUS
  <2>1. ~PositionCloses
    BY DEF PositionCloses
  <2>2. stops \in Seq(StopRecord) /\ stops' \in Seq(StopRecord) /\ Guards(stops, stops')
    BY <1>2, <2>1, StepGuards DEF TrailInv, TrailTypeInv
  <2>3. Protection = Out(stops) /\ Protection' = Out(stops')
    BY DEF Protection, Out, RestingStops, Resting
  <2> QED
    BY <2>2, <2>3, OutGrows
<1> QED
  BY <1>1, <1>2, PTL DEF TrailSpec, ProtectionOnlyTightens

-----------------------------------------------------------------------------
(* SmcReplay: the orders that wait *)

\* Without one of its elements a sequence is one shorter, in the same order.
LEMMA RemoveFirstIs ==
  ASSUME NEW S, NEW q \in Seq(S), NEW e, \E i \in 1..Len(q) : q[i] = e
  PROVE  \E k \in 1..Len(q) :
           /\ q[k] = e
           /\ RemoveFirst(q, e) \in Seq(S) /\ Len(RemoveFirst(q, e)) = Len(q) - 1
           /\ \A j \in 1..(Len(q) - 1) :
                RemoveFirst(q, e)[j] = q[IF j < k THEN j ELSE j + 1]
<1> DEFINE I == {i \in 1..Len(q) : q[i] = e}
           k == Min(I)
           r == SubSeq(q, 1, k - 1) \o SubSeq(q, k + 1, Len(q))
<1>1. I \subseteq Nat /\ I # {}
  OBVIOUS
<1>2. k \in I
  <2> HIDE DEF I
  <2> QED
    BY <1>1, MinOfNaturals
<1>3. RemoveFirst(q, e) = r
  BY <1>1 DEF RemoveFirst, SelectInSeq, RemoveAt
<1>4. k \in 1..Len(q) /\ q[k] = e /\ Len(q) \in Nat
  BY <1>2
<1> HIDE DEF k
<1> DEFINE a == SubSeq(q, 1, k - 1)
           b == SubSeq(q, k + 1, Len(q))
<1>5. a \in Seq(S) /\ Len(a) = k - 1 /\ \A j \in 1..(k - 1) : a[j] = q[j]
  BY <1>4, SubSeqProperties
<1>6. b \in Seq(S) /\ Len(b) = Len(q) - k /\ \A j \in 1..(Len(q) - k) : b[j] = q[k + j]
  BY <1>4, SubSeqProperties
<1> HIDE DEF a, b
<1>7. /\ a \o b \in Seq(S) /\ Len(a \o b) = Len(a) + Len(b)
      /\ \A j \in 1..(Len(a) + Len(b)) :
           (a \o b)[j] = IF j <= Len(a) THEN a[j] ELSE b[j - Len(a)]
  BY <1>5, <1>6, ConcatProperties
<1>8. r = a \o b
  BY DEF a, b
<1> HIDE DEF r
<1>9. \A j \in 1..(Len(q) - 1) : r[j] = q[IF j < k THEN j ELSE j + 1]
  <2>1. SUFFICES ASSUME NEW j \in 1..(Len(q) - 1) PROVE r[j] = q[IF j < k THEN j ELSE j + 1]
    OBVIOUS
  <2>2. r[j] = IF j <= k - 1 THEN a[j] ELSE b[j - (k - 1)]
    BY <1>4, <1>5, <1>6, <1>7, <1>8
  <2>3. CASE j < k
    BY <1>4, <1>5, <2>2, <2>3
  <2>4. CASE ~(j < k)
    <3>1. j - (k - 1) \in 1..(Len(q) - k) /\ k + (j - (k - 1)) = j + 1
      BY <1>4, <2>4
    <3>2. b[j - (k - 1)] = q[j + 1]
      BY <1>6, <3>1
    <3> QED
      BY <1>4, <2>2, <2>4, <3>2
  <2> QED
    BY <2>3, <2>4
<1>10. r \in Seq(S) /\ Len(r) = Len(q) - 1
  <2>1. Len(a) + Len(b) = Len(q) - 1
    BY <1>4, <1>5, <1>6
  <2> QED
    BY <1>7, <1>8, <2>1
<1> QED
  BY <1>3, <1>4, <1>9, <1>10

\* Nothing is in the sequence twice.
Once(q) == \A i, j \in 1..Len(q) : q[i] = q[j] => i = j

\* r is q without e.
Without(r, q, e) ==
  /\ \A i \in 1..Len(r) : r[i] # e /\ \E j \in 1..Len(q) : r[i] = q[j]
  /\ \A j \in 1..Len(q) : q[j] # e => \E i \in 1..Len(r) : r[i] = q[j]

\* Taken from a queue in which nothing is twice, an order is no longer in it, and
\* the others are.
LEMMA TakenOut ==
  ASSUME NEW S, NEW q \in Seq(S), Once(q), NEW e, \E i \in 1..Len(q) : q[i] = e
  PROVE  /\ RemoveFirst(q, e) \in Seq(S) /\ Once(RemoveFirst(q, e))
         /\ Without(RemoveFirst(q, e), q, e)
<1> DEFINE r == RemoveFirst(q, e)
<1>1. PICK k \in 1..Len(q) :
        /\ q[k] = e /\ r \in Seq(S) /\ Len(r) = Len(q) - 1
        /\ \A j \in 1..(Len(q) - 1) : r[j] = q[IF j < k THEN j ELSE j + 1]
  BY RemoveFirstIs
<1> HIDE DEF r
<1>2. Len(q) \in Nat
  OBVIOUS
<1>3. \A i \in 1..Len(r) : /\ (IF i < k THEN i ELSE i + 1) \in 1..Len(q)
                           /\ (IF i < k THEN i ELSE i + 1) # k
                           /\ r[i] = q[IF i < k THEN i ELSE i + 1]
  BY <1>1, <1>2
<1>4. \A i \in 1..Len(r) : r[i] # e /\ \E j \in 1..Len(q) : r[i] = q[j]
  BY <1>1, <1>3 DEF Once
<1>5. Once(r)
  <2>1. SUFFICES ASSUME NEW i \in 1..Len(r), NEW j \in 1..Len(r), r[i] = r[j] PROVE i = j
    BY DEF Once
  <2>2. (IF i < k THEN i ELSE i + 1) = (IF j < k THEN j ELSE j + 1)
    BY <1>3, <2>1 DEF Once
  <2> QED
    BY <1>1, <1>2, <2>2
<1>6. \A j \in 1..Len(q) : q[j] # e => \E i \in 1..Len(r) : r[i] = q[j]
  <2>1. SUFFICES ASSUME NEW j \in 1..Len(q), q[j] # e PROVE \E i \in 1..Len(r) : r[i] = q[j]
    OBVIOUS
  <2> DEFINE i == IF j < k THEN j ELSE j - 1
  <2>2. j # k
    BY <1>1, <2>1
  <2>3. i \in 1..Len(r) /\ (IF i < k THEN i ELSE i + 1) = j
    BY <1>1, <1>2, <2>2
  <2>4. r[i] = q[j]
    BY <1>3, <2>3
  <2> QED
    BY <2>3, <2>4
<1> QED
  BY <1>1, <1>4, <1>5, <1>6 DEF r, Without

-----------------------------------------------------------------------------
(* SmcReplay: the positions and what they add up to *)

\* Positions, their entries in the record of trades, and what they add up to.
TradeRecord == [open: BOOLEAN, mark: Int, entry: Int, initial: Nat, left: Nat, entryFee: Int,
                fees: Int, realized: Int, stop: Int, stopLots: Nat, targets: SUBSET Levels]
EntryOf(p) == [open |-> p.open, gross |-> p.realized, fees |-> p.fees]
EntryRecord == [open: BOOLEAN, gross: Int, fees: Int]
Net(p) == p.realized - p.fees
Nets(positions) == [s \in DOMAIN positions |-> Net(positions[s])]
Total(positions) == SumFunctionOnSet(Nets(positions), DOMAIN positions)

Positions == UNION {[S -> TradeRecord] : S \in SUBSET Signals}
Ledgers == UNION {[S -> EntryRecord] : S \in SUBSET Signals}

\* A position put in the place of another, or added, is the only change.
LEMMA WithIs ==
  ASSUME NEW f, NEW s, NEW v
  PROVE  /\ DOMAIN With(f, s, v) = DOMAIN f \union {s}
         /\ With(f, s, v)[s] = v
         /\ \A x \in DOMAIN f \ {s} : With(f, s, v)[x] = f[x]
BY DEF With

\* What is tracked are positions, each of a signal.
LEMMA PositionsAre ==
  ASSUME NEW f \in Positions
  PROVE  DOMAIN f \subseteq Signals /\ f \in [DOMAIN f -> TradeRecord]
         /\ \A s \in DOMAIN f : f[s] \in TradeRecord
BY DEF Positions

\* With one more position, or another one in its place, they still are.
LEMMA PositionsWith ==
  ASSUME NEW f \in Positions, NEW s \in Signals, NEW v \in TradeRecord
  PROVE  With(f, s, v) \in Positions
<1> DEFINE D == DOMAIN f \union {s}
<1>1. D \in SUBSET Signals
  BY PositionsAre
<1>2. With(f, s, v) \in [D -> TradeRecord]
  BY PositionsAre DEF With
<1> HIDE DEF D
<1> QED
  BY <1>1, <1>2 DEF Positions

\* With one more entry, the record of trades still is one.
LEMMA LedgersWith ==
  ASSUME NEW f \in Ledgers, NEW s \in Signals, NEW v \in EntryRecord
  PROVE  With(f, s, v) \in Ledgers
<1> DEFINE D == DOMAIN f \union {s}
<1>1. D \in SUBSET Signals /\ \A x \in DOMAIN f : f[x] \in EntryRecord
  BY DEF Ledgers
<1>2. With(f, s, v) \in [D -> EntryRecord]
  BY <1>1 DEF With
<1> HIDE DEF D
<1> QED
  BY <1>1, <1>2 DEF Ledgers

\* What one position realizes changes what they all add up to by as much.
LEMMA TotalWith ==
  ASSUME NEW f \in Positions, IsFiniteSet(DOMAIN f), NEW s \in Signals, NEW v \in TradeRecord
  PROVE  /\ Total(f) \in Int /\ IsFiniteSet(DOMAIN With(f, s, v))
         /\ s \in DOMAIN f => Total(With(f, s, v)) = Total(f) - Net(f[s]) + Net(v)
         /\ s \notin DOMAIN f => Total(With(f, s, v)) = Total(f) + Net(v)
<1> DEFINE g == With(f, s, v)
           D == DOMAIN f
           E == DOMAIN g
           J == D \ {s}
           m == Nets(f)
           n == Nets(g)
<1>0. g \in Positions
  BY PositionsWith
<1>1. E = D \union {s} /\ g[s] = v /\ \A x \in D \ {s} : g[x] = f[x]
  BY DEF With
<1>2. \A x \in D : m[x] = Net(f[x]) /\ m[x] \in Int
  <2>1. SUFFICES ASSUME NEW x \in D PROVE m[x] = Net(f[x]) /\ Net(f[x]) \in Int
    OBVIOUS
  <2>2. f[x] \in TradeRecord
    BY PositionsAre
  <2> QED
    BY <2>2 DEF Nets, Net, TradeRecord
<1>3. \A x \in E : n[x] = Net(g[x]) /\ n[x] \in Int
  <2>1. SUFFICES ASSUME NEW x \in E PROVE n[x] = Net(g[x]) /\ Net(g[x]) \in Int
    OBVIOUS
  <2>2. g[x] \in TradeRecord
    BY <1>0, PositionsAre
  <2> HIDE DEF g
  <2> QED
    BY <2>2 DEF Nets, Net, TradeRecord
<1>4. Total(f) = SumFunctionOnSet(m, D) /\ Total(g) = SumFunctionOnSet(n, E)
  BY DEF Total
<1> HIDE DEF g, m, n, D, E
<1>5. IsFiniteSet(D) /\ IsFiniteSet(E)
  BY <1>1, FS_AddElement DEF D
<1>6. s \in E /\ J = E \ {s}
  BY <1>1
<1>7. \A x \in J : m[x] = n[x]
  BY <1>1, <1>2, <1>3
<1> HIDE DEF J
<1>8. SumFunctionOnSet(n, E) = SumFunctionOnSet(m, J) + n[s]
  BY <1>3, <1>5, <1>6, <1>7, SumOfOneMore
<1>9. n[s] = Net(v) /\ SumFunctionOnSet(m, D) \in Int
  BY <1>1, <1>2, <1>3, <1>5, <1>6, SumIsInt
<1>10. CASE s \in D
  <2>1. J = D \ {s} /\ \A x \in J : m[x] = m[x]
    BY DEF J
  <2>2. SumFunctionOnSet(m, J) \in Int /\ SumFunctionOnSet(m, D) = SumFunctionOnSet(m, J) + m[s]
    BY <1>2, <1>5, <1>10, <2>1, SumOfOneMore
  <2>3. m[s] \in Int /\ n[s] \in Int /\ m[s] = Net(f[s])
    BY <1>2, <1>3, <1>6, <1>10
  <2>4. SumFunctionOnSet(n, E) = SumFunctionOnSet(m, D) - m[s] + n[s]
    BY <1>8, <2>2, <2>3
  <2> QED
    BY <1>4, <1>5, <1>9, <1>10, <2>3, <2>4 DEF g, D, E
<1>11. CASE s \notin D
  <2>1. J = D
    BY <1>11 DEF J
  <2> QED
    BY <1>4, <1>5, <1>8, <1>9, <1>11, <2>1 DEF g, D, E
<1> QED
  BY <1>10, <1>11

\* The property's sum is that total.
LEMMA SumOverIs ==
  ASSUME NEW f \in Positions, IsFiniteSet(DOMAIN f)
  PROVE  SumOver(DOMAIN f, LAMBDA s : f[s].realized - f[s].fees) = Total(f)
<1> DEFINE J == DOMAIN f
           m == Nets(f)
<1>1. IsFiniteSet(J) /\ \A x \in J : m[x] = f[x].realized - f[x].fees /\ m[x] \in Int
  <2>1. SUFFICES ASSUME NEW x \in J PROVE m[x] = f[x].realized - f[x].fees /\ m[x] \in Int
    OBVIOUS
  <2>2. f[x] \in TradeRecord
    BY PositionsAre
  <2> QED
    BY <2>2 DEF Nets, Net, TradeRecord
<1> DEFINE Is(g) == g = [s \in SUBSET J |->
              IF s = {} THEN 0
              ELSE g[s \ {Picked(s)}] + (f[Picked(s)].realized - f[Picked(s)].fees)]
           iter == CHOOSE g : Is(g)
<1>2. PICK h \in [SUBSET J -> Int] : Adds(h, m, J) /\ SumFunctionOnSet(m, J) = h[J]
  <2> HIDE DEF J, m
  <2> QED
    BY <1>1, SumIsIts
<1>3. \A s \in SUBSET J : s # {} => Picked(s) \in J /\ s \ {Picked(s)} \in SUBSET J
  BY DEF Picked
<1>4. Is(h)
  <2>1. \A s \in SUBSET J : h[s] = IF s = {} THEN 0
              ELSE h[s \ {Picked(s)}] + (f[Picked(s)].realized - f[Picked(s)].fees)
    <3>1. SUFFICES ASSUME NEW s \in SUBSET J, s # {}
          PROVE  h[s] = h[s \ {Picked(s)}] + (f[Picked(s)].realized - f[Picked(s)].fees)
      BY <1>2 DEF Adds
    <3>2. h[s] = m[Picked(s)] + h[s \ {Picked(s)}]
      BY <1>2, <3>1 DEF Adds
    <3>3. Picked(s) \in J /\ h[s \ {Picked(s)}] \in Int
      BY <1>2, <1>3, <3>1
    <3>4. m[Picked(s)] = f[Picked(s)].realized - f[Picked(s)].fees /\ m[Picked(s)] \in Int
      BY <1>1, <3>3
    <3> QED
      BY <3>2, <3>3, <3>4
  <2> QED
    BY <1>2, <2>1
<1>5. Is(iter)
  BY <1>4
<1>6. SumOver(J, LAMBDA s : f[s].realized - f[s].fees) = iter[J]
  BY DEF SumOver, FoldSet, MapThenFoldSet, Picked
<1> HIDE DEF iter
<1>7. \A s \in SUBSET J : iter[s] \in Int
  <2> DEFINE X == {s \in SUBSET J : iter[s] \notin Int}
  <2>1. SUFFICES ASSUME X # {} PROVE FALSE
    OBVIOUS
  <2>2. PICK s \in X : \A t \in X : t \subseteq s => t = s
    <3>1. X \subseteq SUBSET J
      OBVIOUS
    <3> HIDE DEF X, J
    <3> QED
      BY <1>1, <2>1, <3>1, SmallestSubset
  <2>3. s # {}
    BY <1>5, <2>2
  <2> DEFINE u == s \ {Picked(s)}
  <2>4. u \in SUBSET J /\ u \subseteq s /\ u # s /\ Picked(s) \in J
    BY <2>2, <2>3 DEF Picked
  <2>5. iter[u] \in Int
    BY <2>2, <2>4
  <2>6. iter[s] = iter[u] + (f[Picked(s)].realized - f[Picked(s)].fees)
    BY <1>5, <2>2, <2>3
  <2>7. f[Picked(s)].realized - f[Picked(s)].fees \in Int
    BY <1>1, <2>4
  <2> HIDE DEF u
  <2>8. iter[s] \in Int
    BY <2>5, <2>6, <2>7
  <2> QED
    BY <2>2, <2>8
<1>8. Adds(iter, m, J)
  <2>1. SUFFICES ASSUME NEW s \in SUBSET J
        PROVE  iter[s] = IF s = {} THEN 0 ELSE m[Picked(s)] + iter[s \ {Picked(s)}]
    BY DEF Adds
  <2>2. CASE s = {}
    BY <1>5, <2>2
  <2>3. CASE s # {}
    <3>1. iter[s] = iter[s \ {Picked(s)}] + (f[Picked(s)].realized - f[Picked(s)].fees)
      BY <1>5, <2>3
    <3>2. Picked(s) \in J /\ iter[s \ {Picked(s)}] \in Int
      BY <1>3, <1>7, <2>3
    <3>3. m[Picked(s)] = f[Picked(s)].realized - f[Picked(s)].fees /\ m[Picked(s)] \in Int
      BY <1>1, <3>2
    <3> QED
      BY <2>3, <3>1, <3>2, <3>3
  <2> QED
    BY <2>2, <2>3
<1>9. \A s \in SUBSET J : iter[s] = h[s]
  <2>1. \A x \in J : m[x] = m[x]
    OBVIOUS
  <2>2. J \subseteq J
    OBVIOUS
  <2> HIDE DEF J, m
  <2> QED
    BY <1>1, <1>2, <1>8, <2>1, <2>2, SumsAgree
<1> QED
  BY <1>2, <1>6, <1>9 DEF Total

-----------------------------------------------------------------------------
(* SmcReplay: the invariant, of the broker's record *)

\* The broker's record, and that its parts belong together.
BrokerRecord == [orders: Seq(Signals), used: SUBSET Signals, pos: Positions,
                 now: Signals \union {NoPosition}, balance: Int, ledger: Ledgers, fundings: Nat]

BrokerShape(b) ==
  /\ b \in BrokerRecord /\ IsFiniteSet(DOMAIN b.pos) /\ DOMAIN b.ledger = DOMAIN b.pos
  /\ b.now # NoPosition => b.now \in DOMAIN b.pos
  /\ \A s \in DOMAIN b.pos : b.pos[s].left <= b.pos[s].initial

\* An order waits once, and until it has made its position.
OrdersWait(b) ==
  /\ Once(b.orders) /\ DOMAIN b.pos \subseteq b.used
  /\ \A i \in 1..Len(b.orders) : b.orders[i] \in b.used /\ b.orders[i] \notin DOMAIN b.pos

\* The account is what the positions add up to, closed ones are booked, and the
\* stop of the live one is for what is left of it.
BooksHold(b) ==
  /\ b.balance = Total(b.pos)
  /\ \A s \in DOMAIN b.pos : b.pos[s].open \/ b.ledger[s] = EntryOf(b.pos[s])
  /\ Live(b) => b.pos[b.now].stopLots = b.pos[b.now].left

ReplayInv(b) == BrokerShape(b) /\ OrdersWait(b) /\ BooksHold(b)

\* One position, what the account holds and the record of trades after an exit.
Changed(b, s, q, x, l) == [b EXCEPT !.balance = x, !.pos = With(b.pos, s, q), !.ledger = l]

\* What an exit of the position of s leaves as it was.
Beside(n, b, s) ==
  /\ n.orders = b.orders /\ n.now = b.now /\ n.used = b.used /\ DOMAIN n.pos = DOMAIN b.pos
  /\ s \in DOMAIN n.pos /\ n.fundings = b.fundings

\* What a change of one position keeps, if the account takes the difference and a
\* closed one is booked.
LEMMA ChangeKeeps ==
  ASSUME NEW b, ReplayInv(b), NEW s \in DOMAIN b.pos, NEW q \in TradeRecord, q.left <= q.initial,
         NEW x \in Int, x = b.balance - Net(b.pos[s]) + Net(q),
         NEW l, l = b.ledger \/ l = With(b.ledger, s, EntryOf(q)),
         q.open \/ l[s] = EntryOf(q),
         s = b.now /\ s # NoPosition /\ q.open => q.stopLots = q.left
  PROVE  /\ ReplayInv(Changed(b, s, q, x, l)) /\ Beside(Changed(b, s, q, x, l), b, s)
         /\ Changed(b, s, q, x, l).pos = With(b.pos, s, q)
<1> DEFINE p == With(b.pos, s, q)
           n == Changed(b, s, q, x, l)
<1>1. BrokerShape(b) /\ OrdersWait(b) /\ BooksHold(b) /\ b \in BrokerRecord
  BY DEF ReplayInv, BrokerShape
<1>2. b.pos \in Positions /\ s \in Signals /\ b.ledger \in Ledgers
  BY <1>1, PositionsAre DEF BrokerRecord
<1>3. p \in Positions /\ DOMAIN p = DOMAIN b.pos /\ p[s] = q /\ \A y \in DOMAIN b.pos \ {s} : p[y] = b.pos[y]
  <2>1. p \in Positions
    BY <1>2, PositionsWith
  <2> QED
    BY <2>1 DEF With
<1>4. l \in Ledgers /\ DOMAIN l = DOMAIN b.pos /\ \A y \in DOMAIN b.pos \ {s} : l[y] = b.ledger[y]
  <2>1. EntryOf(q) \in EntryRecord
    BY DEF EntryOf, EntryRecord, TradeRecord
  <2>2. With(b.ledger, s, EntryOf(q)) \in Ledgers
    BY <1>2, <2>1, LedgersWith
  <2>3. DOMAIN b.ledger = DOMAIN b.pos
    BY <1>1 DEF BrokerShape
  <2> QED
    BY <1>2, <2>2, <2>3 DEF With
<1>5. Total(p) = b.balance - Net(b.pos[s]) + Net(q)
  <2>1. Total(p) = Total(b.pos) - Net(b.pos[s]) + Net(q)
    BY <1>1, <1>2, TotalWith DEF BrokerShape
  <2> QED
    BY <1>1, <2>1 DEF BooksHold
<1> HIDE DEF p
<1>6. n = [b EXCEPT !.balance = x, !.pos = p, !.ledger = l]
  BY DEF p, Changed
<1> HIDE DEF n
<1>7. /\ n \in BrokerRecord /\ n.pos = p /\ n.ledger = l /\ n.balance = x /\ n.orders = b.orders
      /\ n.now = b.now /\ n.used = b.used /\ n.fundings = b.fundings
  BY <1>1, <1>3, <1>4, <1>6 DEF BrokerRecord
<1>8. BrokerShape(n)
  <2>1. \A y \in DOMAIN p : p[y].left <= p[y].initial
    BY <1>1, <1>3 DEF BrokerShape
  <2> QED
    BY <1>1, <1>3, <1>4, <1>7, <2>1 DEF BrokerShape
<1>9. OrdersWait(n)
  BY <1>1, <1>3, <1>7 DEF OrdersWait
<1>10. BooksHold(n)
  <2>1. n.balance = Total(n.pos)
    BY <1>5, <1>7
  <2>2. \A y \in DOMAIN n.pos : n.pos[y].open \/ n.ledger[y] = EntryOf(n.pos[y])
    BY <1>1, <1>3, <1>4, <1>7 DEF BooksHold
  <2>3. ASSUME Live(n) PROVE n.pos[n.now].stopLots = n.pos[n.now].left
    <3>1. CASE b.now = s
      BY <1>3, <1>7, <2>3, <3>1 DEF Live
    <3>2. CASE b.now # s
      <4>1. b.now \in DOMAIN b.pos /\ b.now # NoPosition
        BY <1>1, <1>7, <2>3 DEF Live, BrokerShape
      <4>2. p[b.now] = b.pos[b.now]
        BY <1>3, <3>2, <4>1
      <4>3. Live(b)
        BY <1>7, <2>3, <4>1, <4>2 DEF Live
      <4> QED
        BY <1>1, <1>7, <4>2, <4>3 DEF BooksHold
    <3> QED
      BY <3>1, <3>2
  <2> QED
    BY <2>1, <2>2, <2>3 DEF BooksHold
<1> QED
  BY <1>3, <1>7, <1>8, <1>9, <1>10 DEF ReplayInv, Beside, p, n

\* Products of integers, as fees, gains and margins are.
LEMMA MoneyIs ==
  ASSUME NEW price \in Int, NEW lots \in Int, NEW p \in TradeRecord
  PROVE  FeeOf(price, lots) \in Int /\ Gain(p, price, lots) \in Int /\ UsedMargin(p) \in Int
<1>1. Fee \in Int /\ Leverage \in Int /\ Scale \in Int /\ p.entry \in Int /\ p.left \in Int
  BY ReplayAssumption DEF TradeRecord
<1>2. \A i, j \in Int : i * j \in Int /\ i - j \in Int
  OBVIOUS
<1> QED
  BY <1>1, <1>2 DEF FeeOf, Gain, UsedMargin

CandleRecords == [open: Nat, high: Nat, low: Nat, close: Nat, volume: Nat]

\* A candle fills no more than is wanted, at prices that are numbers.
LEMMA FillIs ==
  ASSUME NEW c \in CandleRecords, NEW lots \in Nat, NEW price \in Int
  PROVE  /\ FillLots(lots, c) \in Nat
         /\ BuyPrice(price, c) \in Int /\ StopPrice(price, c) \in Int /\ TargetPrice(price, c) \in Int
<1>1. c.volume \in Nat /\ c.open \in Nat
  BY DEF CandleRecords
<1>2. Min({lots, c.volume}) \in Nat
  BY <1>1, MinOfTwo
<1>3. Min({price, c.open}) \in Int
  BY <1>1, MinOfTwo
<1>4. Max({price, c.open}) \in Int
  <2> DEFINE o == c.open
  <2>1. o \in Int
    BY <1>1
  <2> HIDE DEF o
  <2>2. Max({price, o}) \in Int
    BY <2>1, MaxOfTwo
  <2> QED
    BY <2>2 DEF o
<1> QED
  BY <1>2, <1>3, <1>4 DEF FillLots, BuyPrice, StopPrice, TargetPrice

\* A position of which some lots are closed at a price.
Less(p, price, lots) ==
  [p EXCEPT !.left = @ - Min({p.left, lots}),
            !.realized = @ + Gain(p, price, Min({p.left, lots})),
            !.fees = @ + FeeOf(price, lots),
            !.open = p.left > Min({p.left, lots})]

\* A partial close leaves a position that has realized the gain less the fee more.
LEMMA LessIs ==
  ASSUME NEW p \in TradeRecord, p.left <= p.initial, NEW price \in Int, NEW lots \in Nat
  PROVE  LET q == Less(p, price, lots)
         IN  /\ q \in TradeRecord /\ q.left <= q.initial
             /\ Gain(p, price, Min({p.left, lots})) - FeeOf(price, lots) \in Int
             /\ Net(q) = Net(p) + Gain(p, price, Min({p.left, lots})) - FeeOf(price, lots)
<1> DEFINE closed == Min({p.left, lots})
           gain == Gain(p, price, closed)
           fee == FeeOf(price, lots)
           q == Less(p, price, lots)
<1>1. p.left \in Nat /\ p.initial \in Nat /\ p.realized \in Int /\ p.fees \in Int
  BY DEF TradeRecord
<1>2. closed \in Nat /\ closed <= p.left
  BY <1>1, MinOfTwo
<1> HIDE DEF closed
<1>3. gain \in Int /\ fee \in Int
  BY <1>2, MoneyIs
<1> HIDE DEF gain, fee
<1>4. q = [p EXCEPT !.left = p.left - closed, !.realized = p.realized + gain,
                    !.fees = p.fees + fee, !.open = (p.left > closed)]
  BY DEF Less, closed, gain, fee
<1>5. p.left - closed \in Nat /\ p.left - closed <= p.initial /\ p.realized + gain \in Int
      /\ p.fees + fee \in Int /\ (p.left > closed) \in BOOLEAN
  BY <1>1, <1>2, <1>3
<1> DEFINE o == (p.left > closed)
           left == p.left - closed
           r == p.realized + gain
           f == p.fees + fee
<1>6. o \in BOOLEAN /\ left \in Nat /\ left <= p.initial /\ r \in Int /\ f \in Int
  BY <1>5
<1>7. q = [p EXCEPT !.left = left, !.realized = r, !.fees = f, !.open = o]
  BY <1>4
<1> HIDE DEF o, left, r, f, q
<1>8. q \in TradeRecord /\ q.left = left /\ q.initial = p.initial /\ q.realized = r /\ q.fees = f
  BY <1>6, <1>7 DEF TradeRecord
<1>9. r - f = p.realized - p.fees + gain - fee
  BY <1>1, <1>3 DEF r, f
<1> QED
  BY <1>3, <1>6, <1>8, <1>9 DEF Net, q, gain, fee, closed

-----------------------------------------------------------------------------
(* SmcReplay: the exits *)

\* Booking a position writes what it has realized.
LEMMA BookedKeeps ==
  ASSUME NEW b, ReplayInv(b), NEW s \in DOMAIN b.pos
  PROVE  ReplayInv(Booked(b, s)) /\ Beside(Booked(b, s), b, s)
<1> DEFINE q == b.pos[s]
           l == With(b.ledger, s, EntryOf(q))
           n == Booked(b, s)
<1>0. b \in BrokerRecord
  BY DEF ReplayInv, BrokerShape
<1>1. q \in TradeRecord /\ q.left <= q.initial
  BY PositionsAre DEF ReplayInv, BrokerShape, BrokerRecord
<1>2. With(b.pos, s, q) = b.pos
  <2>1. b.pos \in [DOMAIN b.pos -> TradeRecord]
    BY <1>0, PositionsAre DEF BrokerRecord
  <2> QED
    BY <2>1 DEF With
<1>3. b.balance \in Int /\ Net(q) \in Int
  BY <1>0, <1>1 DEF BrokerRecord, TradeRecord, Net
<1>4. n = [b EXCEPT !.ledger = l]
  BY DEF Booked, EntryOf
<1>5. [b EXCEPT !.balance = b.balance, !.pos = b.pos, !.ledger = l] = [b EXCEPT !.ledger = l]
  <2> HIDE DEF l
  <2> QED
    BY <1>0 DEF BrokerRecord
<1>6. l[s] = EntryOf(q)
  BY DEF With
<1>7. s = b.now /\ s # NoPosition /\ q.open => q.stopLots = q.left
  BY DEF ReplayInv, BrokerShape, BrokerRecord, BooksHold, Live
<1>8. b.balance = b.balance - Net(b.pos[s]) + Net(q)
  BY <1>3
<1>9. n = Changed(b, s, q, b.balance, l)
  BY <1>2, <1>4, <1>5 DEF Changed
<1> HIDE DEF q, n
<1>10. l = With(b.ledger, s, EntryOf(q))
  OBVIOUS
<1> HIDE DEF l
<1>11. ReplayInv(n) /\ Beside(n, b, s)
  BY <1>1, <1>3, <1>6, <1>7, <1>8, <1>9, <1>10, ChangeKeeps
<1> QED
  BY <1>11 DEF n

\* A position that is tracked is a position, and it is of a signal.
LEMMA TrackedIs ==
  ASSUME NEW b, ReplayInv(b), NEW s \in DOMAIN b.pos
  PROVE  /\ b \in BrokerRecord /\ b.balance \in Int /\ s \in Signals
         /\ b.pos[s] \in TradeRecord /\ b.pos[s].left <= b.pos[s].initial
         /\ Net(b.pos[s]) \in Int
<1>1. b \in BrokerRecord /\ b.pos \in Positions /\ b.balance \in Int
  BY DEF ReplayInv, BrokerShape, BrokerRecord
<1>2. b.pos[s] \in TradeRecord /\ s \in Signals
  BY <1>1, PositionsAre
<1>3. b.pos[s].left <= b.pos[s].initial
  BY DEF ReplayInv, BrokerShape
<1> QED
  BY <1>1, <1>2, <1>3 DEF Net, TradeRecord

\* A liquidation takes the margin that is left from the account and the position.
LEMMA LiquidateKeeps ==
  ASSUME NEW b, ReplayInv(b), NEW s \in DOMAIN b.pos
  PROVE  ReplayInv(Liquidate(b, s)) /\ Beside(Liquidate(b, s), b, s)
<1> DEFINE p == b.pos[s]
           margin == UsedMargin(p)
           q == [p EXCEPT !.open = FALSE, !.realized = p.realized - margin, !.targets = {}]
           x == b.balance - margin
           l == With(b.ledger, s, EntryOf(q))
           n == Liquidate(b, s)
<1>1. b \in BrokerRecord /\ b.balance \in Int /\ p \in TradeRecord /\ p.left <= p.initial
  BY TrackedIs
<1>2. margin \in Int
  <2>1. 0 \in Int
    OBVIOUS
  <2> HIDE DEF p
  <2> QED
    BY <1>1, <2>1, MoneyIs
<1> HIDE DEF p, margin
<1>3. q \in TradeRecord /\ q.left <= q.initial /\ Net(q) = Net(p) - margin /\ q.open = FALSE
  <2>1. p.realized \in Int /\ p.fees \in Int
    BY <1>1 DEF TradeRecord
  <2> DEFINE r == p.realized - margin
  <2>2. r \in Int /\ r - p.fees = p.realized - p.fees - margin
    BY <1>2, <2>1
  <2> HIDE DEF r
  <2>3. q = [p EXCEPT !.open = FALSE, !.realized = r, !.targets = {}]
    BY DEF r
  <2> HIDE DEF q
  <2>4. q \in TradeRecord /\ q.left = p.left /\ q.initial = p.initial /\ q.realized = r
        /\ q.fees = p.fees /\ q.open = FALSE
    BY <1>1, <2>2, <2>3 DEF TradeRecord
  <2> QED
    BY <1>1, <2>2, <2>4 DEF Net
<1>4. x \in Int /\ x = b.balance - Net(b.pos[s]) + Net(q)
  <2>1. Net(p) \in Int /\ b.pos[s] = p
    BY <1>1 DEF p, Net, TradeRecord
  <2> HIDE DEF q
  <2> QED
    BY <1>1, <1>2, <1>3, <2>1
<1>5. With(b.pos, s, q)[s] = q
  BY DEF With
<1>6. n = Changed(b, s, q, x, l)
  <2> DEFINE m == [b EXCEPT !.balance = x, !.pos = With(b.pos, s, q)]
  <2>1. n = Booked(m, s)
    BY DEF Liquidate, p, margin
  <2> HIDE DEF q, x
  <2>2. m.pos[s] = q /\ m.ledger = b.ledger
    BY <1>1, <1>5 DEF BrokerRecord
  <2>3. Booked(m, s) = [m EXCEPT !.ledger = l]
    BY <2>2 DEF Booked, EntryOf
  <2> HIDE DEF l
  <2>4. [m EXCEPT !.ledger = l] = Changed(b, s, q, x, l)
    BY <1>1 DEF Changed, BrokerRecord
  <2> QED
    BY <2>1, <2>3, <2>4
<1>7. l[s] = EntryOf(q)
  BY DEF With
<1>8. l = With(b.ledger, s, EntryOf(q))
  OBVIOUS
<1> HIDE DEF q, x, l, n
<1>9. ReplayInv(n) /\ Beside(n, b, s)
  BY <1>3, <1>4, <1>6, <1>7, <1>8, ChangeKeeps
<1> QED
  BY <1>9 DEF n

\* A position in another state, the difference taken to the account.
Held(b, s, q) ==
  [b EXCEPT !.balance = b.balance - Net(b.pos[s]) + Net(q), !.pos = With(b.pos, s, q)]

\* What another state of a position keeps, as it is or booked.
LEMMA HeldKeeps ==
  ASSUME NEW b, ReplayInv(b), NEW s \in DOMAIN b.pos, NEW q \in TradeRecord, q.left <= q.initial,
         s = b.now /\ s # NoPosition /\ q.open => q.stopLots = q.left
  PROVE  /\ q.open => ReplayInv(Held(b, s, q)) /\ Beside(Held(b, s, q), b, s)
         /\ ReplayInv(Booked(Held(b, s, q), s)) /\ Beside(Booked(Held(b, s, q), s), b, s)
<1> DEFINE x == b.balance - Net(b.pos[s]) + Net(q)
           l == With(b.ledger, s, EntryOf(q))
           m == Held(b, s, q)
<1>1. b \in BrokerRecord /\ b.balance \in Int /\ Net(b.pos[s]) \in Int
  BY TrackedIs
<1>2. Net(q) \in Int
  BY DEF Net, TradeRecord
<1>3. x \in Int
  BY <1>1, <1>2
<1>4. x = b.balance - Net(b.pos[s]) + Net(q) /\ l = With(b.ledger, s, EntryOf(q))
  OBVIOUS
<1>5. m = [b EXCEPT !.balance = x, !.pos = With(b.pos, s, q)]
  BY DEF Held
<1>6. l[s] = EntryOf(q) /\ With(b.pos, s, q)[s] = q
  BY DEF With
<1> HIDE DEF x, l, m
<1>7. m.pos[s] = q /\ m.ledger = b.ledger
  BY <1>1, <1>5, <1>6 DEF BrokerRecord
<1>8. Booked(m, s) = Changed(b, s, q, x, l)
  <2>1. Booked(m, s) = [m EXCEPT !.ledger = l]
    BY <1>4, <1>7 DEF Booked, EntryOf
  <2>2. [m EXCEPT !.ledger = l] = Changed(b, s, q, x, l)
    BY <1>1, <1>5 DEF Changed, BrokerRecord
  <2> QED
    BY <2>1, <2>2
<1>9. m = Changed(b, s, q, x, b.ledger)
  BY <1>1, <1>5 DEF Changed, BrokerRecord
<1>10. ReplayInv(Booked(m, s)) /\ Beside(Booked(m, s), b, s)
  <2> DEFINE n == Booked(m, s)
  <2>1. n = Changed(b, s, q, x, l)
    BY <1>8
  <2> HIDE DEF n
  <2>2. ReplayInv(n) /\ Beside(n, b, s)
    BY <1>3, <1>4, <1>6, <2>1, ChangeKeeps
  <2> QED
    BY <2>2 DEF n
<1>11. q.open => ReplayInv(m) /\ Beside(m, b, s)
  <2>1. SUFFICES ASSUME q.open PROVE ReplayInv(m) /\ Beside(m, b, s)
    OBVIOUS
  <2> QED
    BY <1>3, <1>4, <1>9, <2>1, ChangeKeeps
<1> QED
  BY <1>10, <1>11 DEF m

\* A state over another one that has realized as much.
LEMMA HeldAgain ==
  ASSUME NEW b, ReplayInv(b), NEW s \in DOMAIN b.pos, NEW q \in TradeRecord,
         NEW r \in TradeRecord, Net(r) = Net(q)
  PROVE  /\ Held(b, s, q).pos[s] = q
         /\ [Held(b, s, q) EXCEPT !.pos = With(@, s, r)] = Held(b, s, r)
<1> DEFINE f == With(b.pos, s, q)
           m == Held(b, s, q)
           x == b.balance - Net(b.pos[s]) + Net(q)
<1>1. b \in BrokerRecord
  BY TrackedIs
<1>2. f[s] = q /\ With(f, s, r) = With(b.pos, s, r)
  BY DEF With
<1>3. m = [b EXCEPT !.balance = x, !.pos = f]
  BY DEF Held
<1>4. Held(b, s, r) = [b EXCEPT !.balance = x, !.pos = With(b.pos, s, r)]
  BY DEF Held
<1> HIDE DEF x, f, m
<1>5. m.pos = f
  BY <1>1, <1>3 DEF BrokerRecord
<1>6. [m EXCEPT !.pos = With(b.pos, s, r)] = [b EXCEPT !.balance = x, !.pos = With(b.pos, s, r)]
  BY <1>1, <1>3 DEF BrokerRecord
<1>7. [m EXCEPT !.pos = With(@, s, r)] = [m EXCEPT !.pos = With(b.pos, s, r)]
  BY <1>2, <1>5
<1> QED
  BY <1>2, <1>4, <1>5, <1>6, <1>7 DEF m

\* What a partial close leaves of the position, and of the account.
LEMMA PartialCloseIs ==
  ASSUME NEW b, ReplayInv(b), NEW s \in DOMAIN b.pos, NEW price \in Int, NEW lots \in Nat
  PROVE  /\ Less(b.pos[s], price, lots) \in TradeRecord
         /\ Less(b.pos[s], price, lots).left <= Less(b.pos[s], price, lots).initial
         /\ PartialClose(b, s, price, lots) = Held(b, s, Less(b.pos[s], price, lots))
<1> DEFINE p == b.pos[s]
           g == Gain(p, price, Min({p.left, lots}))
           f == FeeOf(price, lots)
           q == Less(p, price, lots)
<1>1. b \in BrokerRecord /\ b.balance \in Int /\ p \in TradeRecord /\ p.left <= p.initial /\ Net(p) \in Int
  BY TrackedIs
<1>2. q \in TradeRecord /\ q.left <= q.initial /\ g - f \in Int /\ Net(q) = Net(p) + g - f
  <2> HIDE DEF p
  <2> QED
    BY <1>1, LessIs
<1>3. g \in Int /\ f \in Int
  <2> DEFINE closed == Min({p.left, lots})
  <2>1. closed \in Int
    <3>1. p.left \in Int
      BY <1>1 DEF TradeRecord
    <3> HIDE DEF p
    <3> QED
      BY <3>1, MinOfTwo
  <2> HIDE DEF p, closed
  <2>2. Gain(p, price, closed) \in Int
    BY <1>1, <2>1, MoneyIs
  <2>3. lots \in Int
    OBVIOUS
  <2>4. FeeOf(price, lots) \in Int
    BY <1>1, <2>3, MoneyIs
  <2> QED
    BY <2>2, <2>4 DEF closed
<1>4. PartialClose(b, s, price, lots) = [b EXCEPT !.balance = b.balance + g - f, !.pos = With(b.pos, s, q)]
  BY DEF PartialClose, Less
<1>5. b.balance + g - f = b.balance - Net(p) + Net(q)
  <2> HIDE DEF p, q, g, f
  <2> QED
    BY <1>1, <1>2, <1>3
<1> QED
  BY <1>2, <1>4, <1>5 DEF Held

\* A stop closes its trade, whatever the candle leaves of it, and books it.
LEMMA StopOutKeeps ==
  ASSUME NEW b, ReplayInv(b), NEW s \in DOMAIN b.pos, NEW c \in CandleRecords
  PROVE  ReplayInv(StopOut(b, s, c)) /\ Beside(StopOut(b, s, c), b, s)
<1> DEFINE price == StopPrice(b.pos[s].stop, c)
           lots == FillLots(b.pos[s].stopLots, c)
           part == Less(b.pos[s], price, lots)
           q == [part EXCEPT !.open = FALSE, !.stopLots = 0, !.targets = {}]
           n == StopOut(b, s, c)
<1>1. price \in Int /\ lots \in Nat
  <2> DEFINE p == b.pos[s]
  <2>1. p \in TradeRecord
    BY TrackedIs
  <2>2. p.stop \in Int /\ p.stopLots \in Nat
    BY <2>1 DEF TradeRecord
  <2> HIDE DEF p
  <2>3. StopPrice(p.stop, c) \in Int /\ FillLots(p.stopLots, c) \in Nat
    BY <2>2, FillIs
  <2> QED
    BY <2>3 DEF p
<1>2. n = Booked([PartialClose(b, s, price, lots) EXCEPT !.pos = With(@, s,
            [PartialClose(b, s, price, lots).pos[s] EXCEPT !.open = FALSE, !.stopLots = 0,
                                                           !.targets = {}])], s)
  BY DEF StopOut
<1> HIDE DEF price, lots
<1>3. part \in TradeRecord /\ part.left <= part.initial /\ PartialClose(b, s, price, lots) = Held(b, s, part)
  BY <1>1, PartialCloseIs
<1> HIDE DEF part
<1>4. q \in TradeRecord /\ q.left <= q.initial /\ Net(q) = Net(part) /\ ~q.open
  BY <1>3 DEF TradeRecord, Net
<1>5. Held(b, s, part).pos[s] = part
  BY <1>3, HeldAgain
<1>6. n = Booked([Held(b, s, part) EXCEPT !.pos = With(@, s, q)], s)
  BY <1>2, <1>3, <1>5
<1> HIDE DEF q, n
<1>7. [Held(b, s, part) EXCEPT !.pos = With(@, s, q)] = Held(b, s, q)
  BY <1>3, <1>4, HeldAgain
<1>8. n = Booked(Held(b, s, q), s)
  BY <1>6, <1>7
<1>9. ReplayInv(n) /\ Beside(n, b, s)
  BY <1>4, <1>8, HeldKeeps
<1> QED
  BY <1>9 DEF n


\* What a plan asks for is in numbers.
LEMMA PlanIs ==
  ASSUME NEW s \in Signals
  PROVE  /\ Plan[s].lots \in Nat /\ Plan[s].entry \in Nat /\ Plan[s].stop \in Nat
         /\ \A l \in Levels : Plan[s].targets[l] \in Nat
BY ReplayAssumption DEF Levels

\* A target that has filled leaves a position that has realized as much, with the
\* stop for what is left if it is still open.
LEMMA AfterTargetIs ==
  ASSUME NEW p \in TradeRecord, p.left <= p.initial, NEW l \in Levels
  PROVE  /\ AfterTarget(p, l) \in TradeRecord
         /\ AfterTarget(p, l).left <= AfterTarget(p, l).initial
         /\ Net(AfterTarget(p, l)) = Net(p)
         /\ AfterTarget(p, l).open => AfterTarget(p, l).stopLots = AfterTarget(p, l).left
<1> DEFINE stop == IF l = 1 THEN Max({p.stop, p.entry + BreakevenOffset}) ELSE p.stop
           moved == [p EXCEPT !.stopLots = p.left, !.stop = stop]
           resized == IF ~p.open THEN p ELSE moved
           r == [resized EXCEPT !.targets = @ \ {l}]
<1>1. stop \in Int
  <2> DEFINE e == p.entry + BreakevenOffset
             t == p.stop
  <2>1. e \in Int /\ t \in Int
    <3>1. p.entry \in Int /\ BreakevenOffset \in Int /\ p.stop \in Int
      BY ReplayAssumption DEF TradeRecord
    <3> QED
      BY <3>1
  <2> HIDE DEF e, t
  <2>2. Max({t, e}) \in Int
    BY <2>1, MaxOfTwo
  <2> QED
    BY <2>1, <2>2 DEF e, t
<1>2. AfterTarget(p, l) = r
  BY DEF AfterTarget
<1> HIDE DEF stop
<1>3. /\ moved \in TradeRecord /\ moved.left = p.left /\ moved.initial = p.initial
      /\ moved.realized = p.realized /\ moved.fees = p.fees /\ moved.open = p.open
      /\ moved.stopLots = moved.left
  BY <1>1 DEF TradeRecord
<1> HIDE DEF moved
<1>4. /\ resized \in TradeRecord /\ resized.left = p.left /\ resized.initial = p.initial
      /\ resized.realized = p.realized /\ resized.fees = p.fees
      /\ resized.open => resized.stopLots = resized.left
  BY <1>3
<1> HIDE DEF resized
<1>5. /\ r \in TradeRecord /\ r.left = resized.left /\ r.initial = resized.initial
      /\ r.realized = resized.realized /\ r.fees = resized.fees /\ r.open = resized.open
      /\ r.stopLots = resized.stopLots
  BY <1>4 DEF TradeRecord
<1> HIDE DEF r
<1> QED
  BY <1>2, <1>4, <1>5 DEF Net

\* A target closes its part and resizes the stop to what is left, or books the
\* position it has closed; one that does not fill leaves everything as it is.
LEMMA TakeProfitKeeps ==
  ASSUME NEW b, ReplayInv(b), NEW s \in DOMAIN b.pos, NEW c \in CandleRecords, NEW l \in Levels
  PROVE  ReplayInv(TakeProfit(b, s, l, c)) /\ Beside(TakeProfit(b, s, l, c), b, s)
<1> DEFINE p == b.pos[s]
           want == TargetLots(p.initial, l)
           aim == Plan[s].targets[l]
           price == TargetPrice(aim, c)
           lots == FillLots(want, c)
           after == PartialClose(b, s, price, lots)
           part == Less(p, price, lots)
           q == AfterTarget(after.pos[s], l)
           done == [after EXCEPT !.pos = With(@, s, q)]
           n == TakeProfit(b, s, l, c)
<1>1. b \in BrokerRecord /\ p \in TradeRecord /\ p.left <= p.initial /\ s \in Signals
  BY TrackedIs
<1>2. aim \in Int
  BY <1>1, PlanIs
<1>3. want \in Nat
  <2>1. p.initial \in Nat
    BY <1>1 DEF TradeRecord
  <2>2. \A i \in Nat : (i * 33 + 50) \div 100 \in Nat /\ (i * 34 + 50) \div 100 \in Nat
    OBVIOUS
  <2> HIDE DEF p
  <2>3. l = 3 \/ l # 3
    OBVIOUS
  <2> QED
    BY <2>1, <2>2, <2>3 DEF TargetLots
<1>4. n = b \/ n = IF q.open THEN done ELSE Booked(done, s)
  <2> DEFINE skip == l \notin p.targets \/ want = 0 \/ ~TargetHit(aim, c)
  <2>1. n = IF skip THEN b ELSE IF q.open THEN done ELSE Booked(done, s)
    BY DEF TakeProfit
  <2> HIDE DEF skip, n, done, q
  <2> QED
    BY <2>1
<1> HIDE DEF aim, want
<1>5. price \in Int /\ lots \in Nat
  BY <1>2, <1>3, FillIs
<1> HIDE DEF price, lots
<1>6. part \in TradeRecord /\ part.left <= part.initial /\ after = Held(b, s, part)
  BY <1>5, PartialCloseIs
<1> HIDE DEF part, after
<1>7. q = AfterTarget(part, l)
  <2>1. Held(b, s, part).pos[s] = part
    BY <1>6, HeldAgain
  <2> QED
    BY <1>6, <2>1
<1> HIDE DEF q
<1>8. /\ q \in TradeRecord /\ q.left <= q.initial /\ Net(q) = Net(part)
      /\ q.open => q.stopLots = q.left
  BY <1>6, <1>7, AfterTargetIs
<1>9. done = Held(b, s, q)
  BY <1>6, <1>8, HeldAgain
<1> HIDE DEF done, n
<1>10. CASE n = b
  BY <1>10 DEF n, Beside
<1>11. CASE n = IF q.open THEN done ELSE Booked(done, s)
  <2>1. q.open => ReplayInv(Held(b, s, q)) /\ Beside(Held(b, s, q), b, s)
    BY <1>8, HeldKeeps
  <2>2. ReplayInv(Booked(Held(b, s, q), s)) /\ Beside(Booked(Held(b, s, q), s), b, s)
    BY <1>8, HeldKeeps
  <2>3. ReplayInv(n) /\ Beside(n, b, s)
    BY <1>9, <1>11, <2>1, <2>2
  <2> QED
    BY <2>3 DEF n
<1> QED
  BY <1>4, <1>10, <1>11

\* A candle marks the live position, and the exits it sets off keep the books.
LEMMA ExitsKeep ==
  ASSUME NEW b, ReplayInv(b), NEW c \in CandleRecords
  PROVE  ReplayInv(Exits(b, c)) /\ Exits(b, c).orders = b.orders /\ Exits(b, c).used = b.used
<1> DEFINE s == b.now
           q == [b.pos[s] EXCEPT !.mark = c.close]
           m == [b EXCEPT !.pos = With(@, s, q)]
           n == Exits(b, c)
<1>1. CASE ~Live(b)
  BY <1>1 DEF Exits
<1>2. CASE Live(b)
  <2>1. s \in DOMAIN b.pos /\ s # NoPosition /\ b.pos[s].open
    BY <1>2 DEF Live, ReplayInv, BrokerShape
  <2>2. b \in BrokerRecord /\ b.balance \in Int /\ b.pos[s] \in TradeRecord
        /\ b.pos[s].left <= b.pos[s].initial /\ Net(b.pos[s]) \in Int
    BY <2>1, TrackedIs
  <2>3. /\ q \in TradeRecord /\ q.left <= q.initial /\ Net(q) = Net(b.pos[s]) /\ q.open
        /\ q.stopLots = q.left
    <3>1. c.close \in Int
      BY DEF CandleRecords
    <3>2. b.pos[s].stopLots = b.pos[s].left
      BY <1>2 DEF ReplayInv, BooksHold
    <3> QED
      BY <2>1, <2>2, <3>1, <3>2 DEF TradeRecord, Net
  <2> HIDE DEF q
  <2>4. m = Held(b, s, q)
    <3>1. b.balance - Net(b.pos[s]) + Net(q) = b.balance
      BY <2>2, <2>3
    <3> DEFINE x == b.balance - Net(b.pos[s]) + Net(q)
               f == With(b.pos, s, q)
    <3>2. x = b.balance /\ Held(b, s, q) = [b EXCEPT !.balance = x, !.pos = f]
      BY <3>1 DEF Held
    <3>3. m = [b EXCEPT !.pos = f]
      OBVIOUS
    <3> HIDE DEF x, f, m
    <3>4. [b EXCEPT !.balance = x, !.pos = f] = [b EXCEPT !.pos = f]
      BY <2>2, <3>2 DEF BrokerRecord
    <3> QED
      BY <3>2, <3>3, <3>4
  <2> HIDE DEF m
  <2>5. ReplayInv(m) /\ Beside(m, b, s)
    BY <2>1, <2>3, <2>4, HeldKeeps
  <2>6. \/ n = Liquidate(m, s)
        \/ n = StopOut(m, s, c)
        \/ n = Booked(TakeProfit(TakeProfit(TakeProfit(m, s, 1, c), s, 2, c), s, 3, c), s)
    BY <1>2 DEF Exits, m, q
  <2> HIDE DEF n
  <2>7. s \in DOMAIN m.pos
    BY <2>5 DEF Beside
  <2>8. CASE n = Liquidate(m, s)
    <3>1. ReplayInv(n) /\ Beside(n, m, s)
      BY <2>5, <2>7, <2>8, LiquidateKeeps
    <3> QED
      BY <2>5, <3>1 DEF Beside, n
  <2>9. CASE n = StopOut(m, s, c)
    <3>1. ReplayInv(n) /\ Beside(n, m, s)
      BY <2>5, <2>7, <2>9, StopOutKeeps
    <3> QED
      BY <2>5, <3>1 DEF Beside, n
  <2>10. CASE n = Booked(TakeProfit(TakeProfit(TakeProfit(m, s, 1, c), s, 2, c), s, 3, c), s)
    <3> DEFINE t == TakeProfit(m, s, 1, c)
               u == TakeProfit(t, s, 2, c)
               v == TakeProfit(u, s, 3, c)
    <3>1. 1 \in Levels /\ 2 \in Levels /\ 3 \in Levels
      BY DEF Levels
    <3>2. ReplayInv(t) /\ Beside(t, m, s)
      BY <2>5, <2>7, <3>1, TakeProfitKeeps
    <3> HIDE DEF t
    <3>3. ReplayInv(u) /\ Beside(u, t, s)
      BY <3>1, <3>2, TakeProfitKeeps DEF Beside
    <3> HIDE DEF u
    <3>4. ReplayInv(v) /\ Beside(v, u, s)
      BY <3>1, <3>3, TakeProfitKeeps DEF Beside
    <3>5. n = Booked(v, s)
      BY <2>10 DEF t, u
    <3> HIDE DEF v
    <3>6. ReplayInv(n) /\ Beside(n, v, s)
      BY <3>4, <3>5, BookedKeeps DEF Beside
    <3> QED
      BY <2>5, <3>2, <3>3, <3>4, <3>6 DEF Beside, n
  <2> QED
    BY <2>6, <2>8, <2>9, <2>10
<1> QED
  BY <1>1, <1>2

-----------------------------------------------------------------------------
(* SmcReplay: the entries *)

\* An order that fills leaves the queue and makes the position the map now holds;
\* the orders beside it wait on.
LEMMA EnterKeeps ==
  ASSUME NEW b, ReplayInv(b), NEW k \in 1..Len(b.orders), NEW s, s = b.orders[k],
         NEW c \in CandleRecords
  PROVE  /\ ReplayInv(Enter(b, s, c)) /\ Enter(b, s, c).used = b.used
         /\ \A j \in 1..Len(b.orders) : b.orders[j] # s =>
              \E i \in 1..Len(Enter(b, s, c).orders) : Enter(b, s, c).orders[i] = b.orders[j]
<1> DEFINE q == b.orders
           price == BuyPrice(Plan[s].entry, c)
           lots == FillLots(Plan[s].lots, c)
           fee == FeeOf(price, lots)
           p == [open |-> TRUE, mark |-> price, entry |-> price, initial |-> lots, left |-> lots,
                 entryFee |-> fee, fees |-> fee, realized |-> 0, stop |-> Plan[s].stop,
                 stopLots |-> lots, targets |-> Levels]
           r == RemoveFirst(q, s)
           f == With(b.pos, s, p)
           x == b.balance - fee
           l == With(b.ledger, s, EntryOf(p))
           n == Enter(b, s, c)
<1>1. b \in BrokerRecord /\ q \in Seq(Signals) /\ s \in Signals /\ b.balance \in Int
      /\ b.pos \in Positions /\ IsFiniteSet(DOMAIN b.pos) /\ b.ledger \in Ledgers
      /\ DOMAIN b.ledger = DOMAIN b.pos /\ Len(q) \in Nat
  BY DEF ReplayInv, BrokerShape, BrokerRecord
<1>2. Once(q) /\ s \notin DOMAIN b.pos /\ s \in b.used
  BY DEF ReplayInv, OrdersWait
<1>3. price \in Int /\ lots \in Nat /\ Plan[s].stop \in Int
  <2>1. Plan[s].entry \in Int /\ Plan[s].lots \in Nat /\ Plan[s].stop \in Int
    BY <1>1, PlanIs
  <2> QED
    BY <2>1, FillIs
<1> HIDE DEF price, lots
<1>4. fee \in Int
  <2>1. \A i, j \in Int : i * j \in Int
    OBVIOUS
  <2> QED
    BY <1>3, <2>1, ReplayAssumption DEF FeeOf
<1>5. n = Booked([b EXCEPT !.orders = r, !.pos = f, !.now = s, !.balance = x], s)
  BY DEF Enter, price, lots
<1> HIDE DEF fee
<1>6. /\ p \in TradeRecord /\ p.left <= p.initial /\ p.stopLots = p.left /\ p.open
      /\ Net(p) = -fee
  BY <1>3, <1>4 DEF TradeRecord, Net
<1>7. r \in Seq(Signals) /\ Once(r) /\ Without(r, q, s)
  <2>1. q \in Seq(Signals) /\ Once(q) /\ \E i \in 1..Len(q) : q[i] = s
    BY <1>1, <1>2
  <2> HIDE DEF q
  <2> QED
    BY <2>1, TakenOut
<1>8. /\ f \in Positions /\ IsFiniteSet(DOMAIN f) /\ Total(f) = Total(b.pos) - fee
      /\ Total(b.pos) \in Int /\ f[s] = p /\ DOMAIN f = DOMAIN b.pos \union {s}
      /\ \A y \in DOMAIN b.pos : f[y] = b.pos[y]
  <2> HIDE DEF p
  <2>1. f \in Positions
    BY <1>1, <1>6, PositionsWith
  <2>2. /\ IsFiniteSet(DOMAIN f) /\ Total(f) = Total(b.pos) + Net(p) /\ Total(b.pos) \in Int
    BY <1>1, <1>2, <1>6, TotalWith
  <2>3. /\ f[s] = p /\ DOMAIN f = DOMAIN b.pos \union {s}
        /\ \A y \in DOMAIN b.pos : f[y] = b.pos[y]
    BY <1>2 DEF With
  <2>4. Total(f) = Total(b.pos) - fee
    BY <1>4, <1>6, <2>2
  <2> QED
    BY <2>1, <2>2, <2>3, <2>4
<1>9. /\ l \in Ledgers /\ DOMAIN l = DOMAIN f /\ l[s] = EntryOf(p)
      /\ \A y \in DOMAIN b.pos : l[y] = b.ledger[y]
  <2>1. EntryOf(p) \in EntryRecord
    BY <1>6 DEF EntryOf, EntryRecord, TradeRecord
  <2> HIDE DEF p
  <2>2. l \in Ledgers
    BY <1>1, <2>1, LedgersWith
  <2> QED
    BY <1>1, <1>2, <1>8, <2>2 DEF With
<1> HIDE DEF p, r, f, x
<1>10. n = [b EXCEPT !.orders = r, !.pos = f, !.now = s, !.balance = x, !.ledger = l]
  <2> DEFINE m == [b EXCEPT !.orders = r, !.pos = f, !.now = s, !.balance = x]
  <2>1. m.pos = f /\ m.ledger = b.ledger
    BY <1>1 DEF BrokerRecord
  <2> HIDE DEF m
  <2>2. n = [m EXCEPT !.ledger = l]
    BY <1>5, <1>8, <2>1 DEF Booked, EntryOf, m
  <2> HIDE DEF l
  <2>3. [m EXCEPT !.ledger = l]
          = [b EXCEPT !.orders = r, !.pos = f, !.now = s, !.balance = x, !.ledger = l]
    BY <1>1 DEF m, BrokerRecord
  <2> QED
    BY <2>2, <2>3
<1> HIDE DEF l
<1>11. x \in Int /\ b.balance = Total(b.pos) /\ x = Total(f)
  BY <1>1, <1>4, <1>8 DEF x, ReplayInv, BooksHold
<1> HIDE DEF n
<1>12. /\ n \in BrokerRecord /\ n.orders = r /\ n.used = b.used /\ n.pos = f /\ n.now = s
       /\ n.balance = x /\ n.ledger = l
  BY <1>1, <1>7, <1>8, <1>9, <1>10, <1>11 DEF BrokerRecord
<1>13. BrokerShape(n)
  <2>1. \A y \in DOMAIN f : f[y].left <= f[y].initial
    BY <1>6, <1>8 DEF ReplayInv, BrokerShape
  <2> QED
    BY <1>8, <1>9, <1>12, <2>1 DEF BrokerShape
<1>14. OrdersWait(n)
  <2>1. \A i \in 1..Len(r) : r[i] \in b.used /\ r[i] \notin DOMAIN f
    BY <1>7, <1>8 DEF ReplayInv, OrdersWait, Without
  <2>2. DOMAIN f \subseteq b.used
    BY <1>2, <1>8 DEF ReplayInv, OrdersWait
  <2> QED
    BY <1>7, <1>12, <2>1, <2>2 DEF OrdersWait
<1>15. BooksHold(n)
  <2>1. \A y \in DOMAIN f : f[y].open \/ l[y] = EntryOf(f[y])
    BY <1>6, <1>8, <1>9 DEF ReplayInv, BooksHold
  <2>2. f[s].stopLots = f[s].left
    BY <1>6, <1>8
  <2> QED
    BY <1>11, <1>12, <2>1, <2>2 DEF BooksHold
<1> QED
  BY <1>7, <1>12, <1>13, <1>14, <1>15 DEF ReplayInv, Without, n

\* One order after another, for a queue of any length: each that is still to come
\* waits, and the books hold after each.
LEMMA EntriesKeep ==
  ASSUME NEW b, ReplayInv(b), NEW c \in CandleRecords
  PROVE  ReplayInv(Entries(b, c))
<1> DEFINE q == b.orders
           N == Len(q)
           Step(x, n) == IF LimitHit(Plan[q[n]].entry, c) THEN Enter(x, q[n], c) ELSE x
           Runs(f, k) == f = [n \in 0..k |-> IF n = 0 THEN b ELSE Step(f[n - 1], n)]
           after == CHOOSE f : Runs(f, N)
           Waits(x, k) == \A i \in (k + 1)..N : \E j \in 1..Len(x.orders) : x.orders[j] = q[i]
           Good(k) == ReplayInv(after[k]) /\ Waits(after[k], k)
<1>1. N \in Nat /\ Once(q)
  BY DEF ReplayInv, BrokerShape, OrdersWait, BrokerRecord
<1>2. Entries(b, c) = after[N]
  BY DEF Entries
<1>3. \A x : \A n \in 1..N : ReplayInv(x) /\ Waits(x, n - 1) => ReplayInv(Step(x, n)) /\ Waits(Step(x, n), n)
  <2>1. SUFFICES ASSUME NEW x, NEW n \in 1..N, ReplayInv(x), Waits(x, n - 1)
        PROVE  ReplayInv(Step(x, n)) /\ Waits(Step(x, n), n)
    OBVIOUS
  <2>2. CASE ~LimitHit(Plan[q[n]].entry, c)
    <3>1. Step(x, n) = x
      BY <2>2
    <3>2. Waits(x, n)
      BY <1>1, <2>1
    <3> HIDE DEF Step, Waits
    <3> QED
      BY <2>1, <3>1, <3>2
  <2>3. CASE LimitHit(Plan[q[n]].entry, c)
    <3> DEFINE s == q[n]
               y == Enter(x, s, c)
    <3>1. PICK k \in 1..Len(x.orders) : x.orders[k] = s
      BY <1>1, <2>1
    <3>2. /\ ReplayInv(y)
          /\ \A j \in 1..Len(x.orders) : x.orders[j] # s =>
               \E i \in 1..Len(y.orders) : y.orders[i] = x.orders[j]
      <4> HIDE DEF s, q, N, Waits, Step, after
      <4>1. s = x.orders[k] /\ ReplayInv(x)
        BY <2>1, <3>1
      <4>2. /\ ReplayInv(Enter(x, s, c))
            /\ \A j \in 1..Len(x.orders) : x.orders[j] # s =>
                 \E i \in 1..Len(Enter(x, s, c).orders) : Enter(x, s, c).orders[i] = x.orders[j]
        BY ONLY <4>1, c \in CandleRecords, k \in 1..Len(x.orders), EnterKeeps
      <4> QED
        BY <4>2
    <3>3. ASSUME NEW i \in (n + 1)..N PROVE \E j \in 1..Len(y.orders) : y.orders[j] = q[i]
      <4>1. PICK j \in 1..Len(x.orders) : x.orders[j] = q[i]
        BY <1>1, <2>1, <3>3
      <4>2. i \in 1..N /\ i # n
        BY <1>1, <3>3
      <4>3. q[i] # s
        BY <1>1, <4>2 DEF Once
      <4> HIDE DEF y
      <4> QED
        BY <3>2, <4>1, <4>3
    <3>4. Step(x, n) = y
      BY <2>3
    <3> HIDE DEF y, Step
    <3> QED
      BY <3>2, <3>3, <3>4
  <2> QED
    BY <2>2, <2>3
<1> HIDE DEF Step
<1>4. \A k \in Nat : \E f : Runs(f, k)
  <2> DEFINE X == {k \in Nat : ~\E f : Runs(f, k)}
             k == Min(X)
  <2>1. SUFFICES ASSUME X # {} PROVE FALSE
    OBVIOUS
  <2>2. k \in X /\ \A y \in X : k <= y
    <3>1. X \subseteq Nat
      OBVIOUS
    <3> HIDE DEF X
    <3> QED
      BY <2>1, <3>1, MinOfNaturals
  <2> HIDE DEF k
  <2>3. k \in Nat /\ ~\E f : Runs(f, k)
    BY <2>2
  <2>4. k # 0
    <3> DEFINE f == [n \in 0..0 |-> b]
    <3>1. f = [n \in 0..0 |-> IF n = 0 THEN b ELSE Step(f[n - 1], n)]
      OBVIOUS
    <3>2. Runs(f, 0)
      BY <3>1
    <3> QED
      BY <2>3, <3>2
  <2>5. k - 1 \in Nat /\ k - 1 \notin X
    BY <2>2, <2>3, <2>4
  <2>6. PICK f : Runs(f, k - 1)
    BY <2>5
  <2> DEFINE g == [n \in 0..k |-> IF n = k THEN Step(f[k - 1], k) ELSE f[n]]
  <2>7. \A n \in 0..k : g[n] = IF n = 0 THEN b ELSE Step(g[n - 1], n)
    <3>1. SUFFICES ASSUME NEW n \in 0..k PROVE g[n] = IF n = 0 THEN b ELSE Step(g[n - 1], n)
      OBVIOUS
    <3>2. CASE n = k
      <4>1. g[n] = Step(f[k - 1], k) /\ g[k - 1] = f[k - 1]
        BY <2>3, <2>4, <3>2
      <4> QED
        BY <2>4, <3>2, <4>1
    <3>3. CASE n # k
      <4>1. n \in 0..(k - 1)
        BY <2>3, <3>3
      <4>2. f[n] = IF n = 0 THEN b ELSE Step(f[n - 1], n)
        BY <2>6, <4>1
      <4>3. g[n] = f[n] /\ (n # 0 => g[n - 1] = f[n - 1])
        BY <2>3, <3>3, <4>1
      <4> QED
        BY <4>2, <4>3
    <3> QED
      BY <3>2, <3>3
  <2>8. Runs(g, k)
    BY <2>7
  <2> QED
    BY <2>3, <2>8
<1>5. Runs(after, N)
  BY <1>1, <1>4
<1> HIDE DEF after
<1>6. after[0] = b /\ \A n \in 1..N : after[n] = Step(after[n - 1], n)
  <2>1. \A n \in 0..N : after[n] = IF n = 0 THEN b ELSE Step(after[n - 1], n)
    BY <1>5
  <2>2. 0 \in 0..N /\ \A n \in 1..N : n \in 0..N /\ n # 0
    BY <1>1
  <2> HIDE DEF N
  <2> QED
    BY <2>1, <2>2
<1>7. Good(0)
  <2>1. \A i \in (0 + 1)..N : \E j \in 1..Len(q) : q[j] = q[i]
    OBVIOUS
  <2> QED
    BY <1>6, <2>1
<1>8. \A n \in 1..N : Good(n - 1) => Good(n)
  <2> HIDE DEF Waits, N
  <2>1. SUFFICES ASSUME NEW n \in 1..N, Good(n - 1) PROVE Good(n)
    OBVIOUS
  <2> DEFINE x == after[n - 1]
  <2>2. ReplayInv(x) /\ Waits(x, n - 1)
    BY <2>1
  <2>3. after[n] = Step(x, n)
    BY <1>6, <2>1
  <2> HIDE DEF x
  <2>4. ReplayInv(Step(x, n)) /\ Waits(Step(x, n), n)
    BY <1>3, <2>1, <2>2
  <2> QED
    BY <2>3, <2>4
<1> HIDE DEF Good
<1>9. \A k \in 0..N : Good(k)
  <2> DEFINE X == {k \in 0..N : ~Good(k)}
             k == Min(X)
  <2>1. SUFFICES ASSUME X # {} PROVE FALSE
    OBVIOUS
  <2>2. k \in X /\ \A y \in X : k <= y
    <3>1. X \subseteq Nat
      BY <1>1
    <3> HIDE DEF X
    <3> QED
      BY <2>1, <3>1, MinOfNaturals
  <2> HIDE DEF k
  <2>3. k \in 1..N /\ ~Good(k)
    BY <1>1, <1>7, <2>2
  <2>4. k - 1 \in 0..N /\ k - 1 \notin X
    BY <1>1, <2>2, <2>3
  <2> QED
    BY <1>8, <2>3, <2>4
<1>10. Good(N)
  BY <1>1, <1>9
<1> QED
  BY <1>2, <1>10 DEF Good

-----------------------------------------------------------------------------
(* SmcReplay: the operations *)

\* A broker that has just been made or reset holds nothing and owes nothing.
LEMMA FreshKeeps == ReplayInv(SmcFresh)
<1> DEFINE e == <<>>
<1>1. /\ DOMAIN e = {} /\ IsFiniteSet(DOMAIN e) /\ Len(e) = 0 /\ e \in Seq(Signals)
      /\ e \in [{} -> TradeRecord] /\ e \in [{} -> EntryRecord]
  BY FS_EmptySet
<1>2. /\ SmcFresh.orders = e /\ SmcFresh.used = {} /\ SmcFresh.pos = e /\ SmcFresh.now = NoPosition
      /\ SmcFresh.balance = 0 /\ SmcFresh.ledger = e /\ SmcFresh.fundings = 0
  BY DEF SmcFresh
<1>3. SmcFresh = [orders |-> e, used |-> {}, pos |-> e, now |-> NoPosition,
                  balance |-> 0, ledger |-> e, fundings |-> 0]
  BY DEF SmcFresh
<1> HIDE DEF e
<1>4. e \in Positions /\ e \in Ledgers
  <2>1. {} \in SUBSET Signals
    OBVIOUS
  <2> QED
    BY <1>1, <2>1 DEF Positions, Ledgers
<1>5. Total(e) = 0
  BY <1>1, SumOfNone DEF Total
<1>6. SmcFresh \in BrokerRecord
  BY <1>1, <1>3, <1>4 DEF BrokerRecord
<1>7. BrokerShape(SmcFresh)
  BY <1>1, <1>2, <1>6 DEF BrokerShape
<1>8. OrdersWait(SmcFresh)
  BY <1>1, <1>2 DEF OrdersWait, Once
<1>9. BooksHold(SmcFresh)
  BY <1>1, <1>2, <1>5 DEF BooksHold, Live
<1> QED
  BY <1>7, <1>8, <1>9 DEF ReplayInv

\* A signal is submitted once, and waits behind those before it.
LEMMA SubmitKeeps ==
  ASSUME ReplayInv(replay), NEW s \in Signals, SubmitTradeSignal(s)
  PROVE  ReplayInv(replay')
<1> DEFINE q == replay.orders
           r == Append(q, s)
           u == replay.used \union {s}
           n == replay'
<1>1. replay \in BrokerRecord /\ q \in Seq(Signals) /\ replay.used \subseteq Signals /\ Len(q) \in Nat
  BY DEF ReplayInv, BrokerShape, BrokerRecord
<1>2. s \notin replay.used /\ n = [replay EXCEPT !.orders = r, !.used = u]
  BY DEF SubmitTradeSignal
<1>3. r \in Seq(Signals) /\ Len(r) = Len(q) + 1 /\ r[Len(q) + 1] = s
      /\ \A i \in 1..Len(q) : r[i] = q[i]
  <2> HIDE DEF q
  <2> QED
    BY <1>1, AppendProperties
<1> HIDE DEF r, u, n
<1>4. /\ n \in BrokerRecord /\ n.orders = r /\ n.used = u /\ n.pos = replay.pos /\ n.now = replay.now
      /\ n.balance = replay.balance /\ n.ledger = replay.ledger
  BY <1>1, <1>2, <1>3 DEF BrokerRecord, u
<1>5. \A i \in 1..Len(r) : (i \in 1..Len(q) /\ r[i] = q[i]) \/ (i = Len(q) + 1 /\ r[i] = s)
  BY <1>1, <1>3
<1>6. \A i \in 1..Len(q) : q[i] \in replay.used /\ q[i] \notin DOMAIN replay.pos
  BY DEF ReplayInv, OrdersWait
<1>7. DOMAIN replay.pos \subseteq replay.used /\ Once(q)
  BY DEF ReplayInv, OrdersWait
<1>8. OrdersWait(n)
  <2>1. Once(r)
    BY <1>2, <1>5, <1>6, <1>7 DEF Once
  <2> QED
    BY <1>2, <1>4, <1>5, <1>6, <1>7, <2>1 DEF OrdersWait, u
<1>9. BrokerShape(n) /\ BooksHold(n)
  BY <1>4 DEF ReplayInv, BrokerShape, BooksHold, Live
<1> QED
  BY <1>8, <1>9 DEF ReplayInv, n

\* A cancelled order no longer waits; its signal stays used.
LEMMA CancelKeeps ==
  ASSUME ReplayInv(replay), NEW s \in Signals, CancelSignalOrder(s)
  PROVE  ReplayInv(replay')
<1> DEFINE q == replay.orders
           r == RemoveFirst(q, s)
           n == replay'
<1>1. replay \in BrokerRecord /\ q \in Seq(Signals) /\ Once(q)
  BY DEF ReplayInv, BrokerShape, BrokerRecord, OrdersWait
<1>2. n = [replay EXCEPT !.orders = r]
  BY DEF CancelSignalOrder
<1>3. \E i \in 1..Len(q) : q[i] = s
  <2>1. s \in ToSet(q)
    BY DEF CancelSignalOrder
  <2>2. DOMAIN q = 1..Len(q)
    BY <1>1
  <2> QED
    BY <2>1, <2>2 DEF ToSet
<1> HIDE DEF q
<1>4. r \in Seq(Signals) /\ Once(r) /\ \A i \in 1..Len(r) : \E j \in 1..Len(q) : r[i] = q[j]
  <2>1. r \in Seq(Signals) /\ Once(r) /\ Without(r, q, s)
    BY <1>1, <1>3, TakenOut
  <2> QED
    BY <2>1 DEF Without
<1> HIDE DEF r, n
<1>5. /\ n \in BrokerRecord /\ n.orders = r /\ n.used = replay.used /\ n.pos = replay.pos
      /\ n.now = replay.now /\ n.balance = replay.balance /\ n.ledger = replay.ledger
  BY <1>1, <1>2, <1>4 DEF BrokerRecord
<1>6. OrdersWait(n)
  BY <1>4, <1>5 DEF ReplayInv, OrdersWait, q
<1>7. BrokerShape(n) /\ BooksHold(n)
  BY <1>5 DEF ReplayInv, BrokerShape, BooksHold, Live
<1> QED
  BY <1>6, <1>7 DEF ReplayInv, n

\* Funding moves the account and what the live position has realized alike.
LEMMA FundingKeeps ==
  ASSUME ReplayInv(replay), NEW rate \in FundingRates, ProcessFunding(rate)
  PROVE  ReplayInv(replay')
<1> DEFINE s == replay.now
           p == replay.pos[s]
           due == -rate * p.mark * p.left
           q == [p EXCEPT !.realized = @ + due]
           m == Held(replay, s, q)
           n == replay'
<1>1. Live(replay) /\ s \in DOMAIN replay.pos /\ s # NoPosition /\ p.open
  BY DEF ProcessFunding, Live, ReplayInv, BrokerShape
<1>2. replay \in BrokerRecord /\ replay.balance \in Int /\ p \in TradeRecord
      /\ p.left <= p.initial /\ Net(p) \in Int
  BY <1>1, TrackedIs
<1>3. n = [replay EXCEPT !.balance = @ + due, !.pos = With(@, s, q), !.fundings = @ + 1]
  BY DEF ProcessFunding
<1>4. due \in Int
  <2>1. rate \in Int /\ p.mark \in Int /\ p.left \in Int
    BY <1>2, ReplayAssumption DEF TradeRecord
  <2>2. \A i, j \in Int : i * j \in Int /\ -i \in Int
    OBVIOUS
  <2> HIDE DEF p
  <2> QED
    BY <2>1, <2>2
<1>5. p.stopLots = p.left
  BY <1>1 DEF ReplayInv, BooksHold
<1> HIDE DEF due, p
<1>6. /\ q \in TradeRecord /\ q.left <= q.initial /\ q.open /\ q.stopLots = q.left
      /\ Net(q) = Net(p) + due
  <2> DEFINE r == p.realized + due
  <2>1. p.realized \in Int /\ p.fees \in Int
    BY <1>2 DEF TradeRecord
  <2>2. r \in Int /\ r - p.fees = p.realized - p.fees + due
    BY <1>4, <2>1
  <2>3. q = [p EXCEPT !.realized = r]
    OBVIOUS
  <2> HIDE DEF r, q
  <2>4. /\ q \in TradeRecord /\ q.left = p.left /\ q.initial = p.initial /\ q.open = p.open
        /\ q.stopLots = p.stopLots /\ q.realized = r /\ q.fees = p.fees
    BY <1>2, <2>2, <2>3 DEF TradeRecord
  <2> QED
    BY <1>1, <1>2, <1>5, <2>2, <2>4 DEF Net
<1> HIDE DEF q
<1>7. ReplayInv(m)
  BY <1>1, <1>6, HeldKeeps
<1>8. replay.balance - Net(replay.pos[s]) + Net(q) = replay.balance + due
  <2>1. replay.pos[s] = p
    BY DEF p
  <2> QED
    BY <1>2, <1>4, <1>6, <2>1
<1> DEFINE x == replay.balance + due
           f == With(replay.pos, s, q)
<1>9. n = [replay EXCEPT !.balance = x, !.pos = f, !.fundings = @ + 1]
  BY <1>3
<1>10. m = [replay EXCEPT !.balance = x, !.pos = f]
  BY <1>8 DEF Held
<1> HIDE DEF n, m, x, f
<1>11. n = [m EXCEPT !.fundings = @ + 1] /\ m \in BrokerRecord
  BY <1>2, <1>7, <1>9, <1>10 DEF BrokerRecord, ReplayInv, BrokerShape
<1>12. /\ n \in BrokerRecord /\ n.orders = m.orders /\ n.used = m.used /\ n.pos = m.pos
       /\ n.now = m.now /\ n.balance = m.balance /\ n.ledger = m.ledger
  BY <1>11 DEF BrokerRecord
<1>13. BrokerShape(n) /\ OrdersWait(n) /\ BooksHold(n)
  BY <1>7, <1>12 DEF ReplayInv, BrokerShape, OrdersWait, BooksHold, Live
<1> QED
  BY <1>13 DEF ReplayInv, n

\* ReplayInv is inductive.
LEMMA ReplayKeeps ==
  ASSUME ReplayInv(replay), [SmcNext]_replay
  PROVE  ReplayInv(replay')
<1>1. CASE \E s \in Signals : SubmitTradeSignal(s) \/ CancelSignalOrder(s)
  BY <1>1, SubmitKeeps, CancelKeeps
<1>2. CASE \E c \in ReplayCandles : ProcessCandle(c)
  <2>1. PICK c \in ReplayCandles : ProcessCandle(c)
    BY <1>2
  <2>2. c \in CandleRecords
    BY ReplayAssumption DEF CandleRecords
  <2> DEFINE x == Exits(replay, c)
  <2>3. ReplayInv(x)
    BY <2>2, ExitsKeep
  <2>4. replay' = Entries(x, c)
    BY <2>1 DEF ProcessCandle
  <2> HIDE DEF x
  <2> QED
    BY <2>2, <2>3, <2>4, EntriesKeep
<1>3. CASE \E rate \in FundingRates : ProcessFunding(rate)
  BY <1>3, FundingKeeps
<1>4. CASE SmcReset
  BY <1>4, FreshKeeps DEF SmcReset
<1>5. CASE UNCHANGED replay
  BY <1>5
<1> QED
  BY <1>1, <1>2, <1>3, <1>4, <1>5 DEF SmcNext

\* What the invariant says of the account, the record of trades and the stop is
\* the property the run checks.
LEMMA ReplayInvTells ==
  ASSUME ReplayInv(replay)
  PROVE  ReplayBooksAgree /\ SmcTypeOK
<1>1. replay \in BrokerRecord /\ replay.pos \in Positions /\ IsFiniteSet(DOMAIN replay.pos)
  BY DEF ReplayInv, BrokerShape, BrokerRecord
<1>2. replay.balance = SumOver(Tracks(replay),
                         LAMBDA s : replay.pos[s].realized - replay.pos[s].fees)
  <2> DEFINE f == replay.pos
  <2> HIDE DEF f
  <2>1. SumOver(DOMAIN f, LAMBDA s : f[s].realized - f[s].fees) = Total(f)
    BY <1>1, SumOverIs DEF f
  <2> QED
    BY <2>1 DEF ReplayInv, BooksHold, Tracks, f
<1>3. \A s \in Tracks(replay) : ~replay.pos[s].open =>
        replay.ledger[s] = [open |-> FALSE, gross |-> replay.pos[s].realized,
                            fees |-> replay.pos[s].fees]
  <2>1. SUFFICES ASSUME NEW s \in DOMAIN replay.pos, ~replay.pos[s].open
        PROVE  replay.ledger[s] = [open |-> FALSE, gross |-> replay.pos[s].realized,
                                   fees |-> replay.pos[s].fees]
    BY DEF Tracks
  <2>2. replay.pos[s] \in TradeRecord
    BY TrackedIs
  <2>3. replay.pos[s].open = FALSE
    BY <2>1, <2>2 DEF TradeRecord
  <2>4. replay.ledger[s] = EntryOf(replay.pos[s])
    BY <2>1 DEF ReplayInv, BooksHold
  <2> QED
    BY <2>3, <2>4 DEF EntryOf
<1>4. ReplayBooksAgree
  BY <1>2, <1>3 DEF ReplayBooksAgree, ReplayInv, BooksHold
<1>5. ToSet(replay.orders) \subseteq replay.used
      /\ Tracks(replay) \subseteq replay.used \ ToSet(replay.orders)
  <2>1. replay.orders \in Seq(Signals)
    BY <1>1 DEF BrokerRecord
  <2>2. ToSet(replay.orders) = {replay.orders[i] : i \in 1..Len(replay.orders)}
    BY <2>1 DEF ToSet
  <2> QED
    BY <2>2 DEF ReplayInv, OrdersWait, Tracks
<1>6. \A s \in Tracks(replay) : replay.pos[s].left \in 0..replay.pos[s].initial
  <2>1. SUFFICES ASSUME NEW s \in DOMAIN replay.pos
        PROVE  replay.pos[s].left \in 0..replay.pos[s].initial
    BY DEF Tracks
  <2>2. replay.pos[s].left \in Nat /\ replay.pos[s].initial \in Nat
        /\ replay.pos[s].left <= replay.pos[s].initial
    BY TrackedIs DEF TradeRecord
  <2> QED
    BY <2>2
<1>7. /\ replay.used \subseteq Signals /\ DOMAIN replay.ledger = Tracks(replay)
      /\ replay.now \in Tracks(replay) \union {NoPosition} /\ replay.balance \in Int
  BY <1>1 DEF ReplayInv, BrokerShape, BrokerRecord, Tracks
<1> QED
  BY <1>4, <1>5, <1>6, <1>7 DEF SmcTypeOK

\* SmcPaperBroker, for every plan, candle and funding rate: the state has its type.
THEOREM ReplayTypeCorrect == SmcSpec => []SmcTypeOK
<1>1. SmcInit => ReplayInv(replay)
  BY FreshKeeps DEF SmcInit
<1>2. ReplayInv(replay) /\ [SmcNext]_replay => ReplayInv(replay)'
  BY ReplayKeeps
<1>3. ReplayInv(replay) => SmcTypeOK
  BY ReplayInvTells
<1> QED
  BY <1>1, <1>2, <1>3, PTL DEF SmcSpec

\* SmcPaperBroker, for every plan, candle and funding rate: the account holds what
\* the positions realized less their fees, closed trades are booked as they ended,
\* and the stop of the live position is for what is left of it.
THEOREM ReplayBooksHold == SmcSpec => []ReplayBooksAgree
<1>1. SmcInit => ReplayInv(replay)
  BY FreshKeeps DEF SmcInit
<1>2. ReplayInv(replay) /\ [SmcNext]_replay => ReplayInv(replay)'
  BY ReplayKeeps
<1>3. ReplayInv(replay) => ReplayBooksAgree
  BY ReplayInvTells
<1> QED
  BY <1>1, <1>2, <1>3, PTL DEF SmcSpec
=============================================================================
