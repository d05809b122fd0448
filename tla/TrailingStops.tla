----------------------------- MODULE TrailingStops -----------------------------
(***************************************************************************)
(* TrailingStopController and TrailingStopManager: a resting stop of a     *)
(* position is moved behind the price by placing its replacement and then  *)
(* canceling it, with every trade of the stream starting a pass of its own *)
(* that reads the position, the open orders, and the broker's answers      *)
(* across awaits.                                                          *)
(*                                                                         *)
(* One symbol and the long side (a short is its mirror image, and the take *)
(* profit is moved the same way).  Prices are steps of profit above the    *)
(* entry, the entry being 0.                                               *)
(*                                                                         *)
(* A definition with an underscore in its name is a plausible slip in the  *)
(* definition it is named after: no action uses it.                        *)
(***************************************************************************)
EXTENDS Integers, Sequences, SequencesExt, FiniteSetsExt

CONSTANTS
  Passes,               \* calls of onPrice that may be under way at once
  MaxPrice,             \* bound: steps of profit
  Activation,           \* activationThresholdPct
  Distance,             \* trailingDistancePct
  Breakeven,            \* breakevenTriggerPct
  MaxStops              \* bound: stops placed in the life of a position

ASSUME TrailingAssumption ==
  /\ MaxPrice \in Nat /\ MaxStops \in Nat
  /\ Activation \in Nat /\ Distance \in Nat \ {0} /\ Breakeven \in Nat

VARIABLES
  trade,                \* whether the position is open
  stops,                \* its reduce-only stops in order of placing: trigger, resting
  tracker,              \* the manager's, of the position; or NoTracker
  moving,               \* inFlight
  throttled,            \* lastUpdateAt less than minUpdateIntervalMs ago
  pass                  \* each call of onPrice: where it is and what it holds

trailVars == <<trade, stops, tracker, moving, throttled, pass>>

Prices == 0..MaxPrice
InitialStop == -Distance
NoTracker == [high |-> -1, even |-> FALSE]
Idle == [pc |-> "idle", price |-> 0, old |-> 0, trigger |-> 0]

RestingStops == {i \in DOMAIN stops : stops[i].resting}
FirstStop == Min(RestingStops)
\* The price at which the position is certainly out.
Protection ==
  IF RestingStops = {} THEN -(Distance + 1) ELSE Max({stops[i].trigger : i \in RestingStops})

TrailInit ==
  /\ trade = FALSE
  /\ stops = <<>>
  /\ tracker = NoTracker
  /\ moving = FALSE /\ throttled = FALSE
  /\ pass = [p \in Passes |-> Idle]
-----------------------------------------------------------------------------
(* TrailingStopManager *)

\* trackFavorablePrice: a new tracker starts at the entry.
Tracked(price) ==
  [tracker EXCEPT !.high = Max({@, 0, price})]

\* updateStopLoss: break even once, then Distance behind the best price; a stop
\* never moves back.  The tracker after it, and the trigger it asks for.
UpdateStopLoss_Loosens(price, current) ==
  LET t == Tracked(price)
  IN  IF price >= Breakeven /\ ~t.even
      THEN [to |-> [t EXCEPT !.even = TRUE], move |-> current # 0, trigger |-> 0]
      ELSE [to |-> t, move |-> price >= Activation /\ t.high - Distance > current,
            trigger |-> t.high - Distance]
UpdateStopLoss(price, current) ==
  LET t == Tracked(price)
  IN  IF price >= Breakeven /\ ~t.even
      THEN [to |-> [t EXCEPT !.even = TRUE], move |-> 0 > current, trigger |-> 0]
      ELSE [to |-> t, move |-> price >= Activation /\ t.high - Distance > current,
            trigger |-> t.high - Distance]
-----------------------------------------------------------------------------
(* TrailingStopController.onPrice *)

StartPass(p, price) ==
  /\ pass[p].pc = "idle" /\ ~moving /\ ~throttled
  /\ pass' = [pass EXCEPT ![p] = [Idle EXCEPT !.pc = "position", !.price = price]]
  /\ UNCHANGED <<trade, stops, tracker, moving, throttled>>

Forget == tracker' = NoTracker /\ throttled' = FALSE

PositionRead(p) ==
  /\ pass[p].pc = "position"
  /\ IF trade
     THEN /\ pass' = [pass EXCEPT ![p].pc = "orders"]
          /\ UNCHANGED <<tracker, throttled>>
     ELSE /\ pass' = [pass EXCEPT ![p] = Idle]
          /\ Forget
  /\ UNCHANGED <<trade, stops, moving>>

\* The orders are read, and the first stop found put to the manager.  inFlight is
\* set only here: passes that got past StartPass together all come to move it.
OrdersRead(p) ==
  /\ pass[p].pc = "orders"
  /\ IF RestingStops = {}
     THEN pass' = [pass EXCEPT ![p] = Idle] /\ UNCHANGED <<tracker, moving>>
     ELSE LET u == UpdateStopLoss(pass[p].price, stops[FirstStop].trigger)
          IN  /\ tracker' = u.to
              /\ moving' = u.move
              /\ pass' = [pass EXCEPT ![p] =
                   IF u.move THEN [@ EXCEPT !.pc = "placing", !.old = FirstStop,
                                            !.trigger = u.trigger]
                   ELSE Idle]
  /\ UNCHANGED <<trade, stops, throttled>>

Ends(p) == pass' = [pass EXCEPT ![p] = Idle] /\ moving' = FALSE

ReplacementPlaced_CancelsFirst(p) ==
  /\ pass[p].pc = "placing"
  /\ stops' = [i \in DOMAIN stops |-> [stops[i] EXCEPT !.resting = @ /\ i # pass[p].old]]
  /\ pass' = [pass EXCEPT ![p].pc = "replacing"]
  /\ UNCHANGED <<trade, tracker, moving, throttled>>
\* submitReplacementOrder: the broker takes the order, for the position of now.
ReplacementPlaced(p) ==
  /\ pass[p].pc = "placing"
  /\ trade /\ Len(stops) < MaxStops
  /\ stops' = Append(stops, [trigger |-> pass[p].trigger, resting |-> TRUE])
  /\ pass' = [pass EXCEPT ![p].pc = "replacing"]
  /\ UNCHANGED <<trade, tracker, moving, throttled>>

\* It is rejected, or throws: the original stays.
ReplacementRefused(p) ==
  /\ pass[p].pc = "placing"
  /\ Ends(p)
  /\ UNCHANGED <<trade, stops, tracker, throttled>>

\* The original is canceled, unless it is gone; or the cancel throws and it stays.
OriginalCanceled(p, ok) ==
  /\ pass[p].pc = "replacing"
  /\ stops' = [i \in DOMAIN stops |->
                  [stops[i] EXCEPT !.resting = @ /\ ~(ok /\ i = pass[p].old)]]
  /\ throttled' = (throttled \/ ok)
  /\ Ends(p)
  /\ UNCHANGED <<trade, tracker>>
-----------------------------------------------------------------------------
(* What surrounds it *)

\* An entry fills; its stop is placed by the executor after it.
PositionOpens ==
  /\ ~trade
  /\ trade' = TRUE
  /\ UNCHANGED <<stops, tracker, moving, throttled, pass>>

EntryStopPlaced ==
  /\ trade /\ RestingStops = {} /\ Len(stops) < MaxStops
  /\ stops' = Append(stops, [trigger |-> InitialStop, resting |-> TRUE])
  /\ UNCHANGED <<trade, tracker, moving, throttled, pass>>

\* A stop, a target, an exit: the broker cancels what rests for the position, and
\* an order some pass holds is gone (0).
PositionCloses ==
  /\ trade
  /\ trade' = FALSE
  /\ stops' = <<>>
  /\ pass' = [p \in Passes |-> [pass[p] EXCEPT !.old = 0]]
  /\ UNCHANGED <<tracker, moving, throttled>>

\* The agent believes it has closed the position (see CloseDropped in Agent).
ForgetAfterExit ==
  /\ Forget
  /\ UNCHANGED <<trade, stops, moving, pass>>

IntervalOver ==
  /\ throttled
  /\ throttled' = FALSE
  /\ UNCHANGED <<trade, stops, tracker, moving, pass>>

TrailNext ==
  \/ \E p \in Passes :
       \/ \E price \in Prices : StartPass(p, price)
       \/ PositionRead(p) \/ OrdersRead(p)
       \/ ReplacementPlaced(p) \/ ReplacementRefused(p)
       \/ \E ok \in BOOLEAN : OriginalCanceled(p, ok)
  \/ PositionOpens \/ EntryStopPlaced \/ PositionCloses
  \/ ForgetAfterExit \/ IntervalOver

TrailSpec == TrailInit /\ [][TrailNext]_trailVars
-----------------------------------------------------------------------------
(* Properties *)

\* The state has its type.
TrailTypeOK ==
  /\ trade \in BOOLEAN
  /\ stops \in Seq([trigger: InitialStop..MaxPrice, resting: BOOLEAN])
  /\ Len(stops) <= MaxStops
  /\ tracker \in [high: -1..MaxPrice, even: BOOLEAN]
  /\ moving \in BOOLEAN /\ throttled \in BOOLEAN
  /\ \A p \in Passes :
       /\ pass[p].pc \in {"idle", "position", "orders", "placing", "replacing"}
       /\ pass[p].pc \in {"placing", "replacing"} => pass[p].old \in {0} \union DOMAIN stops

\* While a position lives, whatever passes overlap, brokers refuse and trackers are
\* lost, the price at which its stops take it out never falls back: it is not left
\* without the stop it had, nor with a looser one.
ProtectionOnlyTightens ==
  [][trade /\ trade' => Protection' >= Protection]_trailVars
=============================================================================
