------------------------------ MODULE Exposure ------------------------------
(***************************************************************************)
(* What an entry commits and who lets it: the regime overlay and the trade *)
(* plan of the autonomous agent (src/analysis/MarketRegimeDetector.ts,     *)
(* src/risk/AdaptiveRiskManager.ts), the learning multiplier, the          *)
(* correlation guard (src/risk/PortfolioCorrelationGuard.ts) with the      *)
(* pyramid adds that ask it too, and the account limits of the risk engine *)
(* behind the SMC agent (src/trading/risk).  Agent has the cycle these     *)
(* decisions sit in; here a scan is the list it reads, the decision and,   *)
(* an await later, the fill.  The SMC agent decides on several symbols at  *)
(* once; between its check and its fill there are awaits too.  To either   *)
(* agent the other is one of the other strategies, so that only one of     *)
(* them is in the middle of decisions.                                     *)
(*                                                                         *)
(* Money is in units of which the account has thousands, distances are     *)
(* basis points of Price, multipliers and percentages per hundred.         *)
(***************************************************************************)
EXTENDS Integers, FiniteSets, FiniteSetsExt, Functions

CONSTANTS
  Assets,
  Correlations,         \* functions from pairs of assets: 1 they move together, -1 against, 0 neither
  Readings,             \* features of the market the detector may see
  Charts,               \* what a plan is made of: ATR, and the setup's stop and target or None
  Records,              \* the tracker's record: enough trades, win rate, streak of losses
  WinRates,             \* win rates of the current regime; None: too few trades
  StopDistances,        \* of the SMC agent's plans
  EquityLevels,         \* what the account may be worth when it is read
  CapPct,               \* maxCorrelatedExposurePct
  MaxPositions,         \* maxOpenPositions, of the agent and of the risk engine
  OtherSize, OtherRisks,  \* what other strategies open, and its loss at its stop; 0 without one
  FillPrices,           \* where a market order planned at Price may fill
  MaxHeld               \* bound: positions held at once

ASSUME ExposureAssumption ==
  /\ IsFiniteSet(Assets) /\ IsFiniteSet(EquityLevels)
  /\ EquityLevels \subseteq Nat /\ EquityLevels # {}
  /\ CapPct \in Nat /\ MaxPositions \in Nat /\ OtherSize \in Nat /\ MaxHeld \in Nat
  /\ \A r \in Correlations : \A a, b \in Assets : a # b => r[{a, b}] \in {-1, 0, 1}
  /\ Charts \subseteq [atr: Nat, stop: Int, target: Int]
  /\ Records \subseteq [enough: BOOLEAN, wins: 0..100, streak: Nat]
  /\ FillPrices \subseteq Nat
  /\ WinRates \subseteq Int /\ StopDistances \subseteq Nat \ {0} /\ OtherRisks \subseteq Nat

VARIABLES
  book,                 \* positions: side, notional, leverage, risk: their loss at their stop
  rho,                  \* the correlations the candles show
  scan,                 \* the agent's cycle; history: the assets it entered, and the margin
                        \* that has come to each asset since the list was read
  desk                  \* the SMC agent, by symbol: in its debate, and past its check; history:
                        \* the risk that has come to each asset since the check

exposureVars == <<book, rho, scan, desk>>

None == -1
Price == 10000
TradeSides == {-1, 1}

\* RiskConfig, the environment's defaults.
BaseRisk == 1
MaxLeverage == 10
DefaultLeverage == 5
MaxAccountRisk == 5
MaxNotionalPerTrade == 50000

Flat == [side |-> 0, notional |-> 0, leverage |-> 1, risk |-> 0]
Held(a) == book[a].side # 0
HeldAssets == {a \in Assets : Held(a)}
Margin(position) == position.notional \div position.leverage
MarginOf(a) == Margin(book[a])
RiskAtStop(a) == book[a].risk
-----------------------------------------------------------------------------
(* Regime, learning, plan *)

\* MarketRegimeDetector.classify: the first that fits.
Classify(f) ==
  IF f.trend = "strong" /\ f.driven THEN "TRENDING_STRONG"
  ELSE IF f.trend = "medium" /\ f.volatility # "high" THEN "TRENDING_NORMAL"
  ELSE IF f.volatility = "high" /\ f.wide THEN "VOLATILE_BREAKOUT"
  ELSE IF f.volatility = "low" /\ f.trend = "weak" THEN "RANGING_LOW_VOL"
  ELSE IF f.volatility = "high" /\ f.trend = "weak" THEN "RANGING_HIGH_VOL"
  ELSE "TRANSITIONING"

\* getAdaptation: size and distances per hundred, the ratio per ten.
Adaptation ==
  [TRENDING_STRONG  |-> [size |-> 120, stop |-> 200, target |-> 600, minRR |-> 25, leverage |-> 10],
   TRENDING_NORMAL  |-> [size |-> 100, stop |-> 175, target |-> 450, minRR |-> 20, leverage |-> 8],
   RANGING_LOW_VOL  |-> [size |-> 70,  stop |-> 125, target |-> 250, minRR |-> 15, leverage |-> 5],
   RANGING_HIGH_VOL |-> [size |-> 50,  stop |-> 175, target |-> 300, minRR |-> 15, leverage |-> 3],
   VOLATILE_BREAKOUT |-> [size |-> 80, stop |-> 250, target |-> 550, minRR |-> 20, leverage |-> 6],
   TRANSITIONING    |-> [size |-> 60,  stop |-> 150, target |-> 300, minRR |-> 18, leverage |-> 4]]

Between(lo, x, hi) == Max({lo, Min({x, hi})})

\* suggestRiskMultiplier: at most a step from one, towards what the win rate
\* earns; one in a streak of three.
Suggested(r) ==
  LET target == 50 + Between(0, 2 * r.wins - 100, 100)
  IN  IF ~r.enough \/ r.streak >= 3 THEN 100
      ELSE 100 + Between(-10, target - 100, 10)
\* CircuitBreaker.check: a longer streak halves what the agent commits.
Dampened(r) == IF r.streak >= 5 THEN 50 ELSE 100

RegimeBias(wins) == IF wins = None THEN 100 ELSE Between(50, 2 * wins, 150)

\* computeTradePlan: the setup's stop and target where they are on their side of
\* the entry and the stop is not too tight; else the regime's distances.
Distances(side, regime, chart) ==
  LET a == Adaptation[regime]
      away == side * (Price - chart.stop)
      ahead == side * (chart.target - Price)
  IN  [stop |-> IF chart.stop # None /\ away > 0 /\ 4 * away >= chart.atr
                THEN away ELSE (chart.atr * a.stop) \div 100,
       target |-> IF chart.target # None /\ ahead > 0
                  THEN ahead ELSE (chart.atr * a.target) \div 100]
RoundTripCost == (Price * 8) \div 10000

\* The distances pay for the round trip, and for the risk after it.
Worthwhile(regime, d) ==
  /\ d.stop > 0 /\ d.stop >= 4 * RoundTripCost
  /\ 10 * (d.target - RoundTripCost) >= Adaptation[regime].minRR * (d.stop + RoundTripCost)

\* positionSizing, one implementation for the guard and for the order.
TradePlan(side, regime, chart, wins, funds, multiplier) ==
  LET d == Distances(side, regime, chart)
      size == Max({10, (Adaptation[regime].size * RegimeBias(wins)) \div 100})
      risked == (((funds * BaseRisk) \div 100) * size * multiplier) \div 10000
  IN  [side |-> side, notional |-> (risked * Price) \div d.stop,
       leverage |-> Min({Adaptation[regime].leverage, MaxLeverage}), risk |-> risked]
-----------------------------------------------------------------------------
(* The correlation guard *)

\* evaluate: a position whose gains and losses go with the candidate's; one of
\* the other side, or that moves against it, is a hedge and is not counted.
Compounding(a, side, b) == side * book[b].side * rho[{a, b}] = 1
Cluster(a, side, among) == {b \in among \ {a} : Compounding(a, side, b)}

Fits_OwnMarginOnly(a, side, margin, among, funds) == 100 * margin <= CapPct * funds
Fits(a, side, margin, among, funds) ==
  100 * (margin + MapThenSumSet(MarginOf, Cluster(a, side, among))) <= CapPct * funds
-----------------------------------------------------------------------------
(* The agent *)

Resting == [pc |-> "idle", todo |-> {}, seen |-> {}, funds |-> 0, multiplier |-> 0,
            of |-> {}, plan |-> Flat, entered |-> {}, since |-> [a \in Assets |-> 0]]

NotAsking == [pc |-> "idle", funds |-> 0, plan |-> Flat, atStop |-> 0, since |-> [a \in Assets |-> 0]]
NobodyAsks == \A a \in Assets : desk[a].pc = "idle"

ExposureInit ==
  /\ book = [a \in Assets |-> Flat]
  /\ rho \in Correlations
  /\ scan = Resting
  /\ desk = [a \in Assets |-> NotAsking]

\* The exits are over: the account and the positions are read, once for the scan.
BeginScan(r, equity) ==
  /\ scan.pc = "idle" /\ NobodyAsks
  /\ scan' = [Resting EXCEPT !.pc = "scanning", !.todo = Assets, !.seen = HeldAssets,
                !.funds = equity, !.multiplier = (Suggested(r) * Dampened(r)) \div 100]
  /\ UNCHANGED <<book, rho, desk>>

Enterable(a) == a \notin scan.seen \/ ~Held(a)

\* No setup, no plan worth its cost, no room in the cluster, a cooldown.
PassBy(a) ==
  /\ scan.pc = "scanning" /\ a \in scan.todo
  /\ scan' = [scan EXCEPT !.todo = @ \ {a}]
  /\ UNCHANGED <<book, rho, desk>>

\* A ready setup: plan, guard, then the debate.
TakeUp(a, side, reading, chart, wins) ==
  /\ scan.pc = "scanning" /\ a \in scan.todo /\ Enterable(a)
  /\ Cardinality(scan.seen) < MaxPositions
  /\ LET regime == Classify(reading)
         plan == TradePlan(side, regime, chart, wins, scan.funds, scan.multiplier)
     IN  /\ regime # "TRANSITIONING"
         /\ Worthwhile(regime, Distances(side, regime, chart))
         /\ scan.funds > 0 =>
              Fits(a, side, Margin(plan), scan.seen, scan.funds)
         /\ plan.notional > 0
         /\ scan' = [scan EXCEPT !.pc = "asking", !.of = {a}, !.plan = plan]
  /\ UNCHANGED <<book, rho, desk>>

\* evaluateScaleIn: half of a winning position more, with room in the cluster
\* for both.  The engine refuses it, because the position is open: all it does is
\* keep the next add waiting.
PyramidAdd(a, reading, chart, equity) ==
  /\ scan.pc = "scanning" /\ a \in scan.todo /\ ~Enterable(a)
  /\ LET regime == Classify(reading)
         margin == book[a].notional \div (2 * Min({Adaptation[regime].leverage, MaxLeverage}))
     IN  /\ Worthwhile(regime, Distances(book[a].side, regime, [chart EXCEPT !.stop = None, !.target = None]))
         /\ Fits(a, book[a].side, margin + MarginOf(a), HeldAssets, equity)
  /\ scan' = [scan EXCEPT !.todo = @ \ {a}]
  /\ UNCHANGED <<book, rho, desk>>

\* The quantity was sized at the planned price; a market order fills where the
\* market is, and the stop stays where it was.
Filled(plan, price) ==
  LET notional == (plan.notional * price) \div Price
      risk == plan.risk + plan.side * (notional - plan.notional)
  IN  [plan EXCEPT !.notional = notional, !.risk = Max({risk, -risk})]

\* A fill against what the book holds: opens, or nets the other side.
Netted(old, new) ==
  IF old.side = 0 THEN new
  ELSE IF new.notional > old.notional
  THEN [new EXCEPT !.notional = @ - old.notional,
                   !.risk = (@ * (new.notional - old.notional)) \div new.notional]
  ELSE IF new.notional = old.notional THEN Flat
  ELSE [old EXCEPT !.notional = @ - new.notional,
                   !.risk = (@ * (old.notional - new.notional)) \div old.notional]

RoomLeft == Cardinality(HeldAssets) < MaxHeld
Excess(now, planned) == Max({0, now - planned})

\* The debate vetoes or the engine refuses (the side that is open already); or
\* the order fills.
AgentFills(a, price) ==
  /\ scan.pc = "asking" /\ a \in scan.of /\ RoomLeft
  /\ book[a].side # scan.plan.side
  /\ LET position == Netted(book[a], Filled(scan.plan, price)) IN
       /\ book' = [book EXCEPT ![a] = position]
       /\ scan' = [scan EXCEPT !.pc = "scanning", !.todo = @ \ {a}, !.of = {}, !.plan = Flat,
                      !.entered = @ \union {a},
                      !.since[a] = Excess(Margin(position), Margin(scan.plan))]
  /\ UNCHANGED <<rho, desk>>
AgentRefused(a) ==
  /\ scan.pc = "asking" /\ a \in scan.of
  /\ scan' = [scan EXCEPT !.pc = "scanning", !.todo = @ \ {a}, !.of = {}, !.plan = Flat]
  /\ UNCHANGED <<book, rho, desk>>

EndScan ==
  /\ scan.pc = "scanning" /\ scan.todo = {}
  /\ scan' = Resting
  /\ UNCHANGED <<book, rho, desk>>
-----------------------------------------------------------------------------
(* The SMC agent and the risk engine *)

\* The history: to who has read the book already, the asset holds something new.
ScanSaw(a) ==
  scan' = IF scan.pc = "idle" THEN scan
          ELSE [scan EXCEPT !.entered = @ \ {a}, !.since[a] = Margin(book'[a])]
DeskSaw(a, open) ==
  desk' = [b \in Assets |-> IF open[b].pc \notin {"approved", "filled"} THEN open[b]
                            ELSE [open[b] EXCEPT !.since[a] = book'[a].risk]]

DeskPlan(side, distance, funds) ==
  LET risked == (funds * BaseRisk) \div 100
      notional == Min({(risked * Price) \div distance, funds * DefaultLeverage})
  IN  [side |-> side, notional |-> notional, leverage |-> DefaultLeverage,
       risk |-> (notional * distance) \div Price]

\* The plan is made and the account read before the debate; so what only these two
\* decide of the check after it, the margin and the size, is decided here.
DeskAsks(a, side, distance, equity) ==
  /\ scan.pc = "idle" /\ desk[a].pc = "idle"
  /\ LET plan == DeskPlan(side, distance, equity) IN
       /\ plan.notional > 0 /\ plan.notional <= MaxNotionalPerTrade
       /\ Margin(plan) <= equity - MapThenSumSet(MarginOf, HeldAssets)
       /\ desk' = [desk EXCEPT ![a] =
                     [NotAsking EXCEPT !.pc = "asking", !.funds = equity, !.plan = plan]]
  /\ UNCHANGED <<book, rho, scan>>

\* validateSignalRisk, over the positions and stop orders after the debate; a
\* position without a stop order counts as no risk.
DeskApproves(a) ==
  /\ desk[a].pc = "asking"
  /\ ~Held(a) /\ Cardinality(HeldAssets) < MaxPositions
  /\ MapThenSumSet(RiskAtStop, HeldAssets) + (desk[a].funds * BaseRisk) \div 100
       <= (desk[a].funds * MaxAccountRisk) \div 100
  /\ desk' = [desk EXCEPT ![a].pc = "approved"]
  /\ UNCHANGED <<book, rho, scan>>

\* Engine and executor pass the signal on, awaiting the position and the order.  The
\* stop is an order of its own, placed when the entry is answered: until then the
\* position counts as no risk to the other symbols' checks.
DeskFills(a, price) ==
  /\ desk[a].pc = "approved" /\ RoomLeft
  /\ book[a].side # desk[a].plan.side
  /\ LET position == Netted(book[a], Filled(desk[a].plan, price)) IN
       IF position.side = desk[a].plan.side
       THEN /\ book' = [book EXCEPT ![a] = [position EXCEPT !.risk = 0]]
            /\ DeskSaw(a, [desk EXCEPT ![a].pc = "filled", ![a].atStop = position.risk])
       ELSE /\ book' = [book EXCEPT ![a] = position]
            /\ DeskSaw(a, [desk EXCEPT ![a] = NotAsking])
  /\ UNCHANGED <<rho, scan>>
DeskProtects(a) ==
  /\ desk[a].pc = "filled"
  /\ book' = IF book[a].side = desk[a].plan.side
             THEN [book EXCEPT ![a].risk = desk[a].atStop] ELSE book
  /\ DeskSaw(a, [desk EXCEPT ![a] = NotAsking])
  /\ UNCHANGED <<rho, scan>>
DeskAbstains(a) ==
  /\ desk[a].pc \in {"asking", "approved"}
  /\ desk' = [desk EXCEPT ![a] = NotAsking]
  /\ UNCHANGED <<book, rho, scan>>
-----------------------------------------------------------------------------
(* The world: other strategies, which no guard asks, stops *)

OtherEnters(a, side, risk) ==
  /\ ~Held(a) /\ RoomLeft
  /\ book' = [book EXCEPT ![a] =
                [side |-> side, notional |-> OtherSize, leverage |-> DefaultLeverage, risk |-> risk]]
  /\ ScanSaw(a) /\ DeskSaw(a, desk)
  /\ UNCHANGED rho

OtherProtects(a, risk) ==
  /\ Held(a) /\ book[a].risk = 0 /\ desk[a].pc # "filled"
  /\ book' = [book EXCEPT ![a].risk = risk]
  /\ DeskSaw(a, desk)
  /\ UNCHANGED <<rho, scan>>

OtherExits(a) ==
  /\ Held(a)
  /\ book' = [book EXCEPT ![a] = Flat]
  /\ ScanSaw(a) /\ DeskSaw(a, desk)
  /\ UNCHANGED rho

ExposureNext ==
  \/ \E r \in Records, e \in EquityLevels : BeginScan(r, e)
  \/ EndScan
  \/ \E a \in Assets :
       \/ PassBy(a) \/ AgentRefused(a)
       \/ DeskApproves(a) \/ DeskAbstains(a) \/ DeskProtects(a)
       \/ OtherExits(a) \/ \E risk \in OtherRisks : OtherProtects(a, risk)
       \/ \E price \in FillPrices : AgentFills(a, price) \/ DeskFills(a, price)
       \/ \E f \in Readings, c \in Charts :
            \/ \E e \in EquityLevels : PyramidAdd(a, f, c, e)
            \/ \E side \in TradeSides, w \in WinRates : TakeUp(a, side, f, c, w)
       \/ \E side \in TradeSides :
            \/ \E d \in StopDistances, e \in EquityLevels : DeskAsks(a, side, d, e)
            \/ \E risk \in OtherRisks : OtherEnters(a, side, risk)

ExposureSpec == ExposureInit /\ [][ExposureNext]_exposureVars
-----------------------------------------------------------------------------
(* Properties *)

\* The state has its type.
ExposureTypeOK ==
  /\ book \in [Assets -> [side: {-1, 0, 1}, notional: Nat, leverage: Nat \ {0}, risk: Nat]]
  /\ rho \in Correlations
  /\ scan.pc \in {"idle", "scanning", "asking"} /\ Cardinality(scan.of) = (IF scan.pc = "asking" THEN 1 ELSE 0)
  /\ scan.todo \subseteq Assets /\ scan.seen \subseteq Assets /\ scan.entered \subseteq Assets
  /\ scan.since \in [Assets -> Nat]
  /\ \A a \in Assets :
       /\ desk[a].pc \in {"idle", "asking", "approved", "filled"}
       /\ desk[a].since \in [Assets -> Nat]

\* What the guard could not count: of an asset entered in this cycle a cap and the
\* slippage of its fill, of any other what has come to it since the list was read.
Allowance ==
  [b \in Assets |-> (IF b \in scan.entered THEN CapPct * scan.funds ELSE 0) + 100 * scan.since[b]]

\* At the fill: everything that gains and loses with it, nothing left out.
ClusterFits(a) ==
  LET among == Cluster(a, book'[a].side, Assets)
  IN  100 * (Margin(book'[a]) + MapThenSumSet(MarginOf, among))
        <= CapPct * scan.funds + SumFunctionOnSet(Allowance, among)
             + 100 * Excess(Margin(book'[a]), Margin(scan.plan))

\* And all of the account's risk at its stops.
RiskFits(a) ==
  LET others == Assets \ {a}
  IN  100 * (MapThenSumSet(RiskAtStop, others) + book'[a].risk)
        <= MaxAccountRisk * desk[a].funds
             + 100 * (SumFunctionOnSet(desk[a].since, others)
                        + Excess(book'[a].risk, desk[a].plan.risk))

\* How far a check made before an await can be out when the order fills, counting
\* everything that is open then.  An entry of the agent: the margin of all that
\* gains and loses with it is over the cap by no more than one cap for each asset
\* the cycle entered before, what others opened since the list was read, and
\* what the fills cost more than planned.  An entry of the SMC agent, once its stop
\* is placed: the risk at the account's stops is over the limit by no more than what
\* came to them since its check, of its other symbols too, and the slippage.
EntriesFitTheBook ==
  [][\A a \in Assets : book'[a] # book[a] =>
       /\ a \in scan.of /\ scan'.pc = "scanning" /\ book'[a].side = scan.plan.side
            => ClusterFits(a)
       /\ desk[a].pc = "filled" /\ desk'[a].pc = "idle" => RiskFits(a)
    ]_exposureVars
=============================================================================
