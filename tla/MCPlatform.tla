----------------------------- MODULE MCPlatform -----------------------------
(***************************************************************************)
(* Components of the platform that share no state with one another, side   *)
(* by side: a behaviour is one of the part chosen at the start, the others *)
(* staying as they were initialised, and the network down where the link   *)
(* is not the part that runs.                                              *)
(***************************************************************************)
EXTENDS Agent, TrailingStops, SmcReplay, LiveLink, Debate, EventLog, Governors, Setups, Exposure, Feed,
        Scenarios, Backtest

CONSTANTS s1, s2, A, B
VARIABLE part

\* Two longs whose stop and targets a few candles reach, gap over and share.
MCPlan ==
  [s \in Signals |->
     IF s = A THEN [lots |-> 4, entry |-> 5, stop |-> 4, targets |-> <<6, 7, 7>>]
     ELSE [lots |-> 2, entry |-> 5, stop |-> 3, targets |-> <<6, 6, 7>>]]
MCCandles ==
  {[open |-> 5, high |-> 5, low |-> 5, close |-> 5, volume |-> v] : v \in {1, 9}}
  \union {[open |-> 5, high |-> 7, low |-> 3, close |-> 5, volume |-> v] : v \in {1, 9}}
  \union {[open |-> o, high |-> 7, low |-> 5, close |-> 6, volume |-> 9] : o \in {5, 7}}
  \union {[open |-> o, high |-> 5, low |-> 3, close |-> 4, volume |-> v] : o \in {3, 5}, v \in {1, 9}}
MCRates == {-1, 1}

\* The three personas of tradingAgents.ts, and proposals on, under and over their limits.
MCPersonas == {"SAFE", "NEUTRAL", "RISKY"}
MCCeiling == [who \in MCPersonas |->
  CASE who = "SAFE" -> [leverage |-> 3, size |-> 5, confidence |-> 65]
    [] who = "NEUTRAL" -> [leverage |-> 5, size |-> 10, confidence |-> 55]
    [] who = "RISKY" -> [leverage |-> 10, size |-> 15, confidence |-> 45]]
\* An account with no margin left, with little and with plenty, and one worth nothing.
MCFacts == {[price |-> 100, equity |-> 1000, available |-> a] : a \in {-20, 20, 1000}}
             \union {[price |-> 100, equity |-> 0, available |-> 20]}
MCProposals == [action : {"LONG", "SHORT"}, leverage : {1, 20}, size : {0, 2, 25},
  stop : {NoStop, 0, 90, 100, 110}, confidence : {50, 60, 70}]
  \union [action : {"NEUTRAL"}, leverage : {1}, size : {2}, stop : {0}, confidence : {70}]

\* A loss of two fills breaches the drawdown; a gain of one reaches the daily goal.
MCPct == [p \in Periods |-> IF p = "daily" THEN 2 ELSE IF p = "weekly" THEN 5 ELSE 20]
MCPnls == {-2, 3}

\* Bars that swing, break structure both ways, sweep a level, leave gaps and blocks and
\* come back through those.
MCCandle(o, h, l, c) == [open |-> o, high |-> h, low |-> l, close |-> c, timed |-> FALSE]
MCTimed(o, h, l, c) == [MCCandle(o, h, l, c) EXCEPT !.timed = TRUE]
MCShapes ==
  <<{MCCandle(5, 6, 5, 5)},
    {MCCandle(5, 8, 5, 6), MCCandle(6, 6, 3, 5)},
    {MCCandle(6, 6, 5, 5)},
    {MCTimed(6, 9, 5, 9), MCCandle(5, 6, 2, 2)},
    {MCCandle(8, 10, 5, 6), MCCandle(8, 10, 8, 8), MCCandle(3, 6, 1, 5)},
    {MCCandle(7, 8, 7, 8)}>>
\* All timeframes with a long, all with a short, none with either.
MCContexts ==
  LET Context(trend, swept, levels) ==
        [h4 |-> trend, h1 |-> trend, m5 |-> trend, swept |-> swept, healthy |-> TRUE,
         levels |-> levels]
  IN  {Context("BULLISH", FALSE, {}), Context("BEARISH", FALSE, {0}), Context("RANGE", TRUE, {20})}

\* Two assets that move together, or against each other; a strong trend, a volatile
\* range and an unclear market; plans of the setup's distances, of the regime's,
\* and not worth their cost.
MCPairs == {{s1, s2}}
MCCorrelations == {[pair \in MCPairs |-> c] : c \in {1, -1}}
MCReadings ==
  {[trend |-> "strong", volatility |-> "low", driven |-> TRUE, wide |-> FALSE],
   [trend |-> "weak", volatility |-> "high", driven |-> FALSE, wide |-> FALSE],
   [trend |-> "weak", volatility |-> "medium", driven |-> FALSE, wide |-> FALSE]}
MCCharts ==
  {[atr |-> 100, stop |-> 9900, target |-> 10500], [atr |-> 100, stop |-> None, target |-> None],
   [atr |-> 10, stop |-> None, target |-> None]}
MCRecords == {[enough |-> TRUE, wins |-> 90, streak |-> 0]}

\* Five timeframes from the four hours down: all of one mind, a lower one turning
\* against the higher, ranges, and no structure yet.
MCMarkets ==
  LET Frame(t, e, a) == [trend |-> t, event |-> e, age |-> a, form |-> {}]
      Rising == Frame("BULLISH", "BOS", 2)
      Falling == Frame("BEARISH", "BOS", 2)
      TurnUp == Frame("BULLISH", "CHOCH", 3)
      TurnDown == Frame("BEARISH", "CHOCH", 3)
      Old == Frame("BULLISH", "BOS", 9)
      Level == [trend |-> "RANGE", event |-> "NONE", age |-> 0, form |-> {"HL"}]
      Blank == [trend |-> "UNKNOWN", event |-> "NONE", age |-> 0, form |-> {}]
      Market(h4, h2, h1, m15, m5) == [h4 |-> h4, h2 |-> h2, h1 |-> h1, m15 |-> m15, m5 |-> m5]
  IN  {Market(Rising, Rising, Rising, Rising, Rising), Market(Falling, Falling, Falling, Falling, Falling),
       Market(Rising, Rising, Rising, Old, Falling), Market(Falling, Falling, Level, Falling, Rising),
       Market(Rising, Rising, Rising, TurnDown, Falling), Market(Falling, Falling, Falling, TurnUp, Rising),
       Market(Rising, Falling, Falling, TurnDown, Falling), Market(Falling, Rising, Rising, TurnUp, Rising),
       Market(Rising, Level, Falling, TurnDown, Rising), Market(Level, Level, Rising, Rising, Rising),
       Market(Level, Falling, Rising, Rising, Rising), Market(Blank, Rising, Rising, TurnUp, Rising),
       Market(Rising, Falling, Rising, Level, Rising)}
\* A range of a tenth: below, inside and above the zones that overlap in it, with
\* liquidity on both sides; nothing around the price; a market too wild to trade.
MCScenes ==
  LET Zone(side, low, high, frame, block, state) ==
        [side |-> side, low |-> low, high |-> high, frame |-> frame, block |-> block,
         status |-> state, fresh |-> 100]
      Pool(side, price, frame, state) ==
        [side |-> side, price |-> price, frame |-> frame, equal |-> frame = "h1", status |-> state]
      zones == <<Zone("BULLISH", 9600, 9660, "h1", FALSE, "ACTIVE"),
                 Zone("BULLISH", 9640, 9700, "m15", TRUE, "MITIGATED"),
                 Zone("BEARISH", 10300, 10360, "h4", TRUE, "ACTIVE"),
                 Zone("BULLISH", 10340, 10400, "m15", FALSE, "ACTIVE"),
                 Zone("BEARISH", 9900, 9980, "m5", FALSE, "BROKEN")>>
      pools == <<Pool("BUY_SIDE", 10440, "h4", "ACTIVE"), Pool("BUY_SIDE", 10444, "m15", "SWEPT"),
                 Pool("BUY_SIDE", 10200, "h1", "ACTIVE"), Pool("SELL_SIDE", 9560, "h2", "ACTIVE"),
                 Pool("SELL_SIDE", 9800, "m5", "ACTIVE"), Pool("SELL_SIDE", 9400, "h1", "SWEPT")>>
      Around(price, swept, atr) ==
        [price |-> price, swings |-> <<[high |-> 0, low |-> 0], [high |-> 10500, low |-> 9500]>>,
         zones |-> zones, pools |-> pools, swept |-> swept, atr |-> atr, warm |-> TRUE]
  IN  {Around(9640, "SELL_SIDE", 60), Around(9760, "NONE", 120), Around(10000, "BUY_SIDE", 60),
       Around(10180, "SELL_SIDE", 60), Around(10360, "BUY_SIDE", 120), Around(9700, "SELL_SIDE", 200),
       [Around(10000, "NONE", 60) EXCEPT !.swings = <<>>, !.zones = <<>>, !.pools = <<>>, !.warm = FALSE]}
\* No evidence, all there can be, and a break alone, for either direction.
MCFindings ==
  LET Naught == [structure |-> "NONE", sweep |-> "NONE", gap |-> FALSE, block |-> FALSE,
                  retest |-> FALSE, swept5 |-> FALSE]
      Everything == [structure |-> "CHOCH", sweep |-> "SINGLE", gap |-> TRUE, block |-> TRUE,
                     retest |-> TRUE, swept5 |-> TRUE]
      Break == [structure |-> "BOS", sweep |-> "NONE", gap |-> TRUE, block |-> FALSE,
                retest |-> TRUE, swept5 |-> TRUE]
      Equal == [Everything EXCEPT !.sweep = "EQUAL", !.structure = "BOS"]
  IN  {[LONG |-> l, SHORT |-> s] :
         l \in {Naught, Everything, Break, Equal}, s \in {Naught, Everything, Break}}
      \ {[LONG |-> Break, SHORT |-> Everything], [LONG |-> Equal, SHORT |-> Break]}

\* Two symbols' klines, with bars missing in a candle, at its start, and all of one.
MCTapes ==
  LET Minutes == 0..8 IN
  {(s1 :> x) @@ (s2 :> Minutes \ {2, 3}) : x \in {Minutes, Minutes \ {0, 3}, Minutes \ {2, 3}}}
  \union {(s1 :> Minutes \ {4, 5}) @@ (s2 :> Minutes \ {4})}
MCOrder == <<s1, s2>>
MCTradePnls == {-2, 0, 2}

Parts ==
  {"agent", "trailing", "replay", "link", "debate", "log", "governors", "setups", "exposure",
   "feed", "scenarios", "backtest"}

everyPart ==
  <<part, vars, trailVars, replay, linkVars, debateVars, logVars, govVars, setupVars,
    exposureVars, feedVars, analysisVars, tester>>

\* The parts that stay as they are while the named one moves.
OtherThan(p) ==
  /\ p # "agent" => UNCHANGED vars
  /\ p # "trailing" => UNCHANGED trailVars
  /\ p # "replay" => UNCHANGED replay
  /\ p # "link" => UNCHANGED linkVars
  /\ p # "debate" => UNCHANGED debateVars
  /\ p # "log" => UNCHANGED logVars
  /\ p # "governors" => UNCHANGED govVars
  /\ p # "setups" => UNCHANGED setupVars
  /\ p # "exposure" => UNCHANGED exposureVars
  /\ p # "feed" => UNCHANGED feedVars
  /\ p # "scenarios" => UNCHANGED analysisVars
  /\ p # "backtest" => UNCHANGED tester

\* A chart to begin with; a close on the 15 minutes leads to every other.
FirstChart == CHOOSE c \in [frames : Markets, scene : Scenes, finds : Findings] : Coherent(c)
FirstTape == CHOOSE t \in Tapes : TRUE

PlatformInit ==
  /\ part \in Parts
  /\ Init /\ TrailInit /\ SmcInit /\ LinkInit /\ DebateInit /\ LogInit /\ GovInit
  /\ SetupInit /\ ExposureInit /\ FeedInit
  /\ part # "link" => net = "down"
  /\ (part = "feed") = (candles # <<>>)
  /\ AnalysisInit /\ chart = FirstChart
  /\ TesterInit
  /\ part # "backtest" => tape = FirstTape
  /\ part # "exposure" => rho = [pair \in MCPairs |-> 1]

PlatformNext ==
  /\ part' = part /\ OtherThan(part)
  /\ \/ part = "agent" /\ Next
     \/ part = "trailing" /\ TrailNext
     \/ part = "replay" /\ SmcNext
     \/ part = "link" /\ LinkNext
     \/ part = "debate" /\ DebateNext
     \/ part = "log" /\ LogNext
     \/ part = "governors" /\ GovNext
     \/ part = "setups" /\ SetupNext
     \/ part = "exposure" /\ ExposureNext
     \/ part = "feed" /\ FeedNext
     \/ part = "scenarios" /\ AnalysisNext
     \/ part = "backtest" /\ TesterNext

\* Each part's fairness.
PlatformSpec ==
  /\ PlatformInit /\ [][PlatformNext]_everyPart
  /\ WF_vars(part = "agent" /\ StartCycle)
  /\ WF_vars(part = "agent" /\ Proceed)
  /\ WF_vars(part = "agent" /\ BreakerCools)
  /\ WF_govVars(part = "governors" /\ Proceeds)
  /\ WF_govVars(part = "governors" /\ ForceExit)
  /\ WF_linkVars(part = "link" /\ TimerFires)
  /\ WF_linkVars(part = "link" /\ StaleCloses)
  /\ WF_linkVars(part = "link" /\ CloseCompletes)
  /\ WF_linkVars(part = "link" /\ \E failed \in BOOLEAN : LateClose(failed))
  /\ SF_linkVars(part = "link" /\ SocketOpens)
  /\ WF_linkVars(part = "link" /\ ClosedByServer)
  /\ WF_linkVars(part = "link" /\ Heartbeat)
  /\ WF_linkVars(part = "link" /\ WindowPasses)
  /\ WF_linkVars(part = "link" /\ Appears)
  /\ WF_linkVars(part = "link" /\ EventArrives)
  /\ WF_linkVars(part = "link" /\ Poll)
  /\ WF_linkVars(part = "link" /\ SnapshotTaken)
  /\ WF_linkVars(part = "link" /\ SnapshotArrives)

\* Each part's state has its type while the part moves.
EveryTypeOK ==
  CASE part = "agent" -> TypeOK
    [] part = "trailing" -> TrailTypeOK
    [] part = "replay" -> SmcTypeOK
    [] part = "link" -> LinkTypeOK
    [] part = "debate" -> DebateTypeOK
    [] part = "log" -> LogTypeOK
    [] part = "governors" -> GovTypeOK
    [] part = "setups" -> SetupTypeOK
    [] part = "exposure" -> ExposureTypeOK
    [] part = "feed" -> FeedTypeOK
    [] part = "scenarios" -> AnalysisTypeOK
    [] part = "backtest" -> TesterTypeOK
=============================================================================
