----------------------------- MODULE Scenarios -----------------------------
(***************************************************************************)
(* The intelligence layer of the autonomous agent: what the timeframes     *)
(* show (MarketContextEngine, with the zones, the liquidity map and the    *)
(* location), the thesis drawn from it (ThesisEngine), the scenarios that  *)
(* trade it (ScenarioEngine), the qualification of the setups of the 15    *)
(* minutes (SetupEngine, HierarchicalConfluenceScorer) and the gates the   *)
(* agent puts behind it.  Setups has how those setups are found, Exposure  *)
(* what is made of the plan.                                               *)
(*                                                                         *)
(* Prices, and distances that the code takes in per cent of a price, are   *)
(* basis points of one price; shares are per thousand.  The two families   *)
(* of scenarios are written apart, as they are in the code.                *)
(***************************************************************************)
EXTENDS Integers, FiniteSets, SequencesExt

CONSTANTS
  Markets,              \* what the five timeframes may show
  Scenes,               \* price, swings, zones, liquidity and volatility around it
  Findings,             \* evidence for a long and for a short on the 15 minutes
  MinScore,             \* AUTONOMOUS_MIN_CONFLUENCE
  RangeWeight, CounterWeight   \* AUTONOMOUS_HTF_RANGE_WEIGHT, .._COUNTER_WEIGHT, per hundred

FrameNames == {"h4", "h2", "h1", "m15", "m5"}
\* A gap or a block, its freshness in tenths.
ZoneRecord ==
  [side: {"BULLISH", "BEARISH"}, low: Nat, high: Nat, frame: FrameNames, block: BOOLEAN,
   status: {"ACTIVE", "MITIGATED", "BROKEN"}, fresh: 0..150]
PoolRecord ==
  [side: {"BUY_SIDE", "SELL_SIDE"}, price: Nat, frame: FrameNames, equal: BOOLEAN,
   status: {"ACTIVE", "SWEPT", "EXPIRED"}]

ASSUME ScenarioAssumption ==
  /\ MinScore \in 0..100 /\ RangeWeight \in 0..100 /\ CounterWeight \in 0..100
  /\ \A s \in Scenes :
       /\ s.price \in Nat /\ s.atr \in Nat
       /\ s.zones \in Seq(ZoneRecord) /\ s.pools \in Seq(PoolRecord)

VARIABLES
  chart,                \* frames, scene, finds: what there is to see
  choice                \* what the last cycle made of it

analysisVars == <<chart, choice>>

Ways == {"LONG", "SHORT"}
TrendOf(d) == IF d = "LONG" THEN "BULLISH" ELSE "BEARISH"
NoTrade == [type |-> "NO_TRADE"]
Undecided == [thesis |-> "NONE"]
-----------------------------------------------------------------------------
(* Context *)

Apart(a, b) == IF a > b THEN a - b ELSE b - a

Following(c, t) == {f \in FrameNames : c.frames[f].trend = t}
\* summarizeStructure: with as many on either side the count is the same.
AlignedCount(c) ==
  Max({Cardinality(Following(c, t)) : t \in {"BULLISH", "BEARISH"}})
FullyStacked(c) == AlignedCount(c) = Cardinality(FrameNames)

\* deriveRange: the highest timeframe whose last swings are a range at all.
DealingRange(c) ==
  LET wide == {k \in DOMAIN c.scene.swings :
                 c.scene.swings[k].high - c.scene.swings[k].low >= 50}
  IN  IF wide # {} THEN c.scene.swings[Min(wide)]
      ELSE [high |-> c.scene.price + 300, low |-> c.scene.price - 300]
\* The chart with its range, for what is placed in it.
Located(c) == [frames |-> c.frames, scene |-> c.scene, finds |-> c.finds, range |-> DealingRange(c)]
Equilibrium(c) == (c.range.high + c.range.low) \div 2
\* The position in the range, per thousand, is under or over x.
PlacedUnder(c, x) ==
  1000 * (c.scene.price - c.range.low) < x * (c.range.high - c.range.low)
PlacedOver(c, x) ==
  1000 * (c.scene.price - c.range.low) > x * (c.range.high - c.range.low)
\* classifyPosition
Position(c) ==
  IF PlacedUnder(c, 250) THEN "DEEP_DISCOUNT"
  ELSE IF PlacedUnder(c, 450) THEN "DISCOUNT"
  ELSE IF ~PlacedOver(c, 550) THEN "EQUILIBRIUM"
  ELSE IF ~PlacedOver(c, 750) THEN "PREMIUM"
  ELSE "DEEP_PREMIUM"

\* computeDirectionalBias: a timeframe votes for its trend, and a quarter more for the
\* event that made it; one without a trend is six tenths of a vote for neither.
BiasWeight == [h4 |-> 3000, h2 |-> 2000, h1 |-> 2500, m15 |-> 1500, m5 |-> 1000]
Vote(c) ==
  [f \in FrameNames |->
     IF c.frames[f].event # "NONE" THEN BiasWeight[f] + BiasWeight[f] \div 4 ELSE BiasWeight[f]]
TrendVotes(c, t) ==
  SumFunctionOnSet(Vote(c), Following(c, t))
  + (IF (t = "BULLISH" /\ PlacedUnder(c, 350)) \/ (t = "BEARISH" /\ PlacedOver(c, 650))
     THEN 500 ELSE 0)
Bias(c) ==
  LET long == TrendVotes(c, "BULLISH")
      short == TrendVotes(c, "BEARISH")
      neutral == SumFunctionOnSet([f \in FrameNames |-> (BiasWeight[f] * 6) \div 10],
                   FrameNames \ (Following(c, "BULLISH") \union Following(c, "BEARISH")))
      total == long + short + neutral
      Leads(a, b) == 100 * a >= 55 * total /\ 2 * a > 3 * b
  IN  [LONG |-> (1000 * long) \div total, SHORT |-> (1000 * short) \div total,
       neutral |-> (1000 * neutral) \div total,
       final |-> IF Leads(long, short) THEN "LONG"
                 ELSE IF Leads(short, long) THEN "SHORT" ELSE "NEUTRAL"]

\* deriveRegime
PrimaryRegime(c) ==
  LET T(f) == c.frames[f].trend IN
  IF T("h4") = "RANGE" \/ (T("h4") = "UNKNOWN" /\ T("h2") = "RANGE") THEN "RANGE"
  ELSE IF T("h4") # "UNKNOWN" /\ T("h4") \in {T("h2"), T("h1")} THEN T("h4")
  ELSE "TRANSITION"

\* zonesFromTimeframe, makeZone: a gap or a block, by its timeframe, size and age;
\* weights and freshness in tenths.
FrameWeight == [h4 |-> 550, h2 |-> 468, h1 |-> 385, m15 |-> 275, m5 |-> 165]
ZoneStrength(z) ==
  LET base == FrameWeight[z.frame] + (IF z.high - z.low \in 10..150 THEN 100 ELSE 0)
              + (IF z.block THEN 80 ELSE 0) + z.fresh
  IN  ((IF z.status = "ACTIVE" THEN base ELSE (base * 6) \div 10) + 5) \div 10

\* mergeZones: the strongest first, each into the first cluster it overlaps, unless
\* that one would get too wide or has five.
LowOf(cluster) == Min({cluster[i].low : i \in DOMAIN cluster})
HighOf(cluster) == Max({cluster[i].high : i \in DOMAIN cluster})
Joined(clusters, z) ==
  LET open == {k \in DOMAIN clusters :
                 /\ z.low <= HighOf(clusters[k]) /\ z.high >= LowOf(clusters[k])
                 /\ HighOf(Append(clusters[k], z)) - LowOf(Append(clusters[k], z)) <= 120
                 /\ Len(clusters[k]) < 5}
  IN  IF open = {} THEN Append(clusters, <<z>>)
      ELSE [clusters EXCEPT ![Min(open)] = Append(@, z)]
\* buildConfluenceZone
ConfluenceOf(cluster) ==
  LET all == ToSet(cluster)
      sides == {z.side : z \in all}
      status == {z.status : z \in all}
      n == Len(cluster)
  IN  [low |-> LowOf(cluster), high |-> HighOf(cluster),
       side |-> IF Cardinality(sides) = 1 THEN cluster[1].side ELSE "NEUTRAL",
       strength |-> Min({100, ZoneStrength(cluster[1])
                        + Min({25, 10 * (n - 1)}) + Min({15, 3 * n})}),
       status |-> IF "ACTIVE" \in status THEN "ACTIVE"
                  ELSE IF "MITIGATED" \in status THEN "MITIGATED" ELSE "BROKEN"]
\* The strongest of some, the first among equals: a stable sort, an element at a time.
Strongest(S, strength) ==
  Min({i \in S : \A j \in S : strength[i] >= strength[j]})
MergeNext(zones, strength, m) ==
  IF m.left = {} THEN m
  ELSE LET next == Strongest(m.left, strength)
       IN  [clusters |-> Joined(m.clusters, zones[next]), left |-> m.left \ {next}]
Clusters(zones) ==
  LET strength == [i \in DOMAIN zones |-> ZoneStrength(zones[i])]
      usable == {i \in DOMAIN zones : zones[i].high - zones[i].low >= 4}
      merged[n \in 0..Len(zones)] ==
        IF n = 0 THEN [clusters |-> <<>>, left |-> usable]
        ELSE MergeNext(zones, strength, merged[n - 1])
  IN  merged[Len(zones)].clusters
ConfluenceZones(c) ==
  LET clusters == Clusters(c.scene.zones)
  IN  {ConfluenceOf(clusters[k]) : k \in DOMAIN clusters}

\* clusterPools: the strongest first; one on top of a stronger of its side moves that
\* one half way, and whether it was swept is forgotten.
PoolWeight == [h4 |-> 60, h2 |-> 51, h1 |-> 42, m15 |-> 30, m5 |-> 18]
PoolStrength(p) == PoolWeight[p.frame] + (IF p.equal THEN 20 ELSE 0)
Absorbed(pools, p) ==
  LET near == {k \in DOMAIN pools : pools[k].side = p.side /\ Apart(pools[k].price, p.price) <= 8}
  IN  IF near = {} THEN Append(pools, p)
      ELSE [pools EXCEPT ![Min(near)].price = (@ + p.price) \div 2]
AbsorbNext(pools, strength, m) ==
  IF m.left = {} THEN m
  ELSE LET next == Strongest(m.left, strength)
       IN  [hosts |-> Absorbed(m.hosts, pools[next]), left |-> m.left \ {next}]
Hosts(pools) ==
  LET strength == [i \in DOMAIN pools |-> PoolStrength(pools[i])]
      absorbed[n \in 0..Len(pools)] ==
        IF n = 0 THEN [hosts |-> <<>>, left |-> DOMAIN pools]
        ELSE AbsorbNext(pools, strength, absorbed[n - 1])
  IN  absorbed[Len(pools)].hosts
Liquidity(c) == {p \in ToSet(Hosts(c.scene.pools)) : p.status = "ACTIVE"}
\* buildLiquidityMap
PoolsAbove(c) == {p.price : p \in {p \in Liquidity(c) : p.side = "BUY_SIDE" /\ p.price > c.scene.price}}
PoolsBelow(c) == {p.price : p \in {p \in Liquidity(c) : p.side = "SELL_SIDE" /\ p.price < c.scene.price}}

\* computeContext: what all that follows is drawn from, made once.
ContextOf(c) ==
  [frames |-> c.frames, scene |-> c.scene, finds |-> c.finds, range |-> DealingRange(c),
   bias |-> Bias(Located(c)), zones |-> ConfluenceZones(c),
   above |-> PoolsAbove(c), below |-> PoolsBelow(c)]
-----------------------------------------------------------------------------
(* Thesis *)

\* isFreshLtfBearishFlip, isFreshLtfBullishFlip
FreshFlip(c, t) ==
  c.frames.m15.trend = t /\ c.frames.m15.event # "NONE" /\ c.frames.m15.age <= 4
MinBias == 550
\* classifyThesisType: the first that fits.
ThesisOf(c) ==
  LET h4 == c.frames.h4.trend
      bias == c.bias
      Leans(d, e) == bias[d] >= MinBias /\ bias[d] > bias[e]
  IN
  IF FullyStacked(c) /\ bias.final # "NEUTRAL" THEN
    IF bias.final = "LONG" THEN "BULLISH_CONTINUATION" ELSE "BEARISH_CONTINUATION"
  ELSE IF h4 = "BULLISH" /\ Leans("LONG", "SHORT") THEN
    IF FreshFlip(c, "BEARISH") /\ PlacedOver(c, 600) THEN "BEARISH_REVERSAL"
    ELSE "BULLISH_CONTINUATION"
  ELSE IF h4 = "BEARISH" /\ Leans("SHORT", "LONG") THEN
    IF FreshFlip(c, "BULLISH") /\ PlacedUnder(c, 400) THEN "BULLISH_REVERSAL"
    ELSE "BEARISH_CONTINUATION"
  ELSE IF h4 = "BULLISH" /\ FreshFlip(c, "BEARISH") THEN
    IF PlacedOver(c, 600) THEN "BEARISH_REVERSAL" ELSE "TRANSITION"
  ELSE IF h4 = "BEARISH" /\ FreshFlip(c, "BULLISH") THEN
    IF PlacedUnder(c, 400) THEN "BULLISH_REVERSAL" ELSE "TRANSITION"
  ELSE IF h4 = "RANGE" /\ c.frames.h2.trend = "RANGE" THEN "RANGE"
  ELSE IF /\ Apart(bias.LONG, bias.SHORT) < 150
          /\ c.range.high - c.range.low < 1500 THEN "RANGE"
  ELSE IF c.scene.warm /\ {"BULLISH", "BEARISH", "RANGE"}
                            \subseteq {c.frames[f].trend : f \in FrameNames} THEN "TRANSITION"
  ELSE "NO_CLEAR_THESIS"

Endorses(t, d) ==
  t \in (IF d = "LONG" THEN {"BULLISH_CONTINUATION", "BULLISH_REVERSAL"}
         ELSE {"BEARISH_CONTINUATION", "BEARISH_REVERSAL"})
Directional(t) == Endorses(t, "LONG") \/ Endorses(t, "SHORT")

\* confidenceFor, per thousand
Confidence(c, t) ==
  LET Of(d) == IF d = "LONG" THEN "BULLISH" ELSE "BEARISH"
      side == IF Endorses(t, "LONG") THEN "LONG"
              ELSE IF Endorses(t, "SHORT") THEN "SHORT" ELSE "NONE"
      fits == \/ side = "LONG" /\ PlacedUnder(c, 450)
              \/ side = "SHORT" /\ PlacedOver(c, 550)
      extreme == \/ t = "BULLISH_CONTINUATION" /\ PlacedOver(c, 800)
                 \/ t = "BEARISH_CONTINUATION" /\ PlacedUnder(c, 200)
      fuel == \/ side = "LONG" /\ c.scene.swept = "SELL_SIDE"
              \/ side = "SHORT" /\ c.scene.swept = "BUY_SIDE"
      sum == 350 + 90 * AlignedCount(c) + (IF FullyStacked(c) THEN 80 ELSE 0)
             + (IF side = "NONE" THEN c.bias.neutral \div 10 ELSE c.bias[side] \div 4)
             + (IF fits THEN 80 ELSE 0) - (IF extreme THEN 120 ELSE 0) + (IF fuel THEN 80 ELSE 0)
  IN  CASE t = "NO_CLEAR_THESIS" -> 200
        [] t = "TRANSITION" -> 300
        [] OTHER -> Max({50, Min({970, sum})})
-----------------------------------------------------------------------------
(* Scenarios *)

\* nearestZoneBelow, nearestZoneAbove: the price may be inside.
Demand(c) ==
  LET below == {z \in c.zones :
                  z.low <= c.scene.price /\ z.side # "BEARISH" /\ z.strength >= 35 /\ z.status # "BROKEN"}
  IN  {z \in below : z.high = Max({y.high : y \in below})}
Supply(c) ==
  LET above == {z \in c.zones :
                  z.high >= c.scene.price /\ z.side # "BULLISH" /\ z.strength >= 35 /\ z.status # "BROKEN"}
  IN  {z \in above : z.low = Min({y.low : y \in above})}

First3(s) == SubSeq(s, 1, Min({3, Len(s)}))
\* targetsAbove, targetsBelow: three pools, and the end of the range if none is at it.
TargetsAbove(c) ==
  LET pools == ToSet(First3(SetToSortSeq(c.above, <)))
      end == {h \in {c.range.high} :
                h > c.scene.price /\ \A p \in pools : Apart(p, h) >= 20}
  IN  First3(SetToSortSeq(pools \union end, <))
TargetsBelow(c) ==
  LET pools == ToSet(First3(SetToSortSeq(c.below, >)))
      end == {l \in {c.range.low} :
                l < c.scene.price /\ \A p \in pools : Apart(p, l) >= 20}
  IN  First3(SetToSortSeq(pools \union end, >))

StopBelow(c, level) == level - Max({25, c.scene.atr \div 4})
StopAbove_HalfAsFar(c, level) == level + Max({25, c.scene.atr \div 8})
StopAbove(c, level) == level + Max({25, c.scene.atr \div 4})
\* computeRr, per hundred
RewardToRisk(entry, stop, targets) ==
  IF targets = <<>> \/ entry = stop THEN 0
  ELSE (100 * Apart(targets[Len(targets)], entry)) \div Apart(entry, stop)
OrEquilibrium(c, targets) == IF targets = <<>> THEN <<Equilibrium(c)>> ELSE targets
Scenario(type, d, status, fit, low, high, stop, targets, rr) ==
  [type |-> type, side |-> d, status |-> status, fit |-> Min({1000, fit}),
   low |-> low, high |-> high, stop |-> stop, targets |-> targets, rr |-> rr]
Mid(z) == (z.low + z.high) \div 2

\* bullishFamily
BullishFamily(c, trust) ==
  LET targets == TargetsAbove(c) IN
  {Scenario("RETEST_CONTINUATION", "LONG",
            IF c.scene.price \in z.low..z.high THEN "ARMED" ELSE "WATCHING",
            550 + (trust * 35) \div 100 + z.strength, z.low, z.high, StopBelow(c, z.low), targets,
            RewardToRisk(Mid(z), StopBelow(c, z.low), targets)) : z \in Demand(c)}
  \union
  {LET stop == StopBelow(c, Max({c.scene.price - 100, p - 60})) IN
   Scenario("BREAKOUT_RETEST", "LONG", "WATCHING", 500 + (trust * 30) \div 100,
            p - 20, p + 20, stop, targets, RewardToRisk(p, stop, targets)) :
     p \in {p \in c.above : p = Min(c.above) /\ targets # <<>>}}
\* bullishReversalFamily
BullishReversals(c, trust) ==
  LET targets == TargetsAbove(c) IN
  {Scenario("LIQUIDITY_REJECTION", "LONG", "CONDITIONAL", 500 + (trust * 30) \div 100,
            p - 50, p + 20, StopBelow(c, p - 30), OrEquilibrium(c, targets),
            RewardToRisk(c.scene.price, StopBelow(c, p - 30), OrEquilibrium(c, targets))) :
     p \in {p \in c.below : p = Max(c.below)}}
  \union
  {Scenario("REVERSAL", "LONG", IF c.scene.price <= z.high THEN "ARMED" ELSE "WATCHING",
            450 + 3 * z.strength + (trust * 20) \div 100, z.low, z.high, StopBelow(c, z.low),
            OrEquilibrium(c, targets), RewardToRisk(Mid(z), StopBelow(c, z.low), targets)) :
     z \in Demand(c)}
\* bearishFamily
BearishFamily(c, trust) ==
  LET targets == TargetsBelow(c) IN
  {Scenario("RETEST_CONTINUATION", "SHORT",
            IF c.scene.price \in z.low..z.high THEN "ARMED" ELSE "WATCHING",
            550 + (trust * 35) \div 100 + z.strength, z.low, z.high, StopAbove(c, z.high), targets,
            RewardToRisk(Mid(z), StopAbove(c, z.high), targets)) : z \in Supply(c)}
  \union
  {LET stop == StopAbove(c, Min({c.scene.price + 100, p + 60})) IN
   Scenario("BREAKOUT_RETEST", "SHORT", "WATCHING", 500 + (trust * 30) \div 100,
            p - 20, p + 20, stop, targets, RewardToRisk(p, stop, targets)) :
     p \in {p \in c.below : p = Max(c.below) /\ targets # <<>>}}
\* bearishReversalFamily
BearishReversals(c, trust) ==
  LET targets == TargetsBelow(c) IN
  {Scenario("LIQUIDITY_REJECTION", "SHORT", "CONDITIONAL", 500 + (trust * 30) \div 100,
            p - 20, p + 50, StopAbove(c, p + 30), OrEquilibrium(c, targets),
            RewardToRisk(c.scene.price, StopAbove(c, p + 30), OrEquilibrium(c, targets))) :
     p \in {p \in c.above : p = Min(c.above)}}
  \union
  {Scenario("REVERSAL", "SHORT", IF c.scene.price >= z.low THEN "ARMED" ELSE "WATCHING",
            450 + 3 * z.strength + (trust * 20) \div 100, z.low, z.high, StopAbove(c, z.high),
            OrEquilibrium(c, targets), RewardToRisk(Mid(z), StopAbove(c, z.high), targets)) :
     z \in Supply(c)}
\* rangeFamily: to the middle of the range, and on to its other end.
RangeFamily(c) ==
  LET r == c.range
      third == ((r.high - r.low) * 3) \div 10
      Rotation(d, status, low, high, stop, end) ==
        Scenario("RANGE_ROTATION", d, status, 450, low, high, stop, <<Equilibrium(c), end>>,
                 RewardToRisk((low + high) \div 2, stop, <<Equilibrium(c)>>))
  IN  {Rotation("LONG", IF c.scene.price <= r.low + third THEN "ARMED" ELSE "WATCHING",
                r.low, r.low + third, StopBelow(c, r.low), r.high),
       Rotation("SHORT", IF c.scene.price >= r.high - third THEN "ARMED" ELSE "WATCHING",
                r.high - third, r.high, StopAbove(c, r.high), r.low)}
\* generateScenarios: those of the thesis, and what would turn a continuation.
ScenariosOf(c, t) ==
  LET trust == Confidence(c, t) IN
  CASE t = "BULLISH_CONTINUATION" -> BullishFamily(c, trust) \union BearishReversals(c, trust)
    [] t = "BEARISH_CONTINUATION" -> BearishFamily(c, trust) \union BullishReversals(c, trust)
    [] t = "BULLISH_REVERSAL" -> BullishReversals(c, trust)
    [] t = "BEARISH_REVERSAL" -> BearishReversals(c, trust)
    [] t = "RANGE" -> RangeFamily(c)
    [] OTHER -> {}
\* pickPreferred: the best by alignment, the first of the family among equals.
Rank == <<"RETEST_CONTINUATION", "BREAKOUT_RETEST", "LIQUIDITY_REJECTION", "REVERSAL", "RANGE_ROTATION">>
RankOf(s) == 2 * (CHOOSE k \in DOMAIN Rank : Rank[k] = s.type)
             + (IF s.type = "RANGE_ROTATION" /\ s.side = "SHORT" THEN 1 ELSE 0)
Ahead(x, y) == x.fit > y.fit \/ (x.fit = y.fit /\ RankOf(x) <= RankOf(y))
BestOf(S) == IF S = {} THEN NoTrade ELSE CHOOSE x \in S : \A y \in S : Ahead(x, y)
-----------------------------------------------------------------------------
(* Qualification *)

AgreesOr(c, f, d, full, unclear) ==
  IF c.frames[f].trend = TrendOf(d) THEN full
  ELSE IF c.frames[f].trend \in {"RANGE", "UNKNOWN"} THEN unclear ELSE 0
Reverses(t, d) == t = (IF d = "LONG" THEN "BULLISH_REVERSAL" ELSE "BEARISH_REVERSAL")
\* The frame's trend is that of its last event, so an event of the other side and
\* none at all are told apart here.
StructureCredit(r, d) ==
  IF r.event # "NONE" THEN
    IF r.trend # TrendOf(d) THEN 0
    ELSE IF r.event = "CHOCH" THEN (IF r.age <= 6 THEN 15 ELSE 12)
    ELSE IF r.age <= 6 THEN 12 ELSE 10
  ELSE IF (IF d = "LONG" THEN "HL" ELSE "LH") \in r.form THEN 6 ELSE 0
LongPlaces == [DEEP_DISCOUNT |-> 10, DISCOUNT |-> 8, EQUILIBRIUM |-> 5, PREMIUM |-> 3, DEEP_PREMIUM |-> 0]
ShortPlaces == [DEEP_PREMIUM |-> 10, PREMIUM |-> 8, EQUILIBRIUM |-> 5, DISCOUNT |-> 3, DEEP_DISCOUNT |-> 0]
RatioCredit(rr) ==
  IF rr >= 350 THEN 5 ELSE IF rr >= 250 THEN 4 ELSE IF rr >= 180 THEN 3 ELSE IF rr >= 120 THEN 2 ELSE 0

Fires(c, e, d) == c.frames.m5.trend = TrendOf(d) \/ e.swept5
HasZone(e) == e.gap \/ e.block
\* HierarchicalConfluenceScorer.score, of 100
HierarchicalScore(c, t, e, d, rr) ==
  LET zones == {z.strength : z \in {z \in c.zones :
                  z.side \in {TrendOf(d), "NEUTRAL"} /\ z.status # "BROKEN"}}
      zone == IF zones = {} THEN 50 ELSE Max(zones)
      thesis == IF Endorses(t, d) THEN (IF c.frames.h1.trend = TrendOf(d) THEN 15 ELSE 11)
                ELSE IF t = "TRANSITION" THEN 4 ELSE 0
      h2 == AgreesOr(c, "h2", d, 10, 4)
  IN  AgreesOr(c, "h4", d, 15, 6) + (IF h2 = 0 /\ Reverses(t, d) THEN 5 ELSE h2) + thesis
      + StructureCredit(c.frames.m15, d) + (IF e.sweep # "NONE" THEN 10 ELSE 0)
      + (IF HasZone(e) THEN 5 + (zone + 10) \div 20 ELSE 0)
      + (IF d = "LONG" THEN LongPlaces[Position(c)] ELSE ShortPlaces[Position(c)])
      + (IF Fires(c, e, d) THEN 10 ELSE 0) + RatioCredit(rr)

\* The first score, of the same evidence: with data always taken for healthy here.
EvidenceScore(c, e, d) ==
  AgreesOr(c, "h4", d, 10, 0) + AgreesOr(c, "h1", d, 10, 0)
  + (IF e.structure = "CHOCH" THEN 20 ELSE IF e.structure = "BOS" THEN 15
     ELSE AgreesOr(c, "m15", d, 20, 0))
  + (IF e.sweep = "SINGLE" THEN 15 ELSE 0) + (IF e.gap THEN 10 ELSE 0) + (IF e.block THEN 10 ELSE 0)
  + (IF e.retest THEN 10 ELSE 0) + (IF Fires(c, e, d) THEN 10 ELSE 0) + 5

\* determineCanonicalState: CONFIRMED wherever the price is; nothing else gets READY.
StructureConfirmed(c, e, d) == e.structure # "NONE" /\ (e.retest \/ Fires(c, e, d))
Continues(e) == e.structure = "BOS" /\ e.sweep = "NONE"
Reversal(e) == e.structure # "NONE" /\ e.sweep # "NONE"
\* qualify: the gates of context, thesis and score.
Qualifies(c, t, e, d, score) ==
  /\ PrimaryRegime(c) = "TRANSITION" => ~Continues(e)
  /\ c.scene.atr < 180
  /\ Endorses(t, d)
  /\ score >= MinScore

\* getQualifiedSetupsAsOf, of one direction: with the best scenario of that direction.
PlanFor(plans, d) == BestOf({s \in plans : s.side = d})
RatioOf(plan) == IF plan = NoTrade THEN 0 ELSE plan.rr
ScoreFor(c, t, plans, e, d) == HierarchicalScore(c, t, e, d, RatioOf(PlanFor(plans, d)))
ReadySetups(c, t, plans) ==
  {d \in Ways :
     LET e == c.finds[d] IN
     /\ e.structure # "NONE" \/ e.sweep # "NONE" \/ HasZone(e)
     /\ StructureConfirmed(c, e, d) /\ EvidenceScore(c, e, d) >= 65
     /\ Qualifies(c, t, e, d, ScoreFor(c, t, plans, e, d))}
-----------------------------------------------------------------------------
(* The cycle of the agent *)

AlignmentWeight_ReversalsFree(c, e, d) ==
  IF c.frames.h4.trend = TrendOf(d) \/ Reversal(e) THEN 100
  ELSE IF c.frames.h4.trend \in {"RANGE", "UNKNOWN"} THEN RangeWeight
  ELSE CounterWeight
\* alignmentWeightFor: a reversal against the four hours has the weight of none.
AlignmentWeight(c, e, d) ==
  IF c.frames.h4.trend = TrendOf(d) THEN 100
  ELSE IF c.frames.h4.trend \in {"RANGE", "UNKNOWN"} \/ Reversal(e) THEN RangeWeight
  ELSE CounterWeight
Effective(c, t, plans, e, d) ==
  (ScoreFor(c, t, plans, e, d) * AlignmentWeight(c, e, d) + 50) \div 100

\* The gates of runCycle behind a ready setup.
Entered(c, t, plans) ==
  {d \in ReadySetups(c, t, plans) :
     Directional(t) /\ Effective(c, t, plans, c.finds[d], d) >= MinScore}
\* resolveExecutionState
ExecutionState(ready, preferred) ==
  IF ready # {} THEN "EXECUTE"
  ELSE IF preferred # NoTrade /\ preferred.status = "ARMED" THEN "READY" ELSE "WAIT"
Decision(c, t, plans) ==
  [thesis |-> t, preferred |-> BestOf(plans),
   execution |-> ExecutionState(ReadySetups(c, t, plans), BestOf(plans)),
   entries |-> {[side |-> d, plan |-> PlanFor(plans, d)] : d \in Entered(c, t, plans)}]
\* computeAnalysis and what the agent does of it.
OnThesis(c, t) == Decision(c, t, ScenariosOf(c, t))
OnContext(c) == OnThesis(c, ThesisOf(c))
ChoiceFor(c) == OnContext(ContextOf(c))

\* What is found on the 15 minutes is of the events their frame has.
Coherent(c) ==
  /\ c.frames.m15.event = "NONE" => \A d \in Ways : c.finds[d].structure = "NONE"
  /\ c.frames.m15.event # "NONE" =>
       \E d \in Ways : c.frames.m15.trend = TrendOf(d) /\ c.finds[d].structure # "NONE"

AnalysisInit ==
  /\ chart \in [frames : Markets, scene : Scenes, finds : Findings] /\ Coherent(chart)
  /\ choice = Undecided
Changes(c) == Coherent(c) /\ chart' = c /\ choice' = Undecided
\* A candle closes on one of the timeframes.
StructureTurns ==
  \E m \in Markets, f \in Findings : Changes([chart EXCEPT !.frames = m, !.finds = f])
SceneShifts == \E s \in Scenes : Changes([chart EXCEPT !.scene = s])
EvidenceShows == \E f \in Findings : Changes([chart EXCEPT !.finds = f])
\* One evaluation of the symbol, as of one time.
RunAnalysis == choice = Undecided /\ choice' = ChoiceFor(chart) /\ UNCHANGED chart

AnalysisNext == StructureTurns \/ SceneShifts \/ EvidenceShows \/ RunAnalysis
AnalysisSpec == AnalysisInit /\ [][AnalysisNext]_analysisVars
-----------------------------------------------------------------------------
AnalysisTypeOK ==
  /\ Coherent(chart)
  /\ choice # Undecided =>
       /\ choice.execution \in {"EXECUTE", "READY", "WAIT"}
       /\ \A e \in choice.entries : e.side \in Ways

\* As configured the agent enters only with the trend of the four hours, and only on
\* a continuation: the best score any other setup can earn is not enough once it has
\* been weighted, though a reversal is given the weight of a range because "countering
\* the 4h trend is their job".  What is entered is of one direction, and its stop is
\* beyond the whole of the zone its scenario waits in.
EntriesKeepToTheTrend ==
  choice # Undecided =>
    /\ Cardinality(choice.entries) <= 1
    /\ \A e \in choice.entries :
         /\ chart.frames.h4.trend = TrendOf(e.side)
         /\ choice.thesis = (IF e.side = "LONG" THEN "BULLISH_CONTINUATION" ELSE "BEARISH_CONTINUATION")
         /\ e.plan # NoTrade =>
              IF e.side = "LONG" THEN e.plan.stop < e.plan.low ELSE e.plan.stop > e.plan.high

\* The chart with up and down exchanged.
Turn(x) == 20000 - x
Opposite ==
  [LONG |-> "SHORT", SHORT |-> "LONG", BULLISH |-> "BEARISH", BEARISH |-> "BULLISH",
   BUY_SIDE |-> "SELL_SIDE", SELL_SIDE |-> "BUY_SIDE", HL |-> "LH", LH |-> "HL",
   BULLISH_CONTINUATION |-> "BEARISH_CONTINUATION", BEARISH_CONTINUATION |-> "BULLISH_CONTINUATION",
   BULLISH_REVERSAL |-> "BEARISH_REVERSAL", BEARISH_REVERSAL |-> "BULLISH_REVERSAL"]
Other(x) == IF x \in DOMAIN Opposite THEN Opposite[x] ELSE x
TurnedBand(z) == [z EXCEPT !.low = Turn(z.high), !.high = Turn(z.low)]
TurnedChart(c) ==
  [frames |-> [f \in FrameNames |->
                 [c.frames[f] EXCEPT !.trend = Other(@), !.form = {Other(x) : x \in @}]],
   scene |-> [c.scene EXCEPT
     !.price = Turn(@), !.swept = Other(@),
     !.swings = [k \in DOMAIN @ |-> TurnedBand(@[k])],
     !.zones = [k \in DOMAIN @ |-> [TurnedBand(@[k]) EXCEPT !.side = Other(@)]],
     !.pools = [k \in DOMAIN @ |-> [@[k] EXCEPT !.price = Turn(@), !.side = Other(@)]]],
   finds |-> [d \in Ways |-> c.finds[Other(d)]]]
TurnedPlan(s) ==
  IF s = NoTrade THEN s
  ELSE [TurnedBand(s) EXCEPT !.side = Other(@), !.stop = Turn(@),
          !.targets = [k \in DOMAIN @ |-> Turn(@[k])]]

\* A short in a market is judged as a long in that market turned upside down: thesis,
\* execution, entry, scenario, stop and targets.  Only of a range the long is preferred
\* on either side.
ShortsMirrorLongs ==
  choice # Undecided =>
    LET turned == ChoiceFor(TurnedChart(chart)) IN
    /\ turned.thesis = Other(choice.thesis)
    /\ turned.entries = {[side |-> Other(e.side), plan |-> TurnedPlan(e.plan)] : e \in choice.entries}
    /\ choice.thesis # "RANGE" =>
         turned.execution = choice.execution /\ turned.preferred = TurnedPlan(choice.preferred)
=============================================================================
