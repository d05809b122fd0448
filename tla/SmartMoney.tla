----------------------------- MODULE SmartMoney -----------------------------
(***************************************************************************)
(* What the market analysis says of one series of candles: swings, breaks  *)
(* of structure, liquidity levels and their sweeps, fair value gaps, order *)
(* blocks (SwingDetector, StructureClassifier, LiquidityDetector,          *)
(* FvgDetector, OrderBlockDetector), through MarketStructureEngine with    *)
(* its cache and SmcLocationEngine.                                        *)
(*                                                                         *)
(* A candle opens at its index.  The last one is still forming as a rule,  *)
(* and the exchange's final kline comes late by one candle at most.  A     *)
(* kline carries no closeTime, so its candle counts as closed from the     *)
(* moment it opened: what the analysis says of it may be unsaid.  Trades   *)
(* arrive in order.  Tolerances in per cent are below one step of price;   *)
(* the displacement of an order block is a number of steps.  Both sides of *)
(* the market are one: prices seen from below change sign.                 *)
(***************************************************************************)
EXTENDS Integers, Sequences, FiniteSets, FiniteSetsExt

CONSTANTS
  Shapes,               \* the candles the market may form, bar by bar; one that trades
                        \* alone have built is timed: it has a closeTime
  LeftBars, RightBars,  \* SwingConfig
  Displacement,         \* SmcConfig.obDisplacementThresholdPct
  Lookback              \* SmcConfig.obLookbackBars

ASSUME SmartAssumption ==
  /\ Shapes \in Seq(SUBSET [open : Nat, high : Nat, low : Nat, close : Nat, timed : BOOLEAN])
  /\ Len(Shapes) <= 500                  \* as many as KlineStore keeps and the engines read
  /\ \A i \in DOMAIN Shapes : \A c \in Shapes[i] : c.low <= c.high
  /\ {LeftBars, RightBars} \subseteq Nat \ {0}
  /\ {Displacement, Lookback} \subseteq Nat

VARIABLES
  series,               \* KlineStore's candles
  settled,              \* history: how many of them will not change any more
  cached,               \* the structure engine's entry: the candles it was made of, and
                        \* how many were settled then
  said                  \* history: the last answer, and the candle up to which it is sure

smartVars == <<series, settled, cached, said>>

SmartInit ==
  /\ series = <<>> /\ settled = 0
  /\ cached = [of |-> <<>>, firm |-> 0]
  /\ said = [facts |-> {}, sure |-> 0]
-----------------------------------------------------------------------------
(* Candles seen from one side: the market turned over for "LOW" *)

Edges == {"HIGH", "LOW"}
Signed(x, t) == IF t = "HIGH" THEN x ELSE -x
Top(c, t) == IF t = "HIGH" THEN c.high ELSE -c.low
Bottom(c, t) == IF t = "HIGH" THEN c.low ELSE -c.high
Close(c, t) == Signed(c.close, t)

\* The candles a question knows: all that opened by its time, or all but the last.
KnownBars(asked) == SubSeq(series, 1, asked)
-----------------------------------------------------------------------------
(* Structure *)

IsSwing(b, s) ==
  /\ s.at > LeftBars /\ s.at + RightBars <= Len(b)
  /\ \A j \in s.at - LeftBars .. s.at - 1 : Top(b[j], s.side) < Top(b[s.at], s.side)
  /\ \A k \in s.at + 1 .. s.at + RightBars : Top(b[k], s.side) <= Top(b[s.at], s.side)

\* detectSwings: at most one of a side at a candle.
SwingAt(b, i, t) == [side |-> t, at |-> i, price |-> Signed(Top(b[i], t), t)]
Swings(b) == {s \in {SwingAt(b, i, t) : i \in 1..Len(b), t \in Edges} : IsSwing(b, s)}
\* Their order: that of their confirmation, a high before a low.
Precedes(p, s) == p.at < s.at \/ (p.at = s.at /\ p.side = "HIGH" /\ s.side = "LOW")

Confirmed_All(sw, n) == sw
Confirmed(sw, n) == {s \in sw : s.at + RightBars <= n}
OnSide(sw, t) == {s \in sw : s.side = t}
Latest(sw) == CHOOSE s \in sw : \A o \in sw : o.at <= s.at
LastOnSide(sw, t) == Latest(OnSide(sw, t))

\* classifySwing, against the previous swing of its side: whether the price rose.
Before(sw, s) == {p \in OnSide(sw, s.side) : p.at < s.at}
Class(sw, s) ==
  IF Before(sw, s) = {} THEN "UNKNOWN"
  ELSE LET p == Latest(Before(sw, s)).price IN
       IF s.price = p THEN "EQUAL" ELSE IF s.price > p THEN "HIGHER" ELSE "LOWER"

\* evaluateTrendAndStructure without events: the last two swings of each side vote.
Votes(sw, class) ==
  Cardinality({t \in Edges : OnSide(sw, t) # {} /\ Class(sw, LastOnSide(sw, t)) = class})
Trend(sw) ==
  IF Cardinality(sw) < 2 THEN "UNKNOWN"
  ELSE IF Votes(sw, "HIGHER") > Votes(sw, "LOWER") THEN "BULLISH"
  ELSE IF Votes(sw, "LOWER") > Votes(sw, "HIGHER") THEN "BEARISH"
  ELSE "RANGE"

\* detectBreaks: candle c closes beyond the last swing of side t that it knows.
BrokenSwing(sw, c, t) == LastOnSide(Confirmed(sw, c), t)
Beyond(b, sw, c, t) ==
  /\ OnSide(Confirmed(sw, c), t) # {}
  /\ Close(b[c], t) > Signed(BrokenSwing(sw, c, t).price, t)
\* A turn (CHOCH) against the trend or its last swing, else a continuation (BOS).
Turns(sw, c, t) ==
  \/ Trend(Confirmed(sw, c)) = (IF t = "HIGH" THEN "BEARISH" ELSE "BULLISH")
  \/ Class(sw, BrokenSwing(sw, c, t)) = (IF t = "HIGH" THEN "LOWER" ELSE "HIGHER")
\* A swing is broken once.
BreaksAt(b, sw, c, t) ==
  /\ Beyond(b, sw, c, t)
  /\ \A d \in 1..c - 1 : Beyond(b, sw, d, t) => BrokenSwing(sw, d, t) # BrokenSwing(sw, c, t)
BreakAt(b, sw, c, t) ==
  [at |-> c, side |-> t, swing |-> BrokenSwing(sw, c, t), turn |-> Turns(sw, c, t),
   timed |-> b[c].timed]
Breaks(b) ==
  LET sw == Swings(b) IN
  UNION {{BreakAt(b, sw, c, t) : t \in {t \in Edges : BreaksAt(b, sw, c, t)}} : c \in 1..Len(b)}
-----------------------------------------------------------------------------
(* Liquidity, gaps and blocks *)

\* extractLiquidityLevels: a swing that repeats the one before it is an equal level.
Repeats(sw, s) ==
  \E p \in Before(sw, s) : /\ p.price = s.price
                          /\ ~ \E o \in sw : Precedes(p, o) /\ Precedes(o, s)
LevelOf(sw, s) ==
  [side |-> s.side, price |-> s.price, at |-> s.at + RightBars, equal |-> Repeats(sw, s)]
LiquidityLevels(sw) == {LevelOf(sw, s) : s \in sw}

\* checkCandleSweep: beyond the level and back within the candle.
Sweeping(c, level) ==
  /\ Top(c, level.side) > Signed(level.price, level.side)
  /\ Close(c, level.side) <= Signed(level.price, level.side)
\* detectSweeps: a level is swept once, by a candle that opened when it was confirmed or later.
Sweeps(b, levels) ==
  {s \in [at : 1..Len(b), level : levels] :
     /\ s.at >= s.level.at /\ Sweeping(b[s.at], s.level)
     /\ \A d \in s.level.at .. s.at - 1 : ~Sweeping(b[d], s.level)}

\* A zone is seen from its side: price comes down to near, then to far.
\* checkBullishFvg, checkBearishFvg: a gap is confirmed after its candle opened.
GapAt(b, i, t) ==
  [kind |-> "gap", side |-> t, at |-> i, near |-> Bottom(b[i], t), far |-> Top(b[i - 2], t),
   since |-> i + 1]
Gaps(b) == {g \in {GapAt(b, i, t) : i \in 3..Len(b), t \in Edges} : g.far < g.near}
\* A question as early as the last candle's opening is before its gap is confirmed.
KnownGaps(b, early) == {g \in Gaps(b) : early => g.at < Len(b)}

\* findBullishOb, findBearishOb: the last candle against the break, or the one before it.
\* A block is confirmed when the breaking candle opened, or ended where that is told.
Origin(b, e) ==
  LET against == {i \in 1..e.at - 1 : /\ i >= e.at - Lookback
                                      /\ Close(b[i], e.side) < Signed(b[i].open, e.side)}
  IN  IF against = {} THEN e.at - 1 ELSE CHOOSE i \in against : \A j \in against : j <= i
BlockOf(b, e) ==
  [kind |-> "block", side |-> e.side, at |-> e.at, near |-> Top(b[Origin(b, e)], e.side),
   far |-> Bottom(b[Origin(b, e)], e.side), since |-> IF e.timed THEN e.at + 1 ELSE e.at]
Blocks(b, breaks) ==
  {BlockOf(b, e) :
     e \in {x \in breaks : /\ x.at > 1
       /\ Close(b[x.at], x.side) - Bottom(b[Origin(b, x)], x.side) >= Displacement}}

\* How deep a candle goes into a zone: 3 closes through it (INVALIDATED), 2 touches
\* its far edge, or the middle of a block (MITIGATED), 1 the middle of a gap
\* (PARTIALLY_FILLED), 0 leaves it ACTIVE.
Depth(c, z) ==
  LET touch == Bottom(c, z.side)
      halfway == 2 * touch <= z.near + z.far
  IN  CASE Close(c, z.side) < z.far                        -> 3
        [] Close(c, z.side) >= z.far /\ touch <= z.far     -> 2
        [] touch > z.far /\ halfway                        -> IF z.kind = "gap" THEN 1 ELSE 2
        [] OTHER                                           -> 0
\* trackFvgLifecycles, trackObLifecycles: a zone's status when it deepens.
Statuses(b, zones) ==
  {s \in {[at |-> c, zone |-> z, depth |-> Depth(b[c], z)] : c \in 1..Len(b), z \in zones} :
     /\ s.at >= s.zone.since /\ s.depth > 0
     /\ \A d \in s.zone.since .. s.at - 1 : s.depth > Depth(b[d], s.zone)}
-----------------------------------------------------------------------------
(* The engines *)

\* getStructureAsOf: the cached structure is good for as many candles, whatever has
\* become of the last one since.
StructureBars(b) == IF Len(cached.of) = Len(b) THEN cached ELSE [of |-> b, firm |-> settled]

SwingFact(sw, s) == [at |-> s.at + RightBars, swing |-> s, class |-> Class(sw, s)]
\* getSmcContextAsOf of candles b: everything confirmed by now, each with when it was.
\* Swings and breaks are those of the structure engine, for the candles it was made of.
Analysis(b, of, early) ==
  LET sw == Swings(of)
      breaks == Breaks(of)
      levels == LiquidityLevels(sw)
      zones == KnownGaps(b, early) \union Blocks(b, breaks)
  IN  {SwingFact(sw, s) : s \in sw}
      \union breaks \union levels \union Sweeps(b, levels) \union zones \union Statuses(b, zones)

\* Up to which candle an answer binds: those settled when its structure was made, and
\* not the last it knows when that has just opened.
SureOf(firm, asked, early) == Min({firm, IF early THEN asked - 1 ELSE asked})
UpTo(facts, k) == {f \in facts : f.at <= k}

\* A kline tick or a trade opens the next candle, when all but the last are settled.
BarOpens(c) ==
  /\ Len(series) < Len(Shapes) /\ settled >= Len(series) - 1
  /\ c \in Shapes[Len(series) + 1]
  /\ series' = Append(series, c)
  /\ UNCHANGED <<settled, cached, said>>

\* upsertCandle with a kline, formed so far or final, or applyTick: the candle is another.
\* A kline takes its closeTime away for good.
BarChanges(i, c) ==
  /\ i \in settled + 1 .. Len(series) /\ c \in Shapes[i]
  /\ c.timed => series[i].timed
  /\ series' = [series EXCEPT ![i] = c]
  /\ UNCHANGED <<settled, cached, said>>

\* Nothing will change the next candle any more.
BarSettles ==
  /\ settled < Len(series)
  /\ settled' = settled + 1
  /\ UNCHANGED <<series, cached, said>>

\* A question: the API's or the agent's as of now, a strategy's as of the moment that the
\* candle of five minutes opened that has closed now.  That is in the last candle or, when
\* the next one has opened since, the one before; early where it is its opening.  The same
\* question again gets the same answer, from SmcLocationEngine's cache.
Askable == Len(series) - 1 .. Len(series)
Analyse(asked, early) ==
  LET b == KnownBars(asked)
      structure == StructureBars(b)
  IN  /\ asked >= 1
      /\ cached' = structure
      /\ said' = [facts |-> Analysis(b, structure.of, early),
                  sure |-> SureOf(structure.firm, asked, early)]
      /\ UNCHANGED <<series, settled>>

SeriesMoves ==
  \/ \E c \in UNION {Shapes[i] : i \in DOMAIN Shapes} :
       BarOpens(c) \/ \E i \in DOMAIN Shapes : BarChanges(i, c)
  \/ BarSettles
SmartNext == SeriesMoves \/ \E asked \in Askable, early \in BOOLEAN : Analyse(asked, early)

SmartSpec == SmartInit /\ [][SmartNext]_smartVars
-----------------------------------------------------------------------------
SmartTypeOK ==
  /\ \A b \in {series, cached.of} :
       DOMAIN b \subseteq DOMAIN Shapes /\ \A i \in DOMAIN b : b[i] \in Shapes[i]
  /\ settled \in 0..Len(series) /\ Len(series) <= settled + 2
  /\ cached.firm \in 0..settled
  /\ said.sure \in 0..settled

\* The engines' rule of no lookahead, as far as it can be kept: whatever the market does
\* next, and whichever structure was remembered, what was said of candles that had
\* settled is what hindsight says of them, no more and no less.
AnalysisNeverRepaints ==
  UpTo(said.facts, said.sure) = UpTo(Analysis(series, series, FALSE), said.sure)
=============================================================================
