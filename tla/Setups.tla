------------------------------- MODULE Setups -------------------------------
(***************************************************************************)
(* From the analysis of a series to a plan to trade: SetupEngine's         *)
(* discovery, ConfluenceScorer, the evidence stages of SetupStateMachine   *)
(* and ExecutionPlanEngine, as SmcAgentStrategy asks for them when a       *)
(* candle has closed.                                                      *)
(*                                                                         *)
(* The strategy asks as of the time that the closed candle of five minutes *)
(* opened: the candle of its series is still forming then, or has just     *)
(* ended.  A view is what the two engines answer of that series.          *)
(* Prices of a plan count half steps, and are seen from the plan's side:   *)
(* profit is upwards.  A long is "HIGH".  They are far above the buffer.   *)
(***************************************************************************)
EXTENDS SmartMoney, SequencesExt

CONSTANTS
  Contexts,             \* what the other timeframes may say
  MinConfluence,        \* SetupConfig.minConfluenceScore
  StopBuffer            \* tickSize * tickBufferMultiplier, in half steps

Turned(t) == IF t = "HIGH" THEN "LOW" ELSE "HIGH"
Toward(t) == IF t = "HIGH" THEN "BULLISH" ELSE "BEARISH"
Trends == {"BULLISH", "BEARISH", "RANGE"}

ASSUME SetupAssumption ==
  /\ Contexts \subseteq [h4 : Trends, h1 : Trends, m5 : Trends, swept : BOOLEAN,
                         healthy : BOOLEAN, levels : SUBSET Nat]
  /\ MinConfluence \in Nat /\ StopBuffer \in Nat \ {0}

VARIABLE plan           \* history: the executable plan that the last question led to, if any

NoPlan == [side |-> "NONE"]
setupVars == <<smartVars, plan>>
SetupInit == SmartInit /\ plan = NoPlan
-----------------------------------------------------------------------------
(* Evidence: of each kind the oldest the series still shows *)

Oldest(S) == IF S = {} THEN {} ELSE {CHOOSE x \in S : \A y \in S : x.at <= y.at}

Sweep(v, t) ==
  Oldest({s \in v.sweeps : s.level.side = Turned(t)})
\* A turn before a continuation, however old.
Structure(v, t) ==
  LET turns == {e \in v.breaks : e.side = t /\ e.turn} IN
  IF turns # {} THEN Oldest(turns) ELSE Oldest({e \in v.breaks : e.side = t})
LastSwing(v, t) ==
  LET swings == OnSide(v.swings, t) IN {s \in swings : s = Latest(swings)}
Gap(v, t) == Oldest({g \in v.gaps : g.side = t})
Block(v, t) == Oldest({o \in v.blocks : o.side = t})
Evidence(v, t) == Sweep(v, t) \union Structure(v, t) \union Gap(v, t) \union Block(v, t)

\* How deep the candles went into a zone, until one closed through it.
DepthOf(b, z) ==
  LET depths == {s.depth : s \in Statuses(b, {z})} IN
  CHOOSE d \in depths \union {0} : \A e \in depths : e <= d
Retested(v, t) ==
  \/ \E g \in Gap(v, t) : DepthOf(v.bars, g) \in {1, 2}
  \/ \E o \in Block(v, t) : DepthOf(v.bars, o) = 2
Triggered(ctx, t) == ctx.m5 = Toward(t) \/ ctx.swept

\* evaluateTrendAndStructure with events: the last break, a low after a high.
SetupTrend(v) ==
  LET last == {e \in v.breaks : \A f \in v.breaks : f.at <= e.at} IN
  IF last = {} THEN Trend(v.swings)
  ELSE IF \E e \in last : e.side = "LOW" THEN "BEARISH" ELSE "BULLISH"
-----------------------------------------------------------------------------
(* Confluence and stages *)

HtfScore(ctx, t) == 10 * Cardinality({f \in {"h4", "h1"} : ctx[f] = Toward(t)})
StructureScore(v, t) ==
  IF Structure(v, t) # {} THEN (IF \E e \in Structure(v, t) : e.turn THEN 20 ELSE 15)
  ELSE IF SetupTrend(v) = Toward(t) THEN 20 ELSE 0
\* An equal level's name does not hold the one the score looks for.
SweepScore(v, t) == IF \E s \in Sweep(v, t) : ~s.level.equal THEN 15 ELSE 0
Points(condition, weight) == IF condition THEN weight ELSE 0
Confluence(v, ctx, t) ==
  HtfScore(ctx, t) + StructureScore(v, t) + SweepScore(v, t)
  + Points(Gap(v, t) # {}, 10) + Points(Block(v, t) # {}, 10)
  + Points(Retested(v, t), 10) + Points(Triggered(ctx, t), 10)
  + Points(ctx.healthy, 5)

\* determineNextState
Stage(v, ctx, t) ==
  LET zone == Gap(v, t) # {} \/ Block(v, t) # {} IN
  CASE zone /\ Retested(v, t) /\ Triggered(ctx, t) /\ Structure(v, t) # {} -> "TRIGGERED"
    [] zone /\ Retested(v, t)
       /\ ~(Triggered(ctx, t) /\ Structure(v, t) # {})   -> "RETEST"
    [] zone /\ ~Retested(v, t)                           -> "ZONE_IDENTIFIED"
    [] ~zone /\ Structure(v, t) # {}                     -> "STRUCTURE_CONFIRMATION"
    [] OTHER                                             -> "LIQUIDITY_INTERACTION"
IsReady(v, ctx, t) ==
  /\ Evidence(v, t) # {}
  /\ Stage(v, ctx, t) \in {"TRIGGERED", "ZONE_IDENTIFIED", "RETEST"}
  /\ Confluence(v, ctx, t) >= MinConfluence
-----------------------------------------------------------------------------
(* The plan *)

\* The middle of the gap, or of the block where there is none.
Entry(v, t) ==
  LET z == CHOOSE z \in (IF Gap(v, t) # {} THEN Gap(v, t) ELSE Block(v, t)) : TRUE
  IN  z.near + z.far

\* calculateLongStopLoss, calculateShortStopLoss: beyond the farthest of the anchors.
Anchors(v, t) ==
  {Bottom(v.bars[s.at], t) : s \in Sweep(v, t)} \union {o.far : o \in Block(v, t)}
  \union {Signed(s.price, t) : s \in LastSwing(v, Turned(t))}
PlanStop(v, t) ==
  LET farthest == CHOOSE x \in Anchors(v, t) : \A y \in Anchors(v, t) : x <= y
  IN  2 * farthest - StopBuffer

\* collectLongTargets, collectShortTargets: levels beyond the entry, swept ones and
\* those of other timeframes too, the last swing a second time, nearest first.
Targets(v, ctx, t) ==
  LET own == {[price |-> 2 * Signed(l.price, t), from |-> <<"level", l.at, l.equal>>] :
                l \in {l \in LiquidityLevels(v.swings) : l.side = t}}
      last == {[price |-> 2 * Signed(s.price, t), from |-> <<"swing", s.at>>] :
                 s \in LastSwing(v, t)}
      others == {[price |-> 2 * Signed(p, t), from |-> <<"other", p>>] : p \in ctx.levels}
  IN  SetToSortSeq({x \in own \union last \union others : x.price > Entry(v, t)},
                   LAMBDA x, y : x.price < y.price)

\* Twice the least ratio of reward to risk of each target; one that is projected
\* from the risk, for want of a level, has at least that.
MinRatios == <<3, 5, 6>>
\* validatePlan
Executable(v, ctx, t) ==
  /\ Gap(v, t) \union Block(v, t) # {} /\ Anchors(v, t) # {}
  /\ PlanStop(v, t) < Entry(v, t)
  /\ \A k \in 1..3 \cap DOMAIN Targets(v, ctx, t) :
       2 * (Targets(v, ctx, t)[k].price - Entry(v, t))
         >= MinRatios[k] * (Entry(v, t) - PlanStop(v, t))

PlanOf(v, ctx, t, sure) ==
  [side |-> t, evidence |-> Evidence(v, t), sure |-> sure,
   entry |-> Entry(v, t), stop |-> PlanStop(v, t),
   targets |-> [k \in 1..3 \cap DOMAIN Targets(v, ctx, t) |-> Targets(v, ctx, t)[k].price]]
-----------------------------------------------------------------------------
View(b, of, early) ==
  [bars |-> b, swings |-> Swings(of), breaks |-> Breaks(of),
   sweeps |-> Sweeps(b, LiquidityLevels(Swings(of))),
   gaps |-> KnownGaps(b, early), blocks |-> Blocks(b, Breaks(of))]

\* evaluateCandle: the first setup that is ready, a long before a short.
EvaluateCandle(asked, early) ==
  LET v == View(KnownBars(asked), StructureBars(KnownBars(asked)).of, early) IN
  \E ctx \in Contexts :
    LET ready == {t \in Edges : IsReady(v, ctx, t)}
        t == IF "HIGH" \in ready THEN "HIGH" ELSE "LOW"
    IN
    /\ ready # {} /\ Executable(v, ctx, t)
    /\ Analyse(asked, early)
    /\ plan' = PlanOf(v, ctx, t, said'.sure)

\* Somebody else's question, or a strategy's that comes to nothing.
OnlyAnalyse(asked, early) == Analyse(asked, early) /\ plan' = NoPlan

SetupNext ==
  \/ SeriesMoves /\ UNCHANGED plan
  \/ \E asked \in Askable, early \in BOOLEAN :
       OnlyAnalyse(asked, early) \/ EvaluateCandle(asked, early)
SetupSpec == SetupInit /\ [][SetupNext]_setupVars
-----------------------------------------------------------------------------
SetupTypeOK ==
  /\ SmartTypeOK
  /\ plan # NoPlan => /\ plan.side \in Edges /\ {plan.entry, plan.stop} \subseteq Int
                      /\ plan.stop < plan.entry /\ plan.evidence # {}
                      /\ plan.sure \in 0..settled

\* A plan to trade rests on things that the market then turns out to have shown: all of
\* its evidence that was of settled candles is there in the candles as they stand now.
\* What the market can take back was of a candle that could still change.
PlansStandOnFacts ==
  plan # NoPlan => UpTo(plan.evidence, plan.sure) \subseteq Analysis(series, series, FALSE)
=============================================================================
