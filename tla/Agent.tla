------------------------------- MODULE Agent -------------------------------
(***************************************************************************)
(* A cycle of the autonomous agent (src/agent): health probe, circuit      *)
(* breaker, exits of the ExitManager, and the scan of every symbol for an  *)
(* entry, with the positions that stops, other strategies and the API open *)
(* and close while it awaits probes, the debate and the engine.            *)
(*                                                                         *)
(* A stretch of the cycle between two awaits is one action per symbol.     *)
(* What the market analysis decides (regime seen, setup ready, thesis,     *)
(* plan, correlation, confidence) is any outcome; what the agent makes of  *)
(* it is modelled.  SignalPipeline has the engine it submits to: here a    *)
(* submission is refused by the conflict rules, dropped as a repetition of *)
(* the last close of the symbol, or answered by the broker.                *)
(*                                                                         *)
(* A definition with an underscore in its name is a plausible slip in the  *)
(* definition it is named after: no action uses it.                        *)
(***************************************************************************)
EXTENDS Integers, FiniteSets

CONSTANTS
  Symbols,
  OtherSymbols,         \* those that others than the agent open positions on
  MaxOpen,              \* maxOpenPositions
  Bars,                 \* regimeConfirmationBars
  MaxLives              \* bound: positions a symbol ever has

ASSUME AgentAssumption ==
  /\ OtherSymbols \subseteq Symbols /\ IsFiniteSet(Symbols)
  /\ MaxOpen \in Nat /\ Bars \in Nat \ {0} /\ MaxLives \in Nat

VARIABLES
  pos,                  \* side 0: flat; life: its openedAtUtc; cuts: history, its de-risks
  cycle,                \* where runCycle is, and what it read
  regime,               \* symState.regime and regimeObservationCount
  setup,                \* symState.trackingSetup
  cooling,              \* symbols with an entry attempt less than cooldownMs ago
  derisked,             \* scaledOutPositions, of <<symbol, life>>
  lastClose,            \* the engine's last CLOSE signal of the symbol
  breaker,              \* the latch; "cooled": its cooldown is over
  market,               \* the breaker's inputs: a drawdown or an unhealthy market; a streak
  loss                  \* the band of the symbol's unrealized loss

exits == <<derisked, lastClose>>
world == <<market, loss>>
vars  == <<pos, cycle, regime, setup, cooling, exits, breaker, world>>

Sides == {-1, 1}
Regimes == {"trend", "chop"}
Losses == {"small", "large", "breach"}
Pcs == {"idle", "probing", "exiting", "closing", "derisking", "scanning",
        "deciding", "entering"}

\* A close signal: all of the position, or the one de-risk of a life.
All == 0
NoSignal == [of |-> -1, ok |-> FALSE]

IsOpen(s) == pos[s].side # 0
OpenSymbols == {s \in Symbols : IsOpen(s)}
Life(s) == <<s, pos[s].life>>

Init ==
  /\ pos = [s \in Symbols |-> [side |-> 0, life |-> 0, cuts |-> 0]]
  /\ cycle = [pc |-> "idle", todo |-> {}, live |-> {}, barred |-> FALSE,
              seen |-> {}, cur |-> {}, of |-> All, side |-> 0]
  /\ regime = [s \in Symbols |-> [now |-> "none", count |-> 0]]
  /\ setup = [s \in Symbols |-> "none"]
  /\ cooling = {} /\ derisked = {}
  /\ lastClose = [s \in Symbols |-> NoSignal]
  /\ breaker = "clear"
  /\ market = [what \in {"unsafe", "streak"} |-> FALSE]
  /\ loss = [s \in Symbols |-> "small"]

\* A position that is gone, or turned, has no loss.
NoLossAfter(s, changed) == loss' = IF changed THEN [loss EXCEPT ![s] = "small"] ELSE loss

\* A symbol is done with; the cycle goes on with the others.
Done(s, pc) == cycle' = [cycle EXCEPT !.pc = pc, !.todo = @ \ {s}, !.cur = {},
                                     !.of = All]
Awaits(s, pc) == cycle' = [cycle EXCEPT !.pc = pc, !.cur = {s}]
-----------------------------------------------------------------------------
(* Probe, breaker *)

\* guardedCycle: a tick during a cycle is skipped.
StartCycle ==
  /\ cycle.pc = "idle"
  /\ cycle' = [cycle EXCEPT !.pc = "probing"]
  /\ UNCHANGED <<pos, regime, setup, cooling, exits, breaker, world>>

BreakerAfter_StreakTrips ==
  IF breaker = "tripped" \/ market.unsafe \/ market.streak
  THEN "tripped" ELSE "clear"
\* CircuitBreaker.check: a latch whose cooldown is over opens, and the same
\* check may trip it again; a streak of losses only makes entries smaller.
BreakerAfter ==
  IF breaker = "tripped" \/ market.unsafe
  THEN "tripped" ELSE "clear"

Probed_BreakerFirst ==
  /\ cycle.pc = "probing"
  /\ breaker' = BreakerAfter
  /\ cycle' = [cycle EXCEPT !.pc = "exiting", !.barred = breaker' # "clear",
                            !.todo = IF breaker' = "clear" THEN OpenSymbols ELSE {}]
  /\ UNCHANGED <<pos, regime, setup, cooling, exits, world>>

\* The health probe has answered: check the breaker, then exits whatever it says.
Probed ==
  /\ cycle.pc = "probing"
  /\ breaker' = BreakerAfter
  /\ cycle' = [cycle EXCEPT !.pc = "exiting", !.barred = breaker' # "clear",
                            !.todo = {s \in Symbols : pos[s].life > 0}]
  /\ UNCHANGED <<pos, regime, setup, cooling, exits, world>>
-----------------------------------------------------------------------------
(* ExitManager.evaluateExits *)

\* The regime it compares with is the one last committed.
Flips(s, seen) == seen = "chop" /\ (pos[s].side = 1 \/ regime[s].now = "trend")
MustExit(s, seen) == loss[s] = "breach" \/ Flips(s, seen) \/ setup[s] = "dead"

MayDerisk_Again(s) == loss[s] \in {"large", "breach"}
MayDerisk(s) == loss[s] \in {"large", "breach"} /\ Life(s) \notin derisked

\* Position objects are live: one that closed since the list was made is skipped.
Evaluate(s, seen) ==
  /\ cycle.pc = "exiting" /\ s \in cycle.todo
  /\ LET next == IF ~IsOpen(s) THEN "exiting"
                 ELSE IF MustExit(s, seen) THEN "closing"
                 ELSE IF MayDerisk(s) THEN "derisking" ELSE "exiting"
     IN  cycle' = [cycle EXCEPT !.pc = next,
           !.live = IF IsOpen(s) THEN @ \union {Life(s)} ELSE @,
           !.todo = IF next = "exiting" THEN @ \ {s} ELSE @,
           !.cur = IF next = "exiting" THEN {} ELSE {s},
           !.of = IF next = "derisking" THEN pos[s].life ELSE All]
  /\ UNCHANGED <<pos, regime, setup, cooling, exits, breaker, world>>

\* submitClose, submitScaleOut: a repetition of the last close signal is dropped
\* and answered with what became of that one.
CloseDropped(s) ==
  /\ cycle.pc \in {"closing", "derisking"} /\ s \in cycle.cur
  /\ lastClose[s].of = cycle.of
  /\ derisked' = IF cycle.pc = "derisking" /\ lastClose[s].ok
                 THEN derisked \union {<<s, cycle.of>>} ELSE derisked
  /\ Done(s, "exiting")
  /\ UNCHANGED <<pos, regime, setup, cooling, lastClose, breaker, world>>

\* The cut of a life that has ended during the await falls on the next one, and
\* is remembered, and counted, of the one it was meant for.
CloseAnswered(s, ok) ==
  /\ cycle.pc \in {"closing", "derisking"} /\ s \in cycle.cur
  /\ lastClose[s].of # cycle.of
  /\ ok => IsOpen(s)
  /\ lastClose' = [lastClose EXCEPT ![s] = [of |-> cycle.of, ok |-> ok]]
  /\ pos' = CASE ~ok -> pos
              [] ok /\ cycle.pc = "closing" -> [pos EXCEPT ![s].side = 0]
              [] ok /\ cycle.pc = "derisking" /\ pos[s].life = cycle.of ->
                   [pos EXCEPT ![s].cuts = @ + 1]
              [] OTHER -> pos
  /\ derisked' = IF cycle.pc = "derisking" /\ ok
                 THEN derisked \union {<<s, cycle.of>>} ELSE derisked
  /\ NoLossAfter(s, ok /\ cycle.pc = "closing")
  /\ Done(s, "exiting")
  /\ UNCHANGED <<regime, setup, cooling, breaker, market>>

\* Forget what was done to positions that are gone, and read the portfolio.
EndExits ==
  /\ cycle.pc = "exiting" /\ cycle.todo = {}
  /\ derisked' = derisked \intersect cycle.live
  /\ cycle' = [cycle EXCEPT !.pc = "scanning", !.todo = Symbols, !.live = {},
                            !.seen = OpenSymbols]
  /\ UNCHANGED <<pos, regime, setup, cooling, lastClose, breaker, world>>
-----------------------------------------------------------------------------
(* The scan of the symbols *)

Observed_OffByOne(r, seen) ==
  IF r.now = "none" THEN [now |-> seen, count |-> 0]
  ELSE IF r.now = seen THEN [r EXCEPT !.count = IF @ = 0 THEN 0 ELSE @ - 1]
  ELSE IF r.count >= Bars THEN [now |-> seen, count |-> 0]
  ELSE [r EXCEPT !.count = @ + 1]
\* A change is committed after Bars observations of another regime, which one
\* of the same regime takes back.
Observed(r, seen) ==
  IF r.now = "none" THEN [now |-> seen, count |-> 0]
  ELSE IF r.now = seen THEN [r EXCEPT !.count = IF @ = 0 THEN 0 ELSE @ - 1]
  ELSE IF r.count + 1 >= Bars THEN [now |-> seen, count |-> 0]
  ELSE [r EXCEPT !.count = @ + 1]
Observe(s, seen) == regime' = [regime EXCEPT ![s] = Observed(@, seen)]

\* evaluateScaleInForPosition: the setup that is tracked may be found invalidated.
RefreshSetup(s, dies) ==
  /\ dies => setup[s] = "live"
  /\ setup' = IF dies THEN [setup EXCEPT ![s] = "dead"] ELSE setup

\* In position: the tracked setup is refreshed, and a pyramid add that passes its
\* gates is refused by the engine, since the position it adds to is open.
InPosition(s, seen, dies) ==
  /\ cycle.pc = "scanning" /\ s \in cycle.todo
  /\ s \in cycle.seen /\ IsOpen(s)
  /\ Observe(s, seen)
  /\ RefreshSetup(s, dies)
  /\ Done(s, "scanning")
  /\ UNCHANGED <<pos, cooling, exits, breaker, world>>

Free(s) == s \notin cycle.seen \/ ~IsOpen(s)

\* STAND_ASIDE, MONITOR, REJECTED before the debate.
PassOver(s, seen) ==
  /\ cycle.pc = "scanning" /\ s \in cycle.todo /\ Free(s)
  /\ Observe(s, seen)
  /\ Done(s, "scanning")
  /\ UNCHANGED <<pos, setup, cooling, exits, breaker, world>>

\* A ready setup with a plan, put to the debate.
Consider(s, seen) ==
  /\ cycle.pc = "scanning" /\ s \in cycle.todo /\ Free(s)
  /\ Observe(s, seen)
  /\ ~cycle.barred /\ s \notin cooling
  /\ Cardinality(cycle.seen) < MaxOpen
  /\ Awaits(s, "deciding")
  /\ UNCHANGED <<pos, setup, cooling, exits, breaker, world>>

Vetoed(s) ==
  /\ cycle.pc = "deciding" /\ s \in cycle.cur
  /\ Done(s, "scanning")
  /\ UNCHANGED <<pos, regime, setup, cooling, exits, breaker, world>>

\* checkConflicts, for an entry.
Conflicts(s, side, confident) ==
  IsOpen(s) /\ (pos[s].side = side \/ ~confident)

Submit(s, side, confident) ==
  /\ cycle.pc = "deciding" /\ s \in cycle.cur
  /\ setup' = [setup EXCEPT ![s] = "live"]
  /\ cooling' = cooling \union {s}
  /\ IF Conflicts(s, side, confident) THEN Done(s, "scanning")
     ELSE cycle' = [cycle EXCEPT !.pc = "entering", !.side = side]
  /\ UNCHANGED <<pos, regime, exits, breaker, world>>

Opened(p, side) == [side |-> side, life |-> p.life + 1, cuts |-> 0]

\* The broker fills the entry or not; against an open position it flips it, and
\* openedAtUtc stays.
EntryAnswered(s, ok) ==
  /\ cycle.pc = "entering" /\ s \in cycle.cur
  /\ ok /\ ~IsOpen(s) => pos[s].life < MaxLives
  /\ pos' = CASE ~ok -> pos
              [] ok /\ ~IsOpen(s) -> [pos EXCEPT ![s] = Opened(@, cycle.side)]
              [] ok /\ IsOpen(s) -> [pos EXCEPT ![s].side = cycle.side]
  /\ cycle' = [cycle EXCEPT !.pc = "scanning", !.todo = @ \ {s}, !.cur = {}, !.side = 0]
  /\ NoLossAfter(s, ok)
  /\ UNCHANGED <<regime, setup, cooling, exits, breaker, market>>

\* What the scan awaits throws: guardedCycle gives the cycle up.
CycleFails ==
  /\ cycle.pc \in {"scanning", "deciding"}
  /\ cycle' = [cycle EXCEPT !.pc = "idle", !.todo = {}, !.cur = {}, !.seen = {},
                            !.barred = FALSE]
  /\ UNCHANGED <<pos, regime, setup, cooling, exits, breaker, world>>

EndCycle ==
  /\ cycle.pc = "scanning" /\ cycle.todo = {}
  /\ cycle' = [cycle EXCEPT !.pc = "idle", !.seen = {}, !.barred = FALSE]
  /\ UNCHANGED <<pos, regime, setup, cooling, exits, breaker, world>>
-----------------------------------------------------------------------------
(* The world: other actors, prices, timers *)

OtherOpens(s, side) ==
  /\ s \in OtherSymbols /\ ~IsOpen(s) /\ pos[s].life < MaxLives
  /\ pos' = [pos EXCEPT ![s] = Opened(@, side)]
  /\ UNCHANGED <<cycle, regime, setup, cooling, exits, breaker, world>>

\* A stop, a target, liquidation, another strategy or the operator.
OtherCloses(s) ==
  /\ IsOpen(s)
  /\ pos' = [pos EXCEPT ![s].side = 0]
  /\ NoLossAfter(s, TRUE)
  /\ UNCHANGED <<cycle, regime, setup, cooling, exits, breaker, market>>

\* Prices and the breaker's inputs move until the cycle reads them: a move while it
\* reads neither is not told from one before the next reading.
PriceMoves(s, l) ==
  /\ cycle.pc \in {"idle", "probing", "exiting"}
  /\ IsOpen(s) /\ l # loss[s]
  /\ loss' = [loss EXCEPT ![s] = l]
  /\ UNCHANGED <<pos, cycle, regime, setup, cooling, exits, breaker, market>>

MarketMoves(what) ==
  /\ cycle.pc \in {"idle", "probing"}
  /\ market' = [market EXCEPT ![what] = ~@]
  /\ UNCHANGED <<pos, cycle, regime, setup, cooling, exits, breaker, loss>>

EntryCooldownOver(s) ==
  /\ s \in cooling
  /\ cooling' = cooling \ {s}
  /\ UNCHANGED <<pos, cycle, regime, setup, exits, breaker, world>>

BreakerCools ==
  /\ breaker = "tripped"
  /\ breaker' = "cooled"
  /\ UNCHANGED <<pos, cycle, regime, setup, cooling, exits, world>>

\* expireSignals, of a close signal that was executed.
CloseSignalExpires(s) ==
  /\ lastClose[s].ok
  /\ lastClose' = [lastClose EXCEPT ![s] = NoSignal]
  /\ UNCHANGED <<pos, cycle, regime, setup, cooling, derisked, breaker, world>>
-----------------------------------------------------------------------------
\* A step of a cycle that has begun: every await ends.
Proceed ==
  \/ Probed \/ EndExits \/ EndCycle
  \/ \E s \in Symbols :
       \/ \E seen \in Regimes :
            \/ Evaluate(s, seen)
            \/ \E dies \in BOOLEAN : InPosition(s, seen, dies)
            \/ PassOver(s, seen) \/ Consider(s, seen)
       \/ CloseDropped(s) \/ Vetoed(s)
       \/ \E ok \in BOOLEAN : CloseAnswered(s, ok) \/ EntryAnswered(s, ok)
       \/ \E side \in Sides, confident \in BOOLEAN : Submit(s, side, confident)

World ==
  \/ \E s \in Symbols :
       \/ \E side \in Sides : OtherOpens(s, side)
       \/ OtherCloses(s)
       \/ \E l \in Losses : PriceMoves(s, l)
       \/ EntryCooldownOver(s) \/ CloseSignalExpires(s)
  \/ \E what \in DOMAIN market : MarketMoves(what)

Next == StartCycle \/ Proceed \/ CycleFails \/ BreakerCools \/ World

Spec == Init /\ [][Next]_vars

\* The timer ticks, what is awaited answers or throws, and cooldowns pass.
FairSpec == Spec /\ WF_vars(StartCycle) /\ WF_vars(Proceed) /\ WF_vars(BreakerCools)
-----------------------------------------------------------------------------
(* Properties *)

\* The state has its type; a de-risk is remembered only of a life the symbol has
\* had.
TypeOK ==
  /\ pos \in [Symbols -> [side: Sides \union {0}, life: 0..MaxLives, cuts: Nat]]
  /\ cycle \in [pc: Pcs, todo: SUBSET Symbols, live: SUBSET (Symbols \X (1..MaxLives)),
                barred: BOOLEAN, seen: SUBSET Symbols, cur: SUBSET Symbols,
                of: 0..MaxLives, side: Sides \union {0}]
  /\ Cardinality(cycle.cur) =
       (IF cycle.pc \in {"closing", "derisking", "deciding", "entering"} THEN 1 ELSE 0)
  /\ regime \in [Symbols -> [now: Regimes \union {"none"}, count: 0..(Bars - 1)]]
  /\ setup \in [Symbols -> {"none", "live", "dead"}]
  /\ cooling \subseteq Symbols
  /\ \A d \in derisked : d[2] \in 1..pos[d[1]].life
  /\ lastClose \in [Symbols -> [of: -1..MaxLives, ok: BOOLEAN]]
  /\ breaker \in {"clear", "tripped", "cooled"}
  /\ market \in [{"unsafe", "streak"} -> BOOLEAN]
  /\ loss \in [Symbols -> Losses]

\* The one-time de-risk of a position happens at most once in its life, over
\* rejected and repeated attempts, closes by others and reopenings.
DeriskOnce == \A s \in Symbols : pos[s].cuts <= 1

\* A position in breach is submitted for closing again and again until it is
\* closed or recovers, tripped breaker or not.
ExitsAlwaysRun ==
  \A s \in Symbols :
    <>[](IsOpen(s) /\ loss[s] = "breach") => []<>(cycle.pc = "closing" /\ s \in cycle.cur)

\* The breaker does not latch for good: with the market healthy and no drawdown,
\* it clears, whatever the streak of losses that only a new entry could end.
BreakerReleases ==
  <>[]~market.unsafe => <>[](breaker = "clear")

\* The agent's header: no new entry with the portfolio at maxOpenPositions.
NeverOverBudget ==
  cycle.pc = "entering" => Cardinality(OpenSymbols \ cycle.cur) < MaxOpen
=============================================================================
