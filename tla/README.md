# Formal model of paper-broker

paper-broker is a trading platform in TypeScript: market data becomes candles
and setups, strategies and agents turn those into signals, signals become
orders, a simulated exchange (or a live venue) fills them, and SQLite keeps the
account across restarts. This directory holds TLA+ modules translated from its
source, the TLC configurations that check them on small instances, and theorems
checked by TLAPS.

    tlc -workers 2 -config MCPaperBroker_core.cfg MCPaperBroker
    tlapm PaperBroker_proof.tla        (likewise the other *_proof modules)

Paths below are relative to the repository's `src/`, `broker/…` meaning
`src/broker/…`. `PROJECT.json` maps every definition to its lines.

## 1. The system

| Component | State it keeps | Operations | Modelled by |
|---|---|---|---|
| Paper broker `broker/PaperBroker.ts` | orders, netted positions, fills, wallet and totals, quotes, daily baseline | submitOrder, cancelOrder, cancelAllOrders, onMarket (match, liquidate), applyFunding, adjustWalletBalance, resetAccount | `Netting`, `PaperBroker`, `AccountLedger` |
| Persistence `persistence/BrokerPersister.ts`, `db.ts` | rows of orders, positions, fills, funding | one statement per save, load at construction, reset | `BrokerPersistence` |
| Execution `execution/*`, `coindcx/CoinDCXBroker.ts` | armed flag, safe mode, last report | route to paper or venue, arm, disarm, reconcile, resume | `Execution` |
| Signal pipeline `strategy/StrategyEngine.ts`, `SignalExecutor.ts`, `SignalLoopDetector.ts`, `OrderFactory.ts`, `SizingEngine.ts`, `trading/TradeIntentEngine.ts`, `strategies/smc-agent.ts` | cooldowns, last signal per key, symbol lock, loop streaks, signal rows | handleSignal, submitSignal, execute, expireSignals | `SignalPipeline`, `Sizing` |
| Autonomous agent `agent/*` | cycle, positions read, breaker, de-risk marks, regimes, tracked setups | cycle: health, breaker, exits, scan, entries, adds | `Agent` |
| Trailing stops `trading/risk/TrailingStop*.ts` | tracker per symbol, in-flight set | onPrice, move stop, forget | `TrailingStops` |
| Risk governors `trading/goals/*`, `strategy/StrategyPerformance*.ts`, `risk/*`, `trading/risk/RiskEngine.ts` | goals and their periods, quarantines, files; what a scan read | record PnL, roll, release, save, load; regime overlay, plan, correlation guard, limits | `Governors`, `Exposure` |
| Market data `binance/streams.ts`, `market/*` | streams, candles, quotes, provider health | messages, reconnect, fetch, failover, status per timeframe | `Feed` |
| Market analysis `market/structure`, `market/smc`, `market/setup`, `market/execution`, `market/liquidity`, `analysis/*` | caches and what was said | structure, zones, setups, plans; context, thesis, scenarios, qualification | `SmartMoney`, `Setups`, `Scenarios` |
| Language-model agents `ai/tradingAgents.ts` | a debate under way | analysts, researchers, judge, trader, personas, fund manager | `Debate` |
| SMC paper broker `broker/paper/*`, `research/replay` | orders, position, account, ledger of trades | candle, submit, fill, exits, liquidation, funding | `SmcReplay` |
| Backtest `backtest/BacktestRunner.ts` | replay clock, buckets, curve | bar, candles over, funding, results | `Backtest` |
| Event log `persistence/EventLog.ts`, `agent/PerformanceTracker.ts` | sequence, rows, lines, streak | append, recover, refresh | `EventLog` |
| Gateway and dashboard `api/websocket/*`, `dashboard/src/lib/wsConnection.ts`, `stores/autonomousStore.ts` | clients, heartbeat, backoff, panel | connect, broadcast, poll | `LiveLink` |
| HTTP API, scheduler, engine wiring, exchange connections | – | handlers, jobs, start, stop | in the modules they act on (section 6) |

How they interact. The streams call `broker.onMarket` for every tick and the
strategies for every candle; strategies and agents submit signals, the executor
calls `ExecutionRouter.submitOrder`, which awaits the broker or a live venue;
fills come back through `onFill` to goals, trackers and the event log; timers
call the agent's cycle, applyFunding, expireSignals and the roll at midnight;
the HTTP API calls everything. JavaScript runs one synchronous stretch at a
time, so PaperBroker's methods never overlap; every chain of `await`s above it
may, and that is where most hazards are.

What is hard. In the broker: loops over maps that their own body changes
(matching, liquidation, funding), an order that cancels itself as a stale
bracket while it fills, and liquidation driven by the ticks of one symbol for an
account margined across all. Below it: statements without transactions, and a
wallet that is recomputed rather than stored. Above it: positions and accounts
read before an await and used after it, by actors that do not know each other.
At the edges: streams that keep no order among one another, connections that
come back without what they lost, models that fail, files overwritten in place,
and a shutdown that may hang. `PROJECT.json` lists each hazard at its line with
the properties that would catch it.

What makes each part correct: an account whose wallet, positions, fills and
orders tell the same story (broker), and again after a crash (persistence); no
exit that opens (execution); no entry that races another, no plan traded twice,
a row that says what happened (pipeline); exits that always run and a breaker
that releases (agent); protection that only tightens (trailing); limits that
outlive the process, and hold for what they were computed from (governors);
data that is the exchange's or says it is not (feed); an analysis that does not
see the future and does not take back what it said of what has settled (analysis,
backtest).

## 2. Modules

Definitions with an underscore (`Settled_CancelLast`) are plausible slips of the
definition before the underscore; no action uses them. Substituting one makes
TLC violate the property it is listed with in `PROJECT.json`, which shows that
the property can fail. Histories that no field of the code holds (`said`,
`heard`, `value`, `torn`) record what the properties speak of.

### The account

**`Netting`** – `applyPositionFill` as pure operators: `Netted` (the position
after a fill) and `Realized` (the PnL it realizes).

**`PaperBroker`** – the class of that name; variables are its fields.
`SubmitFilled` and `SubmitUnfilled` are submitOrder, split by how the order ends
(`Outcome`: the stale-market check, `RiskOK` = checkOrderRisk, then the cases by
order type); `FillOrder` is fillOrder with executeFill, applyPositionFill and
cancelStaleBracketOrders inside. `OnMarket` merges a tick and starts
evaluateOpenOrders; `MatchOrder` is one iteration that fills; `EndMatching`
enters checkLiquidation, `LiquidatePosition` is one of its iterations;
`ApplyFunding` and `FundPosition` likewise. `phase`, `cursor`, `tickSym`,
`unpaid` are the loops' locals: while one runs no other method starts, so a
state between two of its steps is what an onFill observer sees.
Quantities are step counts, prices price units, money multiples of
1/MoneyScale, so all arithmetic is exact (the code uses Decimal) but for the
entry price of an increase, rounded as `toFixed` rounds it; a price 0 stands for
one never quoted. Ids, timestamps, payloads, peakEquity and drawdown, and the
allow…Orders flags are left out. PARTIALLY_FILLED and INVALID_EXECUTION_PRICE
cannot occur: a fill takes the whole remaining quantity, and an order that
passed `NO_VALID_PRICE` has a price. The order in which liquidation and funding
visit positions (a Map's) is any order. The callers' check that a transfer is
covered is part of `AdjustWalletBalance`.

**`AccountLedger`** – the abstract account: trades, netted positions, a wallet
that only trades, funding, a covered transfer or a reset may move, and an
insolvent account frozen until closed out. `PaperBroker!ImplementsLedger`
instantiates it with a refinement mapping (trades are the fills, `due` the
positions a funding sweep has left, `frozen` the liquidation loop). That a sweep
settles and a liquidation ends is the fairness of the ledger, `Live`;
`InsolvencyEnds` says that the broker provides it.

**`BrokerPersistence`** – the broker's methods again, with one instrument, and
with prices, risk limits and order types left to chance (an over-approximation:
it keeps only what every accepted order satisfies, `Acceptable`), so that every
interleaving of writes and crashes fits a small instance. A method changes
memory and queues its statements in code order; `Write` runs the next, `Restart`
may fall between any two and rebuilds memory as the constructor does. Statements
that fail, and the loss of committed WAL pages in an operating-system crash, are
not modelled. `unsaved` sums the wallet changes no row accounts for; `torn`
counts restarts that cut a method short.

### From a decision to an order

**`Execution`** – where an order goes and what may stop it. `Destination` is the
synchronous part of ExecutionRouter.submitOrder with the guard; `calls` are the
submissions under way in CoinDCXBroker, each awaiting the venue's position
(`FindPosition`), acting on it (`ActOnPosition`) and awaiting the request's
effect (`VenueExecutes`, `RequestFails`: request or answer may be lost); `runs`
are the reconciliations under way, all acting on one `safeMode`; `Arm`, `Disarm`
and `Restart` come at any time. One instrument; shadow mode routes as paper
does; `liveArmed` and `realOrders` are one variable, since every assignment sets
both. What the paper broker does with an order is any change of `paper`. A
request under way when the process dies is executed before the restart or lost.

**`Sizing`** – SizingEngine (`SizePosition`) and PositionSizer with the risk
engine's margin test, in whole steps, with the rounding and the minimum that the
code applies.

**`SignalPipeline`** – the code between two awaits is one action: `Gate` is
processSignal up to the executor's first await (cooldown, duplicate, conflict,
symbol lock, insertion of the row), `ReadPosition` the read and the size,
`PositionThrows` a venue that cannot answer it (outside the executor's `try`: the
row stays CREATED and the caller is thrown at), `OrderAccepted`, `OrderRejected`, `OrderThrows`, `BracketAnswered` and
`BracketThrows` the broker's answers with what follows each, `Answer` the return
to submitSignal with the loop detector's bookkeeping, `StartDebate` to
`DebateOpens` the SMC strategy's wait for the models. Cooldown, lock, signal
lifetime and the detector's memory elapse in steps of their own; `TimersOutlast`
assumes that a submission ends before the timers it started (minutes against
round trips). One instrument; a broker that accepts, rejects or throws at any
request.

**`Agent`** – a cycle: `StartCycle`, the health probe, the breaker, each
position's exit checks and each symbol's entry checks, with the positions that
stops, other strategies and the API open and close between its awaits. What the
market analysis says (regime, setup, thesis, confidence) is any outcome; what
the agent makes of it is modelled, with the confirmation of regimes, the
tracked setup, de-risking, adds and the submission's refusal or loss.

**`TrailingStops`** – the controller with several passes of onPrice under way at
once: reading the position and the orders, placing the replacement, canceling
the old stop, each of which may fail, over positions of several lives. Prices
are steps of profit; a short is the mirror image.

**`Debate`** – TradingAgentsPipeline: every stage with its retries, its cloud
model and its fallback, then personas and the fund manager as rules. It runs as
a cycle that may approve an entry or as a consultation that may veto one. What
the trader proposes is any proposal its schema lets through, and the account may
be worth nothing or have nothing free.

### What holds trading back

**`Governors`** – profit goals, the quarantine of a strategy and of a setup
archetype, their files (written by truncating them, a write may fail or be cut
off), the roll at midnight, releases by the operator, a crash at any step, and
the shutdown of `index.ts` with its timer, a server that may hang, and repeated
signals.

**`Exposure`** – what an entry commits and who lets it: regime overlay, trade
plan, learning multiplier, correlation guard, pyramid adds, and the risk
engine's account limits behind the SMC agent. The agent reads a list of positions,
decides (`TakeUp`) and fills an await later (`AgentFills`), at a price that need not
be the planned one. The SMC agent's symbols each go from the plan (`DeskAsks`,
where both operands of the margin and size checks are read) through their debate to
the check of what is open (`DeskApproves`), then to the fill and to the stop, which
is an order of its own; between any two of these the others go on. The agent and
the SMC agent are not both in the middle of decisions: each is an `OtherEnters` to
the other. The correlation of a pair is given and symmetric, indicators are
classes, money is in units of thousandths.

**`EventLog`** – append's two writes, each of which may fail, a crash between
them, the recovery of the number, and PerformanceTracker's streak over it.

### Data and its reading

**`Feed`** – one symbol: what the exchange did (trades, finished bars), streams
that each arrive in order but in no order among one another, every trade told
twice, a connection that drops with what was on it, attempts to reconnect up to
their limit, fetched klines, the candle store, quotes, the supervisor with its
divergence guard, and the status of a timeframe.

**`SmartMoney`** – swings, breaks of structure, liquidity levels and sweeps, fair
value gaps and order blocks of one series, as set comprehensions over its bars,
behind the caches of both engines. A kline carries no `closeTime`
(`engine.ts:1242`, `Klines.ts:41`), so that `(closeTime ?? openTime) <= asOf` lets
the bar that is still forming count as closed, and the structure remembered by
count keeps its first shape: the model does both. `series` is what the store holds,
`settled` how many of its bars nothing will change any more: all but the last, or
but the last two while the final kline of the former is under way. What was said
binds up to `said.sure`, the bars that had settled when the structure was made.
The same question asked again is answered from SmcLocationEngine's cache, a step
that changes nothing. Trades arrive in order, and a final kline is late by one bar
at most. Both sides of the market are one, prices seen from below changing sign.

**`Setups`** (extends `SmartMoney`) – discovery of a setup from the oldest
evidence of each kind, its score, the stages of the state machine, and the
execution plan, asked for as of the opening of the 5-minute candle that closed: in
the bar of 15 minutes that is forming, or, once the next has opened, the one before.

**`Scenarios`** – the intelligence layer: bias and regime of five timeframes,
dealing range and position in it, aggregated zones, the liquidity map, thesis,
scenario families, hierarchical score, qualification and the weights the agent
applies. `chart` is what there is to see, `choice` what the last evaluation made
of it; prices are basis points.

**`SmcReplay`** – SmcPaperBroker as ReplayEngine drives it: fills limited by
volume, three partial targets, break even, liquidation, funding, and the ledger
of trades; longs only, a short being the same with prices negated.

**`Backtest`** – the replay: each minute the bars of the symbols that have one,
the candles of two intervals that are over by it, the strategies told of them
with their look back, funding and curve, and the results. A candle is the set of
the minutes it is made of; strategies and broker are any fill.

**`LiveLink`** – the browser's socket with its backoff and stale detector, sockets
that were replaced while they closed and whose handlers still act on the manager
(`LateClose`), the gateway with its client limit, connection window and heartbeat, a network that fails and comes
back with or without its connections, and the breaker's state, which reaches the
panel by broadcasts and by polled snapshots.

### Instances and proofs

`MCPaperBroker`, `MCBrokerPersistence`, `MCExecution`, `MCSignalPipeline`,
`MCAgent` give the constants values for TLC. `MCPlatform` puts twelve components
that share no state side by side: a behaviour is one part chosen at the start,
while the others stay as initialised (`OtherThan`); the state space is the sum,
not the product, of theirs. It is no claim about their interaction.
The theorems are in modules that extend the component they are about:
`PaperBroker_proof`, `BrokerPersistence_proof`, `Execution_proof`,
`SignalPipeline_proof`, `Agent_proof` (agent, debate, exposure, live link,
scenarios), `Stops_proof` (trailing stops, replay broker) and `Platform_proof`
(event log, governors, feed, analysis with setups, backtest). `CollectionLemmas`
holds the lemmas about `Min`, `Max`, sums and shares that several of them use.

## 3. What TLC checks

| Run | Instance | Shows |
|---|---|---|
| core | one instrument, 4 orders out of 9 commands (every type that can rest or fill, IOC/FOK/post-only, reduce-only), 4 ticks | `AuditChain`, `BracketsFaceLivePosition`, `ReduceOnlyAlwaysExits`, `FillConservesEquity` |
| cross | two instruments, 3 orders, funding, a transfer out, a reset, midnight; a tick of the first moves book and mark together; with fairness | `LedgerIdentity`, `TickEndsSolvent`, `InsolvencyEnds`, the refinement `ImplementsLedger` |
| restart | 3 orders out of 3 commands, a funding sweep, transfers, a reset, 2 crashes | `RestartIsFaithful`, `GapsOnlyFromTornWrites`, `RestartKeepsProtection` |
| routing | 2 submissions of 4 commands and 2 reconciliations under way, any arming and restarts | `ExitsNeverOpen` |
| signals | two evaluations of the SMC strategy and the agent, entries, exits and partial exits, a broker that rejects or throws, positions closed by others; with fairness | `EntriesDoNotRace`, `RowsTellTrades`, `PlansTradeOnce`, `SizesAreSafe`, `RowsSettle` |
| platform | the twelve parts below, each with its fairness | see the next table |
| flip | as core, 3 orders | **violated**: `ReduceOnlyNeverFlips` |
| double | as restart with 4 commands, 1 crash | **violated**: `OneFillPerOrder` |
| money | transfers, 1 crash | **violated**: `TransfersConserveMoney` |
| blind | as routing | **violated**: `NeverTradesBlind` |
| exits | as signals, with positions opened by others | **violated**: `ExitsAlwaysPass` |
| budget | two symbols, room for one position | **violated**: `NeverOverBudget` |

core, restart, routing and signals also check the type invariant of their module,
`platform` that of each part (`EveryTypeOK`); cross shares core's.

The parts of `platform`:

| Part | Instance | Shows |
|---|---|---|
| Agent | one symbol that others trade too, two lives of its position, a regime confirmed by one bar | `DeriskOnce`, `ExitsAlwaysRun`, `BreakerReleases` |
| TrailingStops | two passes at once, two steps of profit, three stops, two lives | `ProtectionOnlyTightens` |
| SmcReplay | two signals with shared targets, ten candles that touch, gap over and cross them, two volumes, a funding payment of either sign | `ReplayBooksAgree` |
| LiveLink | a gateway capped at two connections, two new ones a window, one event under way, one replaced socket still to close | `LinkRecovers`, `BreakerShown` |
| Debate | two rounds, two tools, the three personas, proposals on, under and over each limit, accounts with much, little and nothing free, and one worth nothing | `ModelsOnlyAdvise` |
| EventLog | three events, a window of two trades | `LogIsTheHistory` |
| Governors | two closing fills, one roll, one file damaged at a time | `ThrottlesOutliveProcess`, `ShutdownEnds` |
| SmartMoney, Setups | six bars out of up to three shapes each, the last one or two still changing, swings of one bar on each side, three contexts of the other timeframes | `AnalysisNeverRepaints`, `PlansStandOnFacts` |
| Exposure | two assets that move together or against each other, three regimes, three charts, two positions held, fills 2 % above the plan, one other strategy with and without a stop | `EntriesFitTheBook` |
| Feed | two seconds with bars of one, two candles kept, a trade told twice, one loss of the connection or failed fetch, one attempt to reconnect | `FeedIsHonest` |
| Scenarios | 13 markets of five timeframes, 7 scenes of price, zones and liquidity, 10 sets of evidence: 560 coherent charts | `EntriesKeepToTheTrend`, `ShortsMirrorLongs` |
| Backtest | nine minutes, candles of two and of four, two symbols with four patterns of missing bars, one fill | `BacktestSeesNoFuture` |

**Why the bounds are enough.** Four orders open, add to or reduce, protect twice
and close or flip one position; brackets of both types, a stop that outlives its
size and a liquidation of a leveraged position all fit. Prices take three levels:
below, at and above every limit and stop. Margin figures are chosen so that one
adverse tick after a full-size position is below the maintenance margin, and so
that exposure caps, the open-order cap and the daily-loss breaker each reject
something. Two instruments suffice for a liquidation that must close what
another symbol's tick ruined. In restart, the second crash may hit what the first
one left; `MaxOrders` counts orders over the whole history, because ids are
never reused. In routing, two callers and two runs give every pair of overlaps;
positions up to 2 tell an exit that covers the position from one that does not;
nothing counts, so histories are unbounded. In signals, two callers share a
strategy and one has its own, which gives the overlaps of one key, of two keys
of one strategy and of two strategies; two submissions each let a second meet
what the first left; equities make one size bound by the risk, the other by the
notional. Others may only close the position there: what others open is in the
run exits, whose counterexample needs it.

A defect of the trailing stops needs two passes and a refused request, one of
the replay broker two positions that meet in one map, one of a debate a stage
that fails next to one that does not, one of the log a torn line before another
event; each instance has these and one more of the actor at fault. The six bars
of the setups are what a swing, its break, a gap or a block, and the return into
it take. The markets of the scenarios have each thesis and each regime, the
scenes each position in the range and each way zones and liquidity can lie
around the price; entries of both directions are reached. Smaller instances of
Feed and Backtest never replace a finished candle or miss a whole one. Bounds
that only stop a counter are the constants named `Max…` (`MaxOpen`,
`MaxPositions`, `MaxAge`, `MaxRepeats` and the like are limits of the code, and
say so where they are declared).

**Fairness**, and why the code justifies it.

* `PaperBroker`: a method that has started runs to its end (it is synchronous and
  its loops are over finite maps), and the feed goes on ticking. Nobody needs to
  trade. Used by `InsolvencyEnds`, which includes the fairness of the ledger
  (`ImplementsLedger` itself is of safety).
* `SignalPipeline`: an invocation that awaits goes on (requests have timeouts), and
  the job that expires signals runs every five seconds (`scheduler/jobs.ts:102`).
  Nobody needs to submit. Used by `RowsSettle`: a row gets its outcome, or its
  position could not be read and its signal no longer holds up the next one.
* `Agent`: the timer starts cycles, a cycle that runs goes on, and the breaker's
  cooldown passes. The market need not be healthy, nor the broker accept.
* `Governors`: a shutdown that has begun goes on unless a step of it hangs, and
  its timer fires. Nobody needs to stop the process.
* `LiveLink`: timers of both ends fire, a close completes, that of a replaced socket
  too, and what is under way arrives. A socket that tries again and again while the
  network is up opens at last (strong fairness of `SocketOpens`: an opening takes
  less than the backoff and the stale limit). The network need not come back: the
  properties speak of behaviours in which it stays.

All of it but that is weak fairness. The other modules have safety properties only.
`LinkRecovers` has an exception the code earns: the late onclose of a replaced
socket (`wsConnection.ts:91`) stops the detector of the one in its place, and a
socket that is open without one (`Unwatched`) is not closed by anybody when its wire
is dead, nor replaced, since `connect` returns at line 58. A machine that slept
through the closing of a socket gets there. The property says that nothing else
keeps the dashboard away.

`CHECK_DEADLOCK FALSE` is set where the bounded number of submissions is used up
(signals, exits): a process that is asked for nothing more stops there.

## 4. What is proved

`PaperBroker_proof` proves, for all values of the constants that satisfy the
module's assumptions (any symbols, commands and ticks of the right shape,
integer balances, natural fee rates, a positive scale and cap):

* `TypeCorrect`: `Spec => []TypeOK`. Every other proof uses it.
* `LedgerCorrect`: `LedgerIdentity` is inductive by itself: a lemma gives the
  five values each step adds to the wallet and the totals.
* `FillsMatchOrdersCorrect`, `AuditChainCorrect`: inductive with `TypeOK`. The
  lemmas `FillMarks` and `FillAppends` say what any fill does to the book and to
  the history, whichever of the three paths it took; `LastFillNew` and
  `LastFillOther` say how the last fill of a symbol changes when one is appended.
* `BracketsFaceLivePositionCorrect`: needs `FillEndsBrackets` (a fill that ends
  the exposure leaves no bracket resting) and `SameSide` (one that does not
  leaves the side), and that `RiskOK` lets only opposing reduce-only orders rest.
* `OpenOrderCapCorrect`: by the cardinality of the growing orders, which only a
  submission that passed the cap can raise.
* `ReduceOnlyAlwaysExitsCorrect`: a consequence of `TypeOK` and the definition of
  `RiskOK`, for every position.
* `TickEndsSolventCorrect`: an action property; `LiquidationCloses` says that
  closing the last closable position leaves none.
* `FillsConserveEquity`: an action property. `applyPositionFill` moves value between
  what is realized and what is open; the cases (open, add, reduce, close, flip) are
  identities of a product of quantities and prices, each a lemma over integers, and
  only an addition rounds, by at most half a price unit on each step then held
  (`RoundingError`, `AddingRounds`).
* `LedgerImplemented`: the refinement. The initial states map to initial states, and
  each action of the broker is one action of the ledger or leaves it as it is: a
  submission or a match that fills is a trade, a step of the funding loop a payment,
  one of the liquidation loop a close-out. That the ledger forbids what the broker
  might have done between two of its loops' steps needs `TypeOK` and that only
  the funding loop has positions left to settle (`LoopsApart`). Both this and the former add up over
  all symbols, and use `SymbolsAssumption`: a broker has finitely many instruments.

`BrokerPersistence_proof` proves, for any commands, prices, rates, amounts and
bounds, the invariant `PersistInv`: what is queued brings the tables to what memory
has, wherever a crash falls. Its parts:

* `StoreInv`, a statement about each table. For orders, that the last pending
  statement about an order says what memory has of it (`OrdersQueued`), and that
  the row of an order about which nothing is pending agrees with memory if it can
  trade in either (`OrdersTell`). For the position, the fills and the funding
  payments, that the table is as memory or something pending makes it so. That a
  reset has cleared memory before its first statement (`ResetsClear`), that a
  closed position is the flat one and that no transfer overdraws the spot wallet.
  `FillQueues` gives the statements of a fill, the same for its three callers, and
  `WriteShifts` what running one does; `StoresStep` has a lemma per action.
* `MoneyAdds`: the wallet in memory is the sum the constructor would compute, plus
  `unsaved`.
* `GapsCounted`: in memory and among the fill rows there are at most `torn` gaps.
  A fill opens none (`GapsOfAppended`); a restart in the middle of a method opens
  at most the one between the last row and the position (`InnerGapsFewer`).
* `RestartKeepsProtection` itself, which a restart keeps because a method that was
  not cut short left no row of an order without quantity (`Mends`).

From it follow `TypesAreKept`, `RestartsAreFaithful`, `GapsAreTorn` and
`RestartsProtect`. TLC checked each part on the whole instance of `restart` first.

`Execution_proof` proves, for any callers, runs, commands and positions:

* `TypeCorrect`, by one step per action.
* `LiveNeverSimulatedCorrect`: `LiveDestination` says that the adapter check and
  the guard together leave live mode no way to the paper broker.
* `OpenOnlyOnCleanReportCorrect`: inductive as it stands.
* `EntriesOnlyWhileArmedCorrect`: needs the invariant that no entry is ever
  waiting for a position to be read, so that it is sent in the step that checked
  the guard. Exits and brackets do wait, and have no such theorem.
* `OnlyOperatorResumesCorrect`, `ExitsNeverOpenCorrect`: by the case of each
  action, from `TypeOK`.

Six of these properties (`FillsMatchOrders`, `OpenOrderCap`,
`LiveNeverSimulated`, `OpenOnlyOnCleanReport`, `EntriesOnlyWhileArmed` and
`OnlyOperatorResumes`) are listed by no run: the proofs cover every instance.

`SignalPipeline_proof` proves, for any callers, signals, plans, equities, prices
and stops, the invariant `PipeInv`, a conjunction of named parts:

* `PipelineTypeCorrect`: `SubsTyped` (each submission) and `RestTyped` (rows,
  timers, memory), the second with the key of every remembered signal.
* `RowsTell`: the row of a submission that has returned is what its answer made of
  it. Inductive with `FlightsAreOwn` and `FlightsDiffer`: an invocation writes
  only to the row it inserted, and no two have the same one.
* `PlansOnce`: inductive with `PlansAreTaken`: the key of a plan that reached the
  executor is taken, and an evaluation that finds it taken goes no further.
* `SizesSafe`: `SizesAreOwed` holds of every submission that knows its size. The
  lemmas from `DivRoundsDown` to `LargestSafe` show what the rounding of
  `SizePosition` yields (the largest whole number of steps within risk and
  notional), `WithinMeans` the same of `PositionSizer` under the margin test.
* `EntriesNeverRace`: an entry in flight holds the symbol's lock and its key is
  cooling (`EntriesHold`), so that a second is turned away at `Gate`
  (`GateKeepsRacesOut`); the timers cannot elapse before it returns
  (`TimersKeepRacesOut`). It assumes what the run assumes: `TimersOutlast`, and
  `OverlapAssumption`, that a strategy whose evaluations overlap has a cooldown
  and the agent's cycles do not overlap (guardedCycle skips one that would).

`Agent_proof` proves, for any symbols and whatever others open and close between
two awaits, `AgentTypeCorrect` and `DerisksOnce`. The invariant `CutInv` says that
a mark exists from the accepted de-risk until the life of its position ends
(`CutsRemembered`), and that a cycle about to cut looks at a life that has not been
cut (`CutIsNew`).

It also proves:

* `DebateTypeCorrect` and `ModelsAdvise`, for any rounds, tools, personas and
  proposals: an approval has passed every rule, because the only steps that approve
  are those of the personas and the fund manager, and they look at the proposal and
  not at what a model said of it. What they leave of its size is the largest the
  account allows (`ReducedIsWithin`, from `ShareIsLess` and `MoreThanItsShare`), where
  the account is asked at all: one without equity or free margin is not.
* `ExposureTypeCorrect` and `EntriesFit`. The cap and the limit themselves are not
  kept: the check precedes the fill by awaits, and another entry of the same scan,
  another strategy or another symbol of the SMC agent may come in between. What is
  kept, and proved, is by how much they can be exceeded, counting every position that
  is open at the fill. `PlanStillFits` and `RisksFit` say it of what has not
  changed since the list was read or the check was made, `SinceCounts` that the
  histories hold what has, and `FilledFits` and `ProtectedFits` add the two up at
  the fill, with what it cost more than planned (`ExcessIs`).
* `LinkTypeCorrect`, by `LinkIs`, `GatewayIs` and `ScreenIs`: the gateway's clients
  stay within its cap although lost ones are counted until the heartbeat finds them.
* `AnalysisTypeCorrect` and `TrendKept`, for any markets, scenes, zones, pools and
  evidence. A setup against the four hours earns at most 85 points, 75 without a
  sweep (`ScoreIs`), so that its weighted score rounds to less than the minimum if
  `AsConfigured` holds of the three numbers: the defaults of `config/env.ts` (0.7,
  0.3 and 65) satisfy it, and an operator may choose others, for which the theorem
  says nothing. A thesis with a direction has the four hours with it or against it,
  and if with it is a continuation (`ThesisIs`). `ScenariosAre` puts the stop of each
  scenario of such a thesis beyond its zone (a range's is not covered, and never
  entered); `BestIs` shows that the best of them is one of them; `ClustersAre` and
  `HostsAre` follow the two recursions that merge zones and pools to their end, so
  that every strength is a number of at most 100.

`Stops_proof` proves, for any passes, lives and prices, `TrailTypeCorrect`
and `ProtectionTightens`. `TrailInv` says what a pass still knows to be true after
its awaits: the trigger it is about to place is tighter than the one it read
(`UpdateStopLossTightens`), and the stop it is about to cancel is not the tightest
that rests (`Covered`). What `Max` of the resting triggers returns is a lemma of
`CollectionLemmas`. And for any plans, candles, volumes and funding rates
`ReplayTypeCorrect` and `ReplayBooksHold`: `ReplayInv` has the shape of orders,
position and ledger (`BrokerShape`), that a signal waits once and not after it
has made its position (`OrdersWait`), and that wallet, rows and position agree (`BooksHold`), which
each change of one of them keeps (`ChangeKeeps`).

`Platform_proof` proves, for every value of the limits, thresholds and histories:

* `LogTypeCorrect` and `LogIsHistory`: numbers given are below the next one, the
  table has what the stream tells, and a start recovers the last number whatever
  the crash left. The streak is read from events the rows order.
* `ThrottlesOutlive`: `GovInv` says that a process at rest has its throttles in its
  files unless the last write was damaged (`FilesKeep`), that a step which lifts a
  throttle saves before the process rests (`SavedNext`), and that nothing else
  lifts one (`NothingLifted`). TLC checked each part before it was proved. The
  bound on the number of fills in `GovTypeOK` is only model-checked.
* `FeedTruth`: a finished bar is in the store as it ended, unless its end is on the
  way or it has an excuse (`StoreIsTrue`); what is on the way was told truly, and a
  forming bar told of is followed by its end (`EndsAreTrue`, which is where the order
  within a stream is used); a connection that is down tells nothing, and its quotes
  are as old as the trouble (`LinkTells`); with the types (`FeedShape`,
  `LinkShape`). `NoGapNoneMissing` makes a status without a gap one with every bar.
* `SetupTypeCorrect`, `NothingSaidIsUnsaid` and `PlansStand`. `AnalysisKept` is the
  lemma behind them: two series that agree on their first candles have the same
  statements about those, whatever comes after (`AnalysesAgree` has it both ways,
  of a structure and a series that need not be the same). A question is then
  answered in the words of hindsight up to the candle where its answer binds
  (`AskedIs`, `AnalyseStep`), and the market changes no candle that has settled
  (`MovesKeepCandles`, `HindsightKept`). A plan takes its evidence from such an
  answer, so that what is of settled candles stays. It holds for histories within the
  look-back of 500 candles (in `SmartAssumption`), beyond which the oldest
  statements are dropped.
* `TesterTypeCorrect` and `BacktestHonest`. `TesterInv` says where a minute of the
  replay is: what has been played (`Played`), what is to come of this minute
  (`Coming`), which candles are due to be told (`Due`), and of what was told that it
  was each candle that was over (`EachTold`), once (`Once`), with no bar later than
  its end (`HeardInTime`); and what a finished run reports (`Ended`).

The lemmas on `Min`, `Max` and sums, and the existence of `InOrder`, are inductions
in the form of a least counterexample: a nonempty set of subsets of a finite set
has a minimal one, because the strict subset ordering is well founded
(`SmallestSubset`). A function defined a step at a time (`Clusters`, `Hosts`) is
opened the same way: `StepsExist` shows that there is one, `StepsStay` that what
each step keeps holds at its end.

**Only model-checked.** What needs fairness: `InsolvencyEnds`, `RowsSettle`,
`ExitsAlwaysRun`, `BreakerReleases`, `LinkRecovers`, `BreakerShown`, `ShutdownEnds`
(the prover has no `ENABLED`). `ShortsMirrorLongs`: it compares two evaluations
through `SetToSortSeq` and sums in a different order, and is exact only where the
midpoints that the model halves are whole, as they are in the scenes of the run.
`EveryTypeOK` as a formula of `MCPlatform`, which is the conjunction over parts whose
type invariants are each proved of the part's own specification.

## 5. Where the code departs from its documents

Shown by a run:

1. *A reduce-only order can flip a position* (`flip`). submitOrder clamps it to
   the position once (`PaperBroker.ts:220`); it rests at that size, a later order
   shrinks the position, and it fills whole. The comment over the clamp describes
   this outcome as the one it prevents.
2. *An order can trade twice* (`double`). The fill row and the FILLED row are two
   statements; `docs/paper-broker/09` 1.2 says they are one transaction.
3. *A restart duplicates money* (`money`). A transfer out of FUTURES changes a
   variable and a SPOT row; the wallet is rebuilt without it, while
   `docs/paper-broker/06` 3 says a start reconstructs the complete state.
4. *A process trades before it has reconciled* (`blind`). Strategies, candle
   evaluation and streams start before the startup reconciliation is awaited; the
   comment over it says the engine will not trade blind.
5. *A rejected exit blocks the next one* (`exits`). The last signal of a key is
   kept although it was rejected, and an equal one is dropped without a word;
   `StrategyEngine.ts:76` says closes always pass.
6. *The agent exceeds its number of positions* (`budget`). The positions are read
   once for a scan that may enter several symbols; `AutonomousTradingAgent.ts:62`
   calls the number a maximum across the portfolio.

Met while reading and modelled as the code has it; the properties say what holds
all the same:

* *Orders.* POST /orders and a strategy's own `ctx.submitOrder` hold the paper
  broker itself, so that in live mode such orders are simulated (CONTRACTS.md 18
  forbids it) and the kill switch cancels none that are real; the reconciler
  compares the venue with a broker that real orders never reach and drops the
  side of a position; a clean report may clear a safe mode that a later run
  tripped, and a restart always clears it; the daily baseline is rolled by the
  first order of the day, not at midnight, though the scheduler logs a roll then;
  CircuitBreaker reads `dailyRealizedPnl`, which PaperBroker never sets. If a
  persister throws in checkLiquidation, `isLiquidating` stays set.
* *Agent.* A tracked setup is never cleared, and is set even when the entry was
  rejected: a later position of another actor may be closed as
  SETUP_INVALIDATED. submitSignal answers EXECUTED for a dropped duplicate close,
  so that the trailing stop of a live position is forgotten. A rejected de-risk
  is never tried again, though ExitManager.ts:410 says so. With the kill switch
  on, submitSignal returns null, so that exits stop too. The thesis of a
  reversal is never traded as configured (`EntriesKeepToTheTrend`): the best
  score such a setup can earn, 85, weighted by 0.7, is under the minimum of 65;
  AutonomousTradingAgent.ts:651 calls countering the trend its job.
* *Trailing stops.* The comment at TrailingStopController.ts:89 says `inFlight`
  prevents a second concurrent pass; it is set after two awaits.
* *Debate.* An account without equity or without free margin is asked for neither
  (tradingAgents.ts:722): its entries are held by the personas' ceilings alone, where
  the comment next to it has the margin served by what is free. A stop of null is
  coerced to 0 and passes as one, and the leverage and size approved are not the
  ones applied.
* *Governors.* A file that was torn starts its store fresh, against
  ProfitGoalStore.ts:7. A reset of the day restores full risk though the week's
  goal is reached (ProfitGoalManager.ts:134). A strategy released by the operator
  is quarantined again at its next fill, and releases are not saved.
* *Exposure.* A position without a stop order counts as no risk; the size is
  planned from the zone's middle and filled at the last price, past the cap that
  the guard held it to; entries of one scan are not in each other's clusters;
  pyramid adds are
  always refused by the conflict check; a streak of three or four losses lifts the
  learning multiplier back to one.
* *Feed.* A trade told after its bar replaces the finished candle by one of a
  single trade; each trade counts twice in a candle's volume; fetched klines mark
  the forming bar closed; nothing is fetched after a reconnect, and an outage
  inside one bar leaves no trace; the divergence guard compares with the last
  price however old; disconnect clears the timer before the close event that sets
  it again. No second provider is wired (engine.ts:139).
* *Signals.* The executor's read of the position is outside its `try`
  (SignalExecutor.ts:89): when a live venue does not answer, the row stays CREATED
  for good and submitSignal rejects; only the signal in memory expires.
* *Analysis.* The forming bar is analysed as a closed one, whatever the engines' names
  for it (`closedCandles`), and the structure of its first shape is kept until the
  next bar: breaks, swings and gaps of it are told and then not told, and a plan may
  rest on them. A bar built by trades alone has a closeTime until the first kline.
* *Setups.* Sweeps of equal highs and lows score nothing; the oldest evidence
  counts, even an invalidated gap; setups get a new id at each evaluation, so that
  their TTL never acts; KNOWN_LIMITATIONS.md:502 says HTF alignment is required
  before READY, and a score of 80 is reached without.
* *Scenarios.* Without swings the dealing range is 3 % to either side of the price;
  its comment says 1.5 (MarketLocationEngine.ts:115). A swept pool absorbed by
  one that was not is told as active (LiquidityMapEngine.ts:187).
* *Replay and backtest.* ReplayEngine passes no open positions, and an entry that
  fills overwrites the symbol's position; higher timeframes are read at their
  opening time (ReplayEngine.ts:68, against PHASE8_AUDIT.md:56). BacktestRunner's
  cooldowns run on the wall clock, a candle with missing bars is told as a whole
  one, and the last one is not told.
* *Log, link.* The handlers of a socket do not ask whether it is still the manager's
  (`Unwatched`, above). A limit is applied before the filter by strategy; each partial
  close counts as a trade; a torn JSONL line is glued to the next. The panel's
  comment says it does not poll; its query is polled.

## 6. Not modelled

* **Numerical indicators and classic strategies** (`strategy/indicators.ts`,
  grid, mean reversion, momentum, supertrend): functions of a series that keep no
  state others read. What they submit is any signal of `SignalPipeline`.
* **Prompts, model routing, memory** (`ai/ModelManager.ts`,
  `ai/SelfImprovementLoop.ts`, `ai/memory`): which model is asked changes no
  decision rule. The lessons written are read by no prompt: nothing calls
  `renderAgentMemoryFor`.
* **Startup self-test, screener, notifications, telemetry, SnapshotStore**: they
  read and report.
* **HTTP handlers** beyond transfers, arming, reconciling and the agent's
  snapshot: each reads, or calls one method that is an action of a module. The
  balance a transfer checks is read before an await; `BrokerPersistence` has the
  effect of one transfer at a time. The rate limiter is left out.
* **The scheduler's debounce of funding** (`jobs.ts`): `PaperBroker` lets a sweep
  start whenever none runs, which includes a missed and a repeated window.
* **The venue's wire protocol** (`coindcx/*`, `binance/bootstrap.ts`): signatures,
  parsing, REST. `Execution` and `Feed` have what the engine sees of it.
* **The dashboard's views**: they render answers and keep nothing the engine reads.
* **A restart of the agent**: its cycle is modelled within one process. The marks of
  what was de-risked are in memory only, so that a restart may de-risk once more.
* **Two agents at once** in `Exposure`: the agent's scan and the SMC agent's checks do
  not interleave with one another; each meets the other as a strategy that enters and
  leaves. What either may do between the other's check and fill is in the model.
* **Trades out of order** in `SmartMoney`, and a bar whose final kline is overtaken by
  two others; `Feed` has the streams and what they do to the store.
* **Power loss** with `synchronous = NORMAL`, and statements of SQLite that fail.

## 7. What is left

| Subject | What it would take |
|---|---|
| `ShortsMirrorLongs` for every chart | prices in half steps, so that no midpoint is rounded; then one lemma per operator that it commutes with `TurnedChart`, and one that `SetToSortSeq` of mirrored numbers is the mirrored sequence |
| the seven liveness properties | a prover with `ENABLED`; the safety halves they need (`TickEndsSolvent`, the type invariants) are proved |
