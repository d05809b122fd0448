------------------------------- MODULE Governors -------------------------------
(***************************************************************************)
(* What holds trading back after it has gone well or badly: profit goals,  *)
(* and the quarantine of a strategy and of a setup archetype.  Their state *)
(* is booked on every closing fill, rolled at midnight, lifted by the      *)
(* operator, and must outlive the process, which ends by a crash or by a   *)
(* shutdown that may hang.                                                 *)
(*                                                                         *)
(* One account, one strategy (smc-agent-v1), one archetype, one symbol.    *)
(* A file is written by truncating it first, and a write may fail; the     *)
(* bookkeeping of a fill is synchronous, so that only the end of the       *)
(* process falls between its steps.                                        *)
(*                                                                         *)
(* A definition with an underscore in its name is a plausible slip in the  *)
(* definition it is named after: no action uses it.                        *)
(***************************************************************************)
EXTENDS Integers, Sequences, FiniteSetsExt

CONSTANTS
  GoalPct,              \* of each period, percent of the equity it started with
  Enabled,              \* periods whose goal is enabled
  TargetAction,         \* targetAchievedAction
  StartEquity,
  MinTrades, MaxDrawdown, MinWinRate,   \* thresholds; the rate in percent
  Pnls,                 \* what a closing fill realizes
  MaxFills,             \* bound: closing fills ever
  MaxRolls,             \* bound: midnights and account resets ever
  MaxDamaged            \* bound: files whose last write is lacking, at once

Periods == {"daily", "weekly", "monthly"}
Trackers == {"strategy", "setup"}
Stores == Trackers \union {"goals"}

ASSUME GovernorsAssumption ==
  /\ GoalPct \in [Periods -> Nat] /\ Enabled \subseteq Periods
  /\ TargetAction \in {"REDUCE_RISK", "TRAIL_STOPS", "STOP_TRADING"}
  /\ StartEquity \in Nat \ {0}
  /\ MinTrades \in Nat \ {0} /\ MaxDrawdown \in Nat /\ MinWinRate \in 0..100
  /\ Pnls \subseteq Int \ {0} /\ MaxFills \in Nat
  /\ MaxRolls \in Nat /\ MaxDamaged \in Nat

VARIABLES
  proc,                 \* "up", "stopping", "down"
  waiting, closes,      \* stop's calls awaiting api.stop; closings of the database
  goals,                \* the manager's state
  stats,                \* of the strategy and of the archetype
  openSetup,            \* openSetupBySymbol: the archetype is recorded or not
  file,                 \* per store: what it holds; empty if there is none to be read
  todo,                 \* steps left of what runs now: of a fill, or a store
  due,                  \* periods whose midnight has struck
  equity, fills, rolls,   \* the account; how many fills, midnights and resets so far
  held, damaged         \* history: throttles when last at rest; files whose last write is lacking

memory == <<goals, stats, openSetup>>
process == <<proc, waiting, closes>>
history == <<held, damaged>>
outside == <<equity, fills, rolls>>
govVars == <<process, memory, file, todo, due, outside, history>>

\* What is booked of a disabled goal is never looked at.
FreshGoals(e) == [pnl |-> [p \in Enabled |-> 0], base |-> [p \in Enabled |-> e],
                  reached |-> {}, risk |-> "full", cooling |-> FALSE]
FreshStats == [trades |-> 0, wins |-> 0, pnl |-> 0, peak |-> 0, quarantined |-> FALSE]

\* What the state of each store forbids, or makes smaller.
Quarantine(s) == IF s.quarantined THEN {"quarantine"} ELSE {}
Throttles(g, s) ==
  [store \in Stores |-> IF store = "goals" THEN g.reached ELSE Quarantine(s[store])]

GovInit ==
  /\ proc = "up" /\ waiting = 0 /\ closes = 0
  /\ goals = FreshGoals(StartEquity)
  /\ stats = [k \in Trackers |-> FreshStats]
  /\ openSetup = FALSE
  /\ file = [s \in Stores |-> <<>>]
  /\ todo = <<>> /\ due = {} /\ equity = StartEquity /\ fills = 0 /\ rolls = 0
  /\ held = [s \in Stores |-> {}] /\ damaged = {}

AtRest == proc # "down" /\ todo = <<>>
Settles == held' = IF todo' = <<>> THEN Throttles(goals', stats') ELSE held
-----------------------------------------------------------------------------
(* ProfitGoalManager *)

\* checkAndSetTargets
NewlyReached(g) ==
  {p \in Enabled \ g.reached :
     g.base[p] > 0 /\ GoalPct[p] > 0 /\ g.pnl[p] * 100 >= g.base[p] * GoalPct[p]}

\* updateRiskMultiplier
RiskOf(reached) ==
  IF reached = {} THEN "full"
  ELSE IF TargetAction = "STOP_TRADING" THEN "none" ELSE "reduced"

\* updatePnL; cooling: the daily target was reached less than the cooldown ago.
Updated(g, pnl) ==
  LET moved == [g EXCEPT !.pnl = [p \in Enabled |-> g.pnl[p] + pnl]]
      new   == NewlyReached(moved)
  IN  [moved EXCEPT !.reached = @ \union new, !.risk = RiskOf(moved.reached \union new),
                    !.cooling = @ \/ "daily" \in new]

\* resetDaily gives back the full risk, whatever else is reached.
ResetGoal(g, period, e) ==
  LET cleared == [g EXCEPT !.pnl = [p \in Enabled |-> IF p = period THEN 0 ELSE @[p]],
                           !.base = [p \in Enabled |-> IF p = period THEN e ELSE @[p]],
                           !.reached = @ \ {period}]
  IN  IF period = "daily" THEN [cleared EXCEPT !.risk = "full", !.cooling = FALSE]
      ELSE cleared

TradingAllowed ==
  /\ TargetAction = "STOP_TRADING" => goals.reached \intersect {"daily", "weekly"} = {}
  /\ ~goals.cooling
-----------------------------------------------------------------------------
(* StrategyPerformanceTracker *)

Breaches(s) ==
  /\ ~s.quarantined /\ s.trades >= MinTrades
  /\ s.peak - s.pnl > MaxDrawdown \/ s.wins * 100 < MinWinRate * s.trades

Recorded(s, pnl) ==
  LET booked == [s EXCEPT !.trades = @ + 1, !.wins = IF pnl > 0 THEN @ + 1 ELSE @,
                          !.pnl = @ + pnl, !.peak = Max({@, s.pnl + pnl})]
  IN  [booked EXCEPT !.quarantined = @ \/ Breaches(booked)]

Released(s) == IF s.quarantined THEN [s EXCEPT !.quarantined = FALSE, !.peak = s.pnl] ELSE s
-----------------------------------------------------------------------------
(* The stores *)

Content(store) == IF store = "goals" THEN goals ELSE stats[store]

\* What load restores; a file that cannot be read is as none.
Loaded(store) ==
  IF file[store] # <<>> THEN Head(file[store])
  ELSE IF store = "goals" THEN FreshGoals(StartEquity) ELSE FreshStats

Damages(store) ==
  /\ damaged' = damaged \union {store}
  /\ Cardinality(damaged') <= MaxDamaged

\* save, done or failed: the failure is logged.
Save(store, ok) ==
  IF ok THEN /\ file' = [file EXCEPT ![store] = <<Content(store)>>]
             /\ damaged' = damaged \ {store}
  ELSE UNCHANGED file /\ Damages(store)
-----------------------------------------------------------------------------
(* The bookkeeping of a closing fill (engine.ts, onFill) *)

Current == Head(todo)
Runs(step) == proc # "down" /\ todo # <<>> /\ Current.step = step
Step(name, of) == [step |-> name, of |-> of]

ClosingFill_SavedAtStop(pnl, own) ==
  /\ AtRest /\ fills < MaxFills
  /\ fills' = fills + 1 /\ equity' = equity + pnl
  /\ todo' = (IF own THEN <<Step("record", pnl), Step("attribute", pnl)>> ELSE <<>>)
             \o <<Step("update", pnl)>>
  /\ UNCHANGED <<process, memory, file, due, rolls, history>>
\* A fill of the agent, or of a manual order, which has no strategyId.
ClosingFill(pnl, own) ==
  /\ AtRest /\ fills < MaxFills
  /\ fills' = fills + 1 /\ equity' = equity + pnl
  /\ todo' = IF own THEN <<Step("record", pnl), Step("save", "strategy"),
                           Step("attribute", pnl), Step("update", pnl), Step("save", "goals")>>
             ELSE <<Step("update", pnl), Step("save", "goals")>>
  /\ UNCHANGED <<process, memory, file, due, rolls, history>>

\* recordRealizedPnl; a quarantine is saved by onQuarantine, after its event, and
\* what throws there ends the bookkeeping.
Book(tracker, pnl, rest, stored) ==
  LET next == Recorded(stats[tracker], pnl)
      new  == next.quarantined /\ ~stats[tracker].quarantined
  IN  /\ stats' = [stats EXCEPT ![tracker] = next]
      /\ IF new /\ ~stored
         THEN todo' = <<>> /\ Damages(tracker)
         ELSE /\ todo' = (IF new THEN <<Step("save", tracker)>> ELSE <<>>) \o rest
              /\ UNCHANGED damaged

RecordStrategy(stored) ==
  /\ Runs("record")
  /\ Book("strategy", Current.of, Tail(todo), stored)
  /\ UNCHANGED <<process, goals, openSetup, file, due, outside>>
  /\ Settles

\* resolveOnClose, and the archetype's own record.
AttributeSetup(stored) ==
  /\ Runs("attribute")
  /\ IF openSetup
     THEN Book("setup", Current.of, <<Step("save", "setup")>> \o Tail(todo), stored)
     ELSE todo' = Tail(todo) /\ UNCHANGED <<stats, damaged>>
  /\ openSetup' = FALSE
  /\ UNCHANGED <<process, goals, file, due, outside>>
  /\ Settles

UpdateGoals ==
  /\ Runs("update")
  /\ goals' = Updated(goals, Current.of)
  /\ todo' = Tail(todo)
  /\ UNCHANGED <<process, stats, openSetup, file, due, outside, damaged>>
  /\ Settles

Saved(store, ok) ==
  /\ Runs("save") /\ Current.of = store
  /\ Save(store, ok)
  /\ todo' = Tail(todo)
  /\ UNCHANGED <<process, memory, due, outside>>
  /\ Settles

\* evaluateCandle, which records the archetype of an entry it proposes.
RecordOpen ==
  /\ AtRest /\ ~openSetup
  /\ TradingAllowed /\ ~stats["setup"].quarantined /\ ~stats["strategy"].quarantined
  /\ openSetup' = TRUE
  /\ UNCHANGED <<process, goals, stats, file, todo, due, outside, history>>
-----------------------------------------------------------------------------
(* The clock and the operator *)

CooldownOver ==
  /\ AtRest /\ goals.cooling
  /\ goals' = [goals EXCEPT !.cooling = FALSE]
  /\ UNCHANGED <<process, stats, openSetup, file, todo, due, outside, history>>

Midnight(periods) ==
  /\ AtRest /\ proc = "up" /\ due = {} /\ "daily" \in periods /\ rolls < MaxRolls
  /\ due' = periods /\ rolls' = rolls + 1
  /\ UNCHANGED <<process, memory, file, todo, equity, fills, history>>

\* rollProfitGoals; the event's append may throw, and then nothing is saved.
Roll(period, stored) ==
  /\ AtRest /\ period \in due
  /\ due' = due \ {period}
  /\ goals' = ResetGoal(goals, period, equity)
  /\ IF stored THEN todo' = <<Step("save", "goals")>> /\ UNCHANGED damaged
     ELSE todo' = <<>> /\ Damages("goals")
  /\ UNCHANGED <<process, stats, openSetup, file, outside>>
  /\ Settles

\* The release routes: memory only.
Release(tracker) ==
  /\ AtRest /\ stats[tracker].quarantined
  /\ stats' = [stats EXCEPT ![tracker] = Released(@)]
  /\ UNCHANGED <<process, goals, openSetup, file, todo, due, outside, damaged>>
  /\ Settles

\* onResetPaperAccount
ResetAccount ==
  /\ AtRest /\ rolls < MaxRolls
  /\ equity' = StartEquity /\ rolls' = rolls + 1
  /\ goals' = ResetGoal(ResetGoal(ResetGoal(goals, "daily", StartEquity),
                                  "weekly", StartEquity), "monthly", StartEquity)
  /\ stats' = [k \in Trackers |-> Released(stats[k])]
  /\ todo' = <<Step("save", "goals")>>
  /\ UNCHANGED <<process, openSetup, file, due, fills, history>>
-----------------------------------------------------------------------------
(* The process *)

\* The handler of a signal, and stop up to its await; a second signal is ignored.
Signal_Reenters ==
  /\ AtRest /\ waiting < 2
  /\ proc' = "stopping" /\ waiting' = waiting + 1 /\ due' = {}
  /\ todo' = <<Step("save", "goals"), Step("save", "strategy")>>
  /\ UNCHANGED <<closes, memory, file, outside, history>>
Signal ==
  /\ AtRest /\ proc = "up"
  /\ proc' = "stopping" /\ waiting' = waiting + 1 /\ due' = {}
  /\ todo' = <<Step("save", "goals"), Step("save", "strategy")>>
  /\ UNCHANGED <<closes, memory, file, outside, history>>

\* api.stop ends, which it may never do: the rest of stop.
ApiStopped ==
  /\ AtRest /\ waiting > 0
  /\ waiting' = waiting - 1 /\ closes' = closes + 1
  /\ UNCHANGED <<proc, memory, file, todo, due, outside, history>>

ProcessEnds ==
  /\ proc' = "down" /\ waiting' = 0 /\ closes' = 0
  /\ todo' = <<>> /\ due' = {} /\ openSetup' = FALSE
  /\ goals' = FreshGoals(StartEquity) /\ stats' = [k \in Trackers |-> FreshStats]
  /\ UNCHANGED <<outside, held>>

\* exit(0), and exit(1) of a stop that failed.
Exit ==
  /\ AtRest /\ proc = "stopping"
  /\ ProcessEnds /\ UNCHANGED <<file, damaged>>

ForceExit_NoTimer == FALSE /\ UNCHANGED govVars
\* The timer of SHUTDOWN_TIMEOUT_MS.
ForceExit ==
  /\ AtRest /\ proc = "stopping"
  /\ ProcessEnds /\ UNCHANGED <<file, damaged>>

\* Within a write, the file is left truncated.
Crash ==
  /\ proc # "down"
  /\ \/ UNCHANGED <<file, damaged>>
     \/ \E store \in Stores :
          /\ Runs("save") /\ Current.of = store
          /\ file' = [file EXCEPT ![store] = <<>>]
          /\ Damages(store)
  /\ ProcessEnds

Start ==
  /\ proc = "down"
  /\ proc' = "up"
  /\ goals' = Loaded("goals") /\ stats' = [k \in Trackers |-> Loaded(k)]
  /\ UNCHANGED <<waiting, closes, openSetup, file, todo, due, outside, damaged>>
  /\ Settles

GovNext ==
  \/ \E pnl \in Pnls, own \in BOOLEAN : ClosingFill(pnl, own)
  \/ \E stored \in BOOLEAN : RecordStrategy(stored) \/ AttributeSetup(stored)
  \/ UpdateGoals \/ RecordOpen \/ CooldownOver
  \/ \E store \in Stores, ok \in BOOLEAN : Saved(store, ok)
  \/ \E periods \in SUBSET (Enabled \union {"daily"}) : Midnight(periods)
  \/ \E period \in Periods, stored \in BOOLEAN : Roll(period, stored)
  \/ \E k \in Trackers : Release(k)
  \/ ResetAccount \/ Signal \/ ApiStopped \/ Exit \/ ForceExit \/ Crash \/ Start

GovSpec == GovInit /\ [][GovNext]_govVars

\* A step of what runs now.
Proceeds ==
  \/ \E stored \in BOOLEAN : RecordStrategy(stored) \/ AttributeSetup(stored)
  \/ UpdateGoals
  \/ \E store \in Stores, ok \in BOOLEAN : Saved(store, ok)
-----------------------------------------------------------------------------
(* Properties *)

\* The state has its type.
GovTypeOK ==
  /\ proc \in {"up", "stopping", "down"} /\ waiting \in Nat /\ closes \in Nat
  /\ goals.reached \subseteq Enabled /\ goals.risk \in {"full", "reduced", "none"}
  /\ goals.cooling \in BOOLEAN /\ goals.cooling => "daily" \in goals.reached
  /\ \A k \in Trackers : /\ stats[k].trades \in 0..MaxFills
                         /\ stats[k].wins \in 0..stats[k].trades
                         /\ stats[k].peak >= stats[k].pnl
  /\ due \subseteq Periods /\ damaged \subseteq Stores
  /\ openSetup \in BOOLEAN

\* A quarantine or a reached target that held when the process was last at rest holds
\* after its next start, however it ended, unless the last write of its file failed
\* or was cut off.
ThrottlesOutliveProcess ==
  [][proc = "down" /\ proc' = "up" =>
       \A s \in Stores \ damaged : held[s] \subseteq Throttles(goals', stats')[s]]_govVars

\* A shutdown ends the process although the server's stop may hang, and closes the
\* database once although more signals come (H-13).
ShutdownEnds ==
  /\ [](closes <= 1)
  /\ []<>(proc # "stopping")
=============================================================================
