--------------------------- MODULE SignalPipeline ---------------------------
(***************************************************************************)
(* From a decision to an order: StrategyEngine (processSignal,             *)
(* submitSignal), SignalLoopDetector, SignalExecutor, SignalRepository,    *)
(* OrderFactory and the SMC strategy with its TradeIntentEngine.  One      *)
(* instrument; the broker behind the router is abstract.                   *)
(*                                                                         *)
(* Callers submit concurrently: candle handlers of a strategy (those of a  *)
(* Debating one await the language model, so that two candles overlap) and *)
(* the autonomous agent, through submitSignal.  Code between two awaits is *)
(* one action: the whole gate up to the executor's first await, the sizing *)
(* after it, each broker answer with what follows it.                      *)
(*                                                                         *)
(* Timers (cooldown, lock TTL, signal TTL, the detector's memory) elapse   *)
(* in steps of their own.  TimersOutlast assumes that a submission ends    *)
(* before the timers it started: minutes against round trips.              *)
(*                                                                         *)
(* A definition with an underscore in its name is a plausible slip in the  *)
(* definition it is named after: no action uses it.                        *)
(***************************************************************************)
EXTENDS Sizing, Sequences, FiniteSets

CONSTANTS
  Callers,              \* concurrent invocations
  Candle, Agent,        \* strategies driven by candles; through submitSignal
  Debating,             \* candle strategies that ask the language model
  StrategyOf,           \* the strategy of each caller
  Offers,               \* the inputs a strategy may submit
  Plans,                \* execution plans, one per candle and setup
  Dedups,               \* features.dedupKey values
  NoPlan, NoOne, NoKey, \* no plan, lock owner, dedupKey
  Prices, Equities,     \* what the executor may read; price 0: none
  OutsideMoves,         \* positions that orders of other origin may leave
  MaxPosition,          \* the broker's exposure cap
  MaxRepeats,           \* SignalLoopDetector.maxRepeats
  MaxFailures,          \* MAX_CONSECUTIVE_LLM_FAILURES
  TimersOutlast,
  Leverage,             \* defaultLeverage of the plans' risk engine
  MaxSubmissions        \* bound

Strategies == Candle \union Agent
Actions == {"OPEN_LONG", "OPEN_SHORT", "CLOSE_LONG", "CLOSE_SHORT"}
Opening(a) == a \in {"OPEN_LONG", "OPEN_SHORT"}
Keys == Strategies \X Actions
LoopKeys == Keys \union Dedups

\* cools: its cooldownMs is positive; part: its closeFraction is below 1; qty:
\* its features.quantity, 0 for none; stop: its stopLossPrice, 0 for none.
Input == [action: Actions, dedup: Dedups \union {NoKey}, cools: BOOLEAN,
          confident: BOOLEAN, part: BOOLEAN, qty: Nat, stop: Nat, target: BOOLEAN]

ASSUME PipelineAssumption ==
  /\ StrategyOf \in [Callers -> Strategies] /\ Debating \subseteq Candle
  /\ \A s \in Strategies : Offers[s] \subseteq Input
  /\ NoPlan \notin Plans /\ NoOne \notin Strategies /\ NoKey \notin Dedups
  /\ Prices \subseteq Nat /\ Equities \subseteq Nat /\ OutsideMoves \subseteq Int
  /\ {Leverage, MaxPosition, MaxSubmissions} \subseteq Nat
  /\ MaxRepeats \in Nat \ {0} /\ MaxFailures \in Nat \ {0}

\* A candle strategy that enters has a cooldown; the agent adds to a position without
\* one, but its cycles do not overlap (guardedCycle).
ASSUME OverlapAssumption ==
  \A c, d \in Callers : c # d /\ StrategyOf[c] = StrategyOf[d] =>
    \A in \in Offers[StrategyOf[c]] : Opening(in.action) => in.cools

VARIABLES
  calls,                \* what each caller is doing
  subs,                 \* history: every submission; its index is its id
  last,                 \* lastSignalByKey: an id, 0 if none
  recent,               \* keys emitted less than their cooldown ago
  lock,                 \* the strategy that holds the symbol, or NoOne
  streak,               \* SignalLoopDetector.repeats
  intents,              \* TradeIntentEngine.activeSignalKeys
  llm,                  \* consecutive failures, and whether the circuit is open
  pos                   \* the broker's position

gate == <<last, recent, lock>>
vars == <<calls, subs, gate, streak, intents, llm, pos>>

Idle == [pc |-> "idle", id |-> 0, qty |-> 0]
NoStreak == [count |-> 0, reason |-> ""]

Init ==
  /\ calls = [c \in Callers |-> Idle] /\ subs = <<>>
  /\ last = [k \in Keys |-> 0] /\ recent = {} /\ lock = NoOne
  /\ streak = [k \in LoopKeys |-> NoStreak]
  /\ intents = {} /\ llm = [failures |-> 0, open |-> FALSE]
  /\ pos = 0
-----------------------------------------------------------------------------
(* The gate: submitSignal, then processSignal up to the executor *)

Key(c, in) == <<StrategyOf[c], in.action>>
LoopKey(c, in) == IF in.dedup # NoKey THEN in.dedup ELSE Key(c, in)

\* isLooping
Looping(c, in) ==
  StrategyOf[c] \in Agent /\ streak[LoopKey(c, in)].count >= MaxRepeats

LockedOut_AgentOnly(c, in) ==
  StrategyOf[c] \in Agent /\ Opening(in.action) /\ lock \notin {NoOne, StrategyOf[c]}
\* checkAndAcquireSymbolLock, and the fast path of submitSignal
LockedOut(c, in) == Opening(in.action) /\ lock \notin {NoOne, StrategyOf[c]}

CoolingDown(c, in) == in.cools /\ Key(c, in) \in recent

\* signalsEqual, of two inputs with one key: a REJECTED predecessor counts.
SameIntent(a, b) == (a.dedup # NoKey \/ b.dedup # NoKey) => a.dedup = b.dedup
Duplicate(c, in) ==
  LET i == last[Key(c, in)] IN i # 0 /\ SameIntent(subs[i].in, in)

\* checkConflicts: the reason it gives, "" for none
Side(a) == IF a \in {"OPEN_LONG", "CLOSE_LONG"} THEN pos ELSE -pos
Conflict(in) ==
  CASE Opening(in.action) /\ Side(in.action) > 0                     -> "already open"
    [] Opening(in.action) /\ Side(in.action) < 0 /\ ~in.confident    -> "not confident"
    [] ~Opening(in.action) /\ Side(in.action) <= 0                   -> "nothing to close"
    [] OTHER -> ""

\* A signal and its row; failed: an exception ended its execution; accepted:
\* the broker took its order; exit: it closes what is open, without a cooldown.
Submission(c, in, plan, status, reason, row) ==
  [in |-> in, by |-> StrategyOf[c], plan |-> plan, status |-> status,
   reason |-> reason, row |-> row, accepted |-> FALSE, failed |-> FALSE,
   exit |-> ~Opening(in.action) /\ ~in.cools /\ Conflict(in) = ""]

\* The caller goes on after processSignal returned: submitSignal looks up its
\* answer, a candle handler is done.
Returns(c, id) ==
  calls' = [calls EXCEPT ![c] =
    IF StrategyOf[c] \in Agent THEN [pc |-> "answering", id |-> id, qty |-> 0]
                               ELSE Idle]

Ended(c, in, plan, status, reason) ==
  /\ subs' = Append(subs, Submission(c, in, plan, status, reason, "none"))
  /\ Returns(c, Len(subs) + 1)

\* Refused before processSignal: the caller gets its own rejected signal.
RefusedOutright(c, in) ==
  LET reason == IF Looping(c, in) THEN "loop" ELSE "locked" IN
  /\ subs' = Append(subs, Submission(c, in, NoPlan, "REJECTED", reason, "none"))
  /\ UNCHANGED <<calls, gate>>

Dropped(c, in, plan) ==
  /\ Ended(c, in, plan, "DROPPED", "")
  /\ UNCHANGED <<last, lock>>

Rejected(c, in, plan) ==
  LET conflict == Conflict(in) IN
  /\ Ended(c, in, plan, "REJECTED", IF conflict # "" THEN conflict ELSE "locked")
  /\ last' = IF conflict # "" THEN [last EXCEPT ![Key(c, in)] = Len(subs) + 1] ELSE last
  /\ UNCHANGED lock

\* onSubmitSignal: the row is inserted, and execute awaits the position.
Forwarded(c, in, plan) ==
  LET id == Len(subs) + 1 IN
  /\ subs' = Append(subs, Submission(c, in, plan, "CREATED", "", "CREATED"))
  /\ last' = [last EXCEPT ![Key(c, in)] = id]
  /\ lock' = IF Opening(in.action) THEN StrategyOf[c] ELSE lock
  /\ calls' = [calls EXCEPT ![c] = [pc |-> "reading", id |-> id, qty |-> 0]]

Gate(c, in, plan) ==
  /\ Len(subs) < MaxSubmissions
  /\ IF StrategyOf[c] \in Agent /\ (Looping(c, in) \/ LockedOut(c, in))
     THEN RefusedOutright(c, in)
     ELSE /\ recent' = recent \union {Key(c, in)}
          /\ CASE CoolingDown(c, in) \/ Duplicate(c, in) -> Dropped(c, in, plan)
               [] ~CoolingDown(c, in) /\ ~Duplicate(c, in)
                  /\ (Conflict(in) # "" \/ LockedOut(c, in)) -> Rejected(c, in, plan)
               [] OTHER -> Forwarded(c, in, plan)
  /\ UNCHANGED <<streak, pos>>

\* A decision made without waiting, by the agent or a classic strategy.
Submit(c, in) ==
  /\ calls[c].pc = "idle" /\ StrategyOf[c] \notin Debating
  /\ Gate(c, in, NoPlan)
  /\ UNCHANGED <<intents, llm>>
-----------------------------------------------------------------------------
(* The SMC strategy: evaluateCandle awaits a debate on a plan *)

\* The account is read here; what it says is used after the await.
StartDebate(c, equity) ==
  /\ calls[c].pc = "idle" /\ StrategyOf[c] \in Debating /\ ~llm.open
  /\ calls' = [calls EXCEPT ![c].pc = "debating", ![c].qty = equity]
  /\ UNCHANGED <<subs, gate, streak, intents, llm, pos>>

\* runCycle throws; after enough failures in a row the circuit opens.
DebateFails(c) ==
  LET n == Lesser(llm.failures + 1, MaxFailures) IN
  /\ calls[c].pc = "debating"
  /\ calls' = [calls EXCEPT ![c] = Idle]
  /\ llm' = [failures |-> n, open |-> llm.open \/ n = MaxFailures]
  /\ UNCHANGED <<subs, gate, streak, intents, pos>>

\* The debate says neutral, is not approved, or risk turns the plan down.
DebateAbstains(c) ==
  /\ calls[c].pc = "debating"
  /\ calls' = [calls EXCEPT ![c] = Idle]
  /\ llm' = [llm EXCEPT !.failures = 0]
  /\ UNCHANGED <<subs, gate, streak, intents, pos>>

Taken_Never(plan) == intents
\* processExecutionPlan approves: the key is taken, whatever the gate says.
Taken(plan) == intents \union {plan}

DebateOpens(c, in, plan, price) ==
  LET size == PositionSize(calls[c].qty, RiskPerTrade, price, in.stop, Leverage) IN
  /\ calls[c].pc = "debating" /\ Opening(in.action)
  /\ plan \notin intents /\ pos = 0 /\ size > 0
  /\ intents' = Taken(plan)
  /\ llm' = [llm EXCEPT !.failures = 0]
  /\ Gate(c, [in EXCEPT !.qty = size], plan)

\* An approved reversal closes the position instead.
DebateCloses(c, in) ==
  /\ calls[c].pc = "debating" /\ ~Opening(in.action)
  /\ Side(in.action) > 0
  /\ llm' = [llm EXCEPT !.failures = 0]
  /\ Gate(c, in, NoPlan)
  /\ UNCHANGED intents
-----------------------------------------------------------------------------
(* SignalExecutor.execute *)

Of(c) == subs[calls[c].id]

\* What execute leaves of the signal and its row, and what processSignal then
\* makes of the signal in memory.
Finish(c, sub, ok) ==
  /\ subs' = [subs EXCEPT ![calls[c].id] =
       IF ok THEN sub ELSE [sub EXCEPT !.status = "REJECTED", !.reason = "executor"]]
  /\ Returns(c, calls[c].id)

Size(in, price, equity) ==
  IF Opening(in.action)
  THEN IF in.qty > 0 THEN in.qty ELSE SizePosition(equity, price, in.stop)
  ELSE IF in.part THEN (Distance(pos, 0) + 1) \div 2 ELSE Distance(pos, 0)

ReadPosition_SkipsQuietly(c, price, equity) ==
  /\ calls[c].pc = "reading"
  /\ IF price = 0 \/ Size(Of(c).in, price, equity) = 0
     THEN Finish(c, Of(c), TRUE)
     ELSE /\ calls' = [calls EXCEPT ![c].pc = "submitting",
                                    ![c].qty = Size(Of(c).in, price, equity)]
          /\ UNCHANGED subs
  /\ UNCHANGED <<gate, streak, intents, llm, pos>>

\* NO_MARKET_STATE, SIZING_FAILED and ZERO_QUANTITY reject the row.
ReadPosition(c, price, equity) ==
  /\ calls[c].pc = "reading"
  /\ IF price = 0 \/ Size(Of(c).in, price, equity) = 0
     THEN Finish(c, [Of(c) EXCEPT !.row = "REJECTED"], FALSE)
     ELSE /\ calls' = [calls EXCEPT ![c].pc = "submitting",
                                    ![c].qty = Size(Of(c).in, price, equity)]
          /\ UNCHANGED subs
  /\ UNCHANGED <<gate, streak, intents, llm, pos>>

\* A venue that fails to answer: the read is outside execute's try, so the call
\* rejects up to the caller.  The row stays CREATED, the signal in memory too, and
\* the loop detector is not told.
PositionThrows(c) ==
  /\ calls[c].pc = "reading"
  /\ subs' = [subs EXCEPT ![calls[c].id].failed = TRUE]
  /\ calls' = [calls EXCEPT ![c] = Idle]
  /\ UNCHANGED <<gate, streak, intents, llm, pos>>

\* What the broker makes of the position: a close is reduce-only.
Bought(in) == in.action \in {"OPEN_LONG", "CLOSE_SHORT"}
Executed(in, qty) ==
  LET n == IF Opening(in.action) THEN qty ELSE SizeClose(pos, qty)
  IN  IF Bought(in) THEN pos + n ELSE pos - n
Acceptable(in, qty) ==
  IF Opening(in.action) THEN Distance(Executed(in, qty), 0) <= MaxPosition
                        ELSE IF Bought(in) THEN pos < 0 ELSE pos > 0

\* Where execute goes once its order is in: stop, then target, then done.
AfterEntry(in) == IF ~Opening(in.action) THEN "done"
                  ELSE IF in.stop # 0 THEN "stopping"
                  ELSE IF in.target THEN "targeting" ELSE "done"
GoOn(c, sub, next) ==
  IF next = "done" THEN Finish(c, sub, TRUE)
  ELSE /\ subs' = [subs EXCEPT ![calls[c].id] = sub]
       /\ calls' = [calls EXCEPT ![c].pc = next]

OrderAccepted(c) ==
  LET in == Of(c).in IN
  /\ calls[c].pc = "submitting" /\ Acceptable(in, calls[c].qty)
  /\ pos' = Executed(in, calls[c].qty)
  /\ GoOn(c, [Of(c) EXCEPT !.row = "EXECUTED", !.accepted = TRUE], AfterEntry(in))
  /\ UNCHANGED <<gate, streak, intents, llm>>

OrderRejected(c) ==
  /\ calls[c].pc = "submitting"
  /\ Finish(c, [Of(c) EXCEPT !.row = "REJECTED"], FALSE)
  /\ UNCHANGED <<gate, streak, intents, llm, pos>>

\* ORDER_SUBMISSION_ERROR; the venue may have executed the order.
OrderThrows(c, executed) ==
  LET in == Of(c).in IN
  /\ calls[c].pc = "submitting"
  /\ executed => Acceptable(in, calls[c].qty)
  /\ pos' = IF executed THEN Executed(in, calls[c].qty) ELSE pos
  /\ Finish(c, [Of(c) EXCEPT !.row = "REJECTED", !.failed = TRUE,
                             !.accepted = executed], FALSE)
  /\ UNCHANGED <<gate, streak, intents, llm>>

\* A rejected stop or target is only logged.
BracketAnswered(c) ==
  LET pc == calls[c].pc IN
  /\ pc \in {"stopping", "targeting"}
  /\ GoOn(c, Of(c), IF pc = "stopping" /\ Of(c).in.target THEN "targeting" ELSE "done")
  /\ UNCHANGED <<gate, streak, intents, llm, pos>>

BracketThrows(c) ==
  /\ calls[c].pc \in {"stopping", "targeting"}
  /\ Finish(c, [Of(c) EXCEPT !.row = "REJECTED", !.failed = TRUE], FALSE)
  /\ UNCHANGED <<gate, streak, intents, llm, pos>>
-----------------------------------------------------------------------------
(* The end of submitSignal: its answer is the last signal of the key *)

\* SignalLoopDetector.record
Recorded(s, reason) ==
  IF reason = "" THEN NoStreak
  ELSE [count |-> IF s.reason = reason THEN Lesser(s.count + 1, MaxRepeats) ELSE 1,
        reason |-> reason]

Answer(c) ==
  LET own == calls[c].id
      in == subs[own].in
      stored == last[Key(c, in)]
      status == IF stored = 0 THEN "null" ELSE subs[stored].status
      reason == IF status = "REJECTED" THEN subs[stored].reason ELSE ""
  IN  /\ calls[c].pc = "answering"
      /\ streak' = [streak EXCEPT ![LoopKey(c, in)] = Recorded(@, reason)]
      /\ calls' = [calls EXCEPT ![c] = Idle]
      /\ UNCHANGED <<subs, gate, intents, llm, pos>>
-----------------------------------------------------------------------------
(* Timers, and orders of other origin *)

InFlight(c) == calls[c].pc \in {"reading", "submitting", "stopping", "targeting"}
Held(k) == \E c \in Callers : InFlight(c) /\ Key(c, Of(c).in) = k

CooldownOver(k) ==
  /\ k \in recent /\ (TimersOutlast => ~Held(k))
  /\ recent' = recent \ {k}
  /\ UNCHANGED <<calls, subs, last, lock, streak, intents, llm, pos>>

LockExpires ==
  /\ lock # NoOne
  /\ TimersOutlast => \A a \in {"OPEN_LONG", "OPEN_SHORT"} : ~Held(<<lock, a>>)
  /\ lock' = NoOne
  /\ UNCHANGED <<calls, subs, last, recent, streak, intents, llm, pos>>

ExpireSignals_KeepsLast(k) ==
  /\ last[k] # 0 /\ subs[last[k]].status = "CREATED"
  /\ TimersOutlast => ~Held(k)
  /\ subs' = [subs EXCEPT ![last[k]].status = "EXPIRED"]
  /\ UNCHANGED <<calls, gate, streak, intents, llm, pos>>

ExpireSignals_OnceOrdered(k) ==
  /\ last[k] # 0 /\ subs[last[k]].status = "CREATED" /\ subs[last[k]].row # "CREATED"
  /\ TimersOutlast => ~Held(k)
  /\ subs' = [subs EXCEPT ![last[k]].status = "EXPIRED"]
  /\ last' = [last EXCEPT ![k] = 0]
  /\ UNCHANGED <<calls, recent, lock, streak, intents, llm, pos>>

\* expireSignals, for the one key whose ttl elapsed; only CREATED ones expire.
ExpireSignals(k) ==
  /\ last[k] # 0 /\ subs[last[k]].status = "CREATED"
  /\ TimersOutlast => ~Held(k)
  /\ subs' = [subs EXCEPT ![last[k]].status = "EXPIRED"]
  /\ last' = [last EXCEPT ![k] = 0]
  /\ UNCHANGED <<calls, recent, lock, streak, intents, llm, pos>>

ForgetStreak(k) ==
  /\ streak[k] # NoStreak
  /\ streak' = [streak EXCEPT ![k] = NoStreak]
  /\ UNCHANGED <<calls, subs, gate, intents, llm, pos>>

CircuitCloses ==
  /\ llm.open
  /\ llm' = [llm EXCEPT !.open = FALSE]
  /\ UNCHANGED <<calls, subs, gate, streak, intents, pos>>

\* A stop or target fills, or an order of the API, of liquidation, of a grid.
OutsideMove(p) ==
  /\ p # pos
  /\ pos' = p
  /\ UNCHANGED <<calls, subs, gate, streak, intents, llm>>
-----------------------------------------------------------------------------
\* What a caller does once its await is over.
Resume(c) ==
  \/ \E price \in Prices, equity \in Equities : ReadPosition(c, price, equity)
  \/ PositionThrows(c)
  \/ OrderAccepted(c) \/ OrderRejected(c)
  \/ \E executed \in BOOLEAN : OrderThrows(c, executed)
  \/ BracketAnswered(c) \/ BracketThrows(c)
  \/ Answer(c)

Next ==
  \/ \E c \in Callers :
       \/ \E in \in Offers[StrategyOf[c]] :
            \/ Submit(c, in)
            \/ \E plan \in Plans, price \in Prices \ {0} : DebateOpens(c, in, plan, price)
            \/ DebateCloses(c, in)
       \/ \E equity \in Equities : StartDebate(c, equity)
       \/ DebateFails(c) \/ DebateAbstains(c)
       \/ Resume(c)
  \/ \E k \in Keys : CooldownOver(k) \/ ExpireSignals(k)
  \/ \E k \in LoopKeys : ForgetStreak(k)
  \/ LockExpires \/ CircuitCloses
  \/ \E p \in OutsideMoves : OutsideMove(p)

Spec == Init /\ [][Next]_vars

\* Every await of the executor ends: the paper broker answers at once, a venue's
\* client answers or throws.  expireSignals is a job of the scheduler.
FairSpec ==
  /\ Spec
  /\ \A c \in Callers : WF_vars(Resume(c))
  /\ \A k \in Keys : WF_vars(ExpireSignals(k))
-----------------------------------------------------------------------------
(* Properties *)

Reasons == {"", "loop", "locked", "already open", "not confident", "nothing to close",
            "executor"}
Signal == [in: Input, by: Strategies, plan: Plans \union {NoPlan},
           status: {"CREATED", "REJECTED", "EXPIRED", "DROPPED"}, reason: Reasons,
           row: {"none", "CREATED", "EXECUTED", "REJECTED"},
           accepted: BOOLEAN, failed: BOOLEAN, exit: BOOLEAN]
Pcs == {"idle", "debating", "reading", "submitting", "stopping", "targeting",
        "answering"}
\* The state has its type; lastSignalByKey never holds an expired signal nor one
\* of another key.
TypeOK ==
  /\ subs \in Seq(Signal)
  /\ calls \in [Callers -> [pc: Pcs, id: 0..Len(subs), qty: Nat]]
  /\ \A c \in Callers : calls[c].pc \notin {"idle", "debating"} => calls[c].id # 0
  /\ last \in [Keys -> 0..Len(subs)]
  /\ \A k \in Keys : last[k] # 0 =>
       subs[last[k]].status # "EXPIRED" /\ <<subs[last[k]].by, subs[last[k]].in.action>> = k
  /\ recent \subseteq Keys /\ lock \in Strategies \union {NoOne}
  /\ streak \in [LoopKeys -> [count: 0..MaxRepeats, reason: Reasons]]
  /\ intents \subseteq Plans
  /\ llm \in [failures: 0..MaxFailures, open: BOOLEAN]
  /\ pos \in Int

\* Two entries are never on their way to the broker at once in one direction, nor
\* from two strategies: an entry that found the position flat, or open on the
\* other side, is not joined by another one that saw the same.
EntriesDoNotRace ==
  \A c, d \in Callers :
    c # d /\ InFlight(c) /\ InFlight(d) /\ Opening(Of(c).in.action)
    /\ Opening(Of(d).in.action)
    => StrategyOf[c] = StrategyOf[d] /\ Of(c).in.action # Of(d).in.action

\* Once a submission has returned, its row says what became of it: EXECUTED
\* exactly when the broker took its order, unless an exception ended it, and
\* never while the signal in memory is rejected.  A row left CREATED is that of a
\* submission whose position could not be read: no order of it went out.
RowsTellTrades ==
  \A i \in DOMAIN subs :
    (\A c \in Callers : InFlight(c) => calls[c].id # i) =>
      LET s == subs[i] IN
      /\ s.row = "CREATED" => s.failed /\ ~s.accepted /\ s.status \in {"CREATED", "EXPIRED"}
      /\ ~s.failed => (s.row = "EXECUTED" <=> s.accepted)
      /\ s.row = "REJECTED" => s.status \in {"REJECTED", "EXPIRED"}
      /\ s.row = "EXECUTED" => s.status \in {"CREATED", "EXPIRED"}

\* An execution plan reaches the executor at most once, however many
\* evaluations of its candle overlap.
PlansTradeOnce ==
  \A i, j \in DOMAIN subs :
    subs[i].plan \in Plans /\ subs[i].plan = subs[j].plan
    /\ subs[i].row # "none" /\ subs[j].row # "none" => i = j

\* A signal that was handed to the executor gets its outcome in the table; or its
\* position could not be read, and it does not stand in the way of the next one
\* like it for ever: it is no longer the last of its key.
RowsSettle ==
  \A i \in 1..MaxSubmissions :
    i \in DOMAIN subs /\ subs[i].row = "CREATED" ~>
      /\ i \in DOMAIN subs
      /\ \/ subs[i].row # "CREATED"
         \/ subs[i].failed /\ \A k \in Keys : last[k] # i

\* An entry goes out with the size its engine owes it: the largest within the
\* risk it may take of the equity read, before the debate for a plan; or with the
\* size it was submitted with.
SizesAreSafe ==
  \A c \in Callers : calls[c].pc = "submitting" /\ Opening(Of(c).in.action) =>
    LET in == Of(c).in IN
    \E equity \in Equities, price \in Prices \ {0} :
      IF Of(c).by \in Debating
      THEN /\ calls[c].qty = PositionSize(equity, RiskPerTrade, price, in.stop, Leverage)
           /\ PositionSizeWithinMeans(equity, RiskPerTrade, price, in.stop, Leverage)
      ELSE IF in.qty > 0 THEN calls[c].qty = in.qty
      ELSE /\ calls[c].qty = SizePosition(equity, price, in.stop)
           /\ SizeIsLargestSafe(equity, price, in.stop)

\* StrategyEngine's comment on its locks: closes always pass, reducing risk is
\* never blocked.  An exit from an open position, without a cooldown, is not
\* dropped because an earlier one of its kind was once rejected.
ExitsAlwaysPass ==
  \A c \in Callers :
    calls[c].pc = "answering" /\ Of(c).exit /\ Of(c).status = "DROPPED" =>
      LET i == last[Key(c, Of(c).in)] IN i # 0 => subs[i].status # "REJECTED"
=============================================================================
