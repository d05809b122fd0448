--------------------------------- MODULE Feed ---------------------------------
(***************************************************************************)
(* The market data of one symbol: the exchange's streams and their         *)
(* reconnection (src/binance/streams.ts), the normalised messages, the     *)
(* candle store the strategies read (src/market/Klines.ts), the quotes the *)
(* broker prices with (src/market/MarketState.ts), the supervisor of the   *)
(* provider and the multi-timeframe state of one timeframe.                *)
(*                                                                         *)
(* Each stream arrives in order, one stream after or before another; what  *)
(* is on the inbound when the connection drops is lost.  Every trade comes    *)
(* twice, as a trade and as an aggregate trade.                            *)
(***************************************************************************)
EXTENDS Integers, Sequences, FiniteSets, FiniteSetsExt, Functions

CONSTANTS
  Prints,               \* prices of trades
  BarLength,            \* of the timeframe
  MaxCandles,           \* maxPerSeries
  MinClosed,            \* MIN_CLOSED_CANDLES
  MaxAge,               \* staleThresholdMs, staleMarketMaxAgeMs
  DegradedAge,          \* degradedThresholdMs
  MaxDivergence,        \* maxDivergenceBps
  MaxAttempts,          \* maxReconnectAttempts
  MaxTime, MaxTrades, MaxTroubles  \* bounds: seconds, trades, lost connections and fetches

ASSUME FeedAssumption ==
  /\ Prints \subseteq Nat \ {0} /\ Prints # {} /\ BarLength \in Nat \ {0}
  /\ MaxCandles \in Nat \ {0} /\ MaxAttempts \in Nat
  /\ MaxAge \in Nat /\ DegradedAge \in Nat /\ MaxAge > DegradedAge
  /\ MaxTime \in Nat /\ MaxTrades \in Nat /\ MaxTroubles \in Nat

VARIABLES
  now,
  exch,                 \* the exchange: its bars, the last price; trades to come, fetches asked
  inbound,              \* per stream, what is on the way
  fetch,                \* an answer of the candle endpoint on the way, or none
  candles,              \* the store: candles by bar
  quotes,               \* MarketState: seconds since a message, whether the last one was sent now
  stream,               \* BinanceStreamHandler; fails, down, drops: history
  sup,                  \* MarketDataSupervisor: seconds since each provider's tick, or Gone
  excused               \* history: finished bars the streams did not tell the end of

feedVars == <<now, exch, inbound, fetch, candles, quotes, stream, sup, excused>>

BarOf(t) == t \div BarLength
CurrentBar == BarOf(now)
Finished(b) == b < CurrentBar
Primary == "BINANCE"
Fallback == "COINDCX"
Providers == {Primary, Fallback}
Gone == -1
\* Seconds since something, as far as a limit tells them apart.
Older(age) == Min({age + 1, MaxAge + 1})
-----------------------------------------------------------------------------
(* The candle store *)

\* isValidKlineOhlc, and what upsertCandle refuses.
Valid(c) == c.open > 0 /\ c.high >= Max({c.open, c.low, c.close}) /\ c.low <= Min({c.open, c.close})

\* upsertCandle: one candle a bar, the last MaxCandles of them.
Kept(bars) == {b \in bars : Cardinality({x \in bars : x > b}) < MaxCandles}
Upsert(series, b, c) ==
  LET bars == Kept(DOMAIN series \union {b})
  IN  IF ~Valid(c) THEN series
      ELSE [x \in bars |-> IF x = b THEN c ELSE series[x]]

\* applyTick: the trade's bar is the last one of the series, or starts anew.
Single(p) == [open |-> p, high |-> p, low |-> p, close |-> p, volume |-> 1, sealed |-> FALSE]
Extended(c, p) ==
  [c EXCEPT !.high = Max({@, p}), !.low = Min({@, p}), !.close = p, !.volume = @ + 1, !.sealed = FALSE]
ApplyTick_IntoLast(series, t, p) ==
  IF DOMAIN series # {}
  THEN LET b == Max(DOMAIN series) IN Upsert(series, b, Extended(series[b], p))
  ELSE Upsert(series, BarOf(t), Single(p))
ApplyTick(series, t, p) ==
  LET b == BarOf(t) IN
  Upsert(series, b, IF DOMAIN series # {} /\ b = Max(DOMAIN series)
                    THEN Extended(series[b], p) ELSE Single(p))

\* partitionCandles, getCandlesAsOf, detectGaps, evaluateSyncStatus.
Finals == {b \in DOMAIN candles : b * BarLength <= now /\ (candles[b].sealed \/ Finished(b))}
HasGaps == \E b \in DOMAIN candles : b # Max(DOMAIN candles) /\ b + 1 \notin DOMAIN candles
Behind == now - (Max(Finals) + 1) * BarLength

\* isStale, getDataHealth; the flag markStale sets every second says the same.
Stale == quotes.age >= MaxAge
DataHealth ==
  IF Stale THEN "STALE"
  ELSE IF quotes.known # {"book", "mark"} THEN "INVALID" ELSE "HEALTHY"
SyncStatus ==
  IF DataHealth = "INVALID" THEN "DEGRADED"
  ELSE IF Finals = {} THEN "MISSING_DATA"
  ELSE IF Cardinality(Finals) < MinClosed THEN "NOT_READY"
  ELSE IF Behind > 3 * BarLength THEN "STALE"
  ELSE IF HasGaps THEN "DEGRADED" ELSE "SYNCHRONIZED"

\* What checkOrderRisk asks before a paper order.
BrokerStale == Stale
-----------------------------------------------------------------------------
(* The supervisor *)

HealthOf(s, p) ==
  IF s.age[p] = Gone THEN "DISCONNECTED"
  ELSE IF s.age[p] > MaxAge THEN "STALE"
  ELSE IF s.age[p] > DegradedAge THEN "DEGRADED" ELSE "HEALTHY"

Divergent(s) ==
  /\ 0 \notin {s.price[p] : p \in Providers}
  /\ LET gap == s.price[Primary] - s.price[Fallback]
     IN  (10000 * Max({gap, -gap})) \div s.price[Primary] > MaxDivergence

ProcessTick(p, price) ==
  LET s == [sup EXCEPT !.age[p] = 0, !.price[p] = price]
  IN  [s EXCEPT !.active =
         IF @ = Primary /\ HealthOf(s, Primary) # "HEALTHY"
            /\ HealthOf(s, Fallback) = "HEALTHY" /\ ~Divergent(s) THEN Fallback
         ELSE IF @ = Fallback /\ HealthOf(s, Primary) = "HEALTHY" THEN Primary
         ELSE @]
-----------------------------------------------------------------------------
(* The exchange *)

Sealed(c) == [c EXCEPT !.sealed = TRUE]
Quiet == [trades |-> <<>>, klines |-> <<>>]
Troubles == stream.drops + exch.asks
Up == stream.pc = "up"

\* The engine has fetched the history it starts with, or not; the forming
\* candle of it counts as closed.  What is known of the price comes from it.
FeedInit ==
  /\ now = 0
  /\ \E p \in Prints : exch = [bars |-> [b \in {0} |-> Single(p)], price |-> p, left |-> MaxTrades, asks |-> 0]
  /\ inbound = Quiet /\ fetch = <<>> /\ excused = {}
  /\ candles \in {<<>>, [b \in {0} |-> Sealed(exch.bars[0])]}
  /\ quotes = [age |-> IF candles = <<>> THEN MaxAge + 1 ELSE 0, current |-> FALSE,
               known |-> IF candles = <<>> THEN {} ELSE {"book"}]
  /\ stream = [pc |-> "opening", attempts |-> 0, fails |-> 0, down |-> 0, drops |-> 0]
  /\ sup = [age |-> [p \in Providers |-> Gone], price |-> [p \in Providers |-> 0], active |-> Primary]

Send(s, m) == inbound' = IF Up THEN [inbound EXCEPT ![s] = Append(@, m)] ELSE inbound

Trades(p) ==
  /\ exch.left > 0
  /\ exch' = [exch EXCEPT !.bars[CurrentBar] = Extended(@, p), !.price = p, !.left = @ - 1]
  /\ inbound' = IF Up THEN [inbound EXCEPT !.trades = @ \o <<[t |-> now, p |-> p], [t |-> now, p |-> p]>>]
             ELSE inbound
  /\ UNCHANGED <<now, fetch, candles, quotes, stream, sup, excused>>

ReportsBar ==
  /\ Up /\ inbound.klines = <<>>
  /\ Send("klines", [b |-> CurrentBar, c |-> exch.bars[CurrentBar], closes |-> FALSE])
  /\ UNCHANGED <<now, exch, fetch, candles, quotes, stream, sup, excused>>

\* A second passes; with it a bar may end, told to who is listening, and the
\* scheduler marks what is stale.  After MaxTime the bars stand still.
SecondPasses ==
  /\ now' = Min({now + 1, MaxTime})
  /\ IF BarOf(now') = CurrentBar
     THEN UNCHANGED <<exch, inbound, excused>>
     ELSE /\ exch' = [exch EXCEPT !.bars =
               [b \in 0..CurrentBar + 1 |-> IF b <= CurrentBar THEN @[b]
                                            ELSE [Single(exch.price) EXCEPT !.volume = 0]]]
          /\ Send("klines", [b |-> CurrentBar, c |-> exch.bars[CurrentBar], closes |-> TRUE])
          /\ excused' = IF Up THEN excused ELSE excused \union {CurrentBar}
  /\ quotes' = [quotes EXCEPT !.age = Older(@), !.current = FALSE]
  /\ sup' = [sup EXCEPT !.age = [p \in Providers |-> IF @[p] = Gone THEN Gone ELSE Older(@[p])]]
  /\ stream' = [stream EXCEPT !.down = IF Up THEN 0 ELSE Older(@)]
  /\ UNCHANGED <<fetch, candles>>
-----------------------------------------------------------------------------
(* Messages *)

Heard(sent, k) == [age |-> 0, current |-> sent = now, known |-> quotes.known \union k]

EndOnTheWay(b) == \E i \in 1..Len(inbound.klines) : inbound.klines[i].b = b /\ inbound.klines[i].closes

\* A trade, whatever its time, restarts the clock the next book is compared with.
TakeTrade ==
  /\ inbound.trades # <<>>
  /\ LET m == Head(inbound.trades) IN
       /\ quotes' = Heard(m.t, {})
       /\ candles' = ApplyTick(candles, m.t, m.p)
       /\ excused' = IF Finished(BarOf(m.t)) /\ ~EndOnTheWay(BarOf(m.t))
                     THEN excused \union {BarOf(m.t)} ELSE excused
  /\ inbound' = [inbound EXCEPT !.trades = Tail(@)]
  /\ UNCHANGED <<now, exch, fetch, stream, sup>>

\* The best bid and ask, at once or a second late: older than the last message it
\* is dropped, but not by the supervisor.
TakeBook(late) ==
  /\ Up
  /\ quotes' = IF late /\ quotes.current THEN quotes
               ELSE Heard(IF late THEN now - 1 ELSE now, {"book"})
  /\ sup' = ProcessTick(Primary, exch.price)
  /\ UNCHANGED <<now, exch, inbound, fetch, candles, stream, excused>>

TakeMark ==
  /\ Up
  /\ quotes' = Heard(now, {"mark"})
  /\ UNCHANGED <<now, exch, inbound, fetch, candles, stream, sup, excused>>

\* A candle, forming or finished; a finished one is given to the strategies.
TakeKline ==
  /\ inbound.klines # <<>>
  /\ LET m == Head(inbound.klines) IN candles' = Upsert(candles, m.b, m.c)
  /\ inbound' = [inbound EXCEPT !.klines = Tail(@)]
  /\ UNCHANGED <<now, exch, fetch, quotes, stream, sup, excused>>
-----------------------------------------------------------------------------
(* History, on request of a chart *)

\* The exchange answers with its bars up to one of them, the forming one included.
FetchServed(upto) ==
  /\ fetch = <<>> /\ Troubles < MaxTroubles
  /\ exch' = [exch EXCEPT !.asks = @ + 1]
  /\ fetch' = [b \in 0..upto |-> Sealed(exch.bars[b])]
  /\ UNCHANGED <<now, inbound, candles, quotes, stream, sup, excused>>

FetchArrives ==
  /\ fetch # <<>>
  /\ candles' = LET bars == Kept(DOMAIN candles \union DOMAIN fetch)
                IN  [b \in bars |-> IF b \in DOMAIN fetch THEN fetch[b] ELSE candles[b]]
  /\ excused' = excused \union
       {b \in DOMAIN fetch : Finished(b) /\ fetch[b] # Sealed(exch.bars[b]) /\ ~EndOnTheWay(b)}
  /\ fetch' = <<>>
  /\ UNCHANGED <<now, exch, inbound, quotes, stream, sup>>
FetchFails ==
  /\ fetch # <<>>
  /\ fetch' = <<>>
  /\ UNCHANGED <<now, exch, inbound, candles, quotes, stream, sup, excused>>
-----------------------------------------------------------------------------
(* The connection *)

StreamOpened_KeepsCount == [stream EXCEPT !.pc = "up", !.fails = 0, !.down = 0]
StreamOpened == [stream EXCEPT !.pc = "up", !.attempts = 0, !.fails = 0, !.down = 0]
Opens ==
  /\ stream.pc = "opening"
  /\ stream' = StreamOpened
  /\ UNCHANGED <<now, exch, inbound, fetch, candles, quotes, sup, excused>>

\* scheduleReconnect.
StreamClosed(s) ==
  IF s.attempts >= MaxAttempts THEN [s EXCEPT !.pc = "gaveUp"]
  ELSE [s EXCEPT !.pc = "waiting", !.attempts = @ + 1]
Disconnected == sup' = [sup EXCEPT !.age[Primary] = Gone]

OpenFails ==
  /\ stream.pc = "opening"
  /\ stream' = StreamClosed([stream EXCEPT !.fails = @ + 1])
  /\ Disconnected
  /\ UNCHANGED <<now, exch, inbound, fetch, candles, quotes, excused>>

Drops ==
  /\ Up /\ Troubles < MaxTroubles
  /\ stream' = StreamClosed([stream EXCEPT !.drops = @ + 1])
  /\ Disconnected
  /\ excused' = excused \union {b \in 0..CurrentBar : EndOnTheWay(b)}
  /\ inbound' = Quiet
  /\ UNCHANGED <<now, exch, fetch, candles, quotes>>

Reconnects ==
  /\ stream.pc = "waiting"
  /\ stream' = [stream EXCEPT !.pc = "opening"]
  /\ UNCHANGED <<now, exch, inbound, fetch, candles, quotes, sup, excused>>

FeedNext ==
  \/ \E p \in Prints : Trades(p)
  \/ \E late \in BOOLEAN : TakeBook(late)
  \/ ReportsBar \/ SecondPasses
  \/ TakeTrade \/ TakeMark \/ TakeKline
  \/ \E b \in DOMAIN exch.bars : FetchServed(b)
  \/ FetchArrives \/ FetchFails
  \/ Opens \/ OpenFails \/ Drops \/ Reconnects

FeedSpec == FeedInit /\ [][FeedNext]_feedVars
-----------------------------------------------------------------------------
(* Properties *)

\* The state has its type.
FeedTypeOK ==
  /\ now \in 0..MaxTime /\ DOMAIN exch.bars = 0..CurrentBar
  /\ DOMAIN candles \subseteq 0..CurrentBar /\ Cardinality(DOMAIN candles) <= MaxCandles
  /\ \A b \in DOMAIN candles : Valid(candles[b])
  /\ quotes.age \in 0..MaxAge + 1 /\ \A p \in Providers : sup.age[p] \in Gone..MaxAge + 1
  /\ stream.pc \in {"up", "waiting", "opening", "gaveUp"} /\ stream.attempts \in 0..MaxAttempts
  /\ sup.active \in Providers /\ excused \subseteq 0..MaxTime

\* What the strategies and the broker take for the market is the exchange's.  A
\* series called synchronised has every bar from its first to its last closed one,
\* and each finished one is the candle the exchange ended with, unless the
\* connection was down at its end, or a trade or a fetch came after it.  While the
\* connection has been down longer than the limit, the quotes are stale to the
\* health monitor and to the broker and the provider is not healthy; and the
\* supervisor never moves to a provider that has not ticked.  And a connection is
\* given up only after maxReconnectAttempts refusals in a row.
FeedIsHonest ==
  /\ SyncStatus = "SYNCHRONIZED" =>
       \A b \in Min(DOMAIN candles)..Max(Finals) :
         /\ b \in DOMAIN candles
         /\ Finished(b) /\ b \notin excused /\ ~EndOnTheWay(b) =>
              Sealed(candles[b]) = Sealed(exch.bars[b])
  /\ ~Up /\ stream.down > MaxAge =>
       Stale /\ BrokerStale /\ HealthOf(sup, Primary) # "HEALTHY"
  /\ sup.age[sup.active] # Gone \/ sup.active = Primary
  /\ stream.pc = "gaveUp" => stream.fails >= MaxAttempts
=============================================================================
