------------------------------ MODULE Backtest ------------------------------
(***************************************************************************)
(* BacktestRunner: stored one-minute klines replayed through the paper     *)
(* broker and the strategies, which are told a candle of five or fifteen   *)
(* minutes once it is over, and may look back at those before it.          *)
(*                                                                         *)
(* Times are minutes.  A candle is the set of the minutes it is made of:   *)
(* its open is that of the first, its close that of the last.  What the    *)
(* broker makes of a bar or a strategy is a fill of some realized profit,  *)
(* zero for one that opens; PaperBroker has how.                           *)
(***************************************************************************)
EXTENDS Integers, Sequences, FiniteSets, FiniteSetsExt, Functions

CONSTANTS
  Tapes,                \* klines of each symbol there may be, as sets of minutes
  Order,                \* config.symbols, a sequence
  Short, Long,          \* minutes of a 5m and of a 15m candle
  LookBack,             \* candles a strategy asks for
  FundingEvery,         \* FUNDING_INTERVAL_MS
  TradePnls,            \* realized profits of a fill
  MaxDeals              \* bound: fills of one run

ASSUME BacktestAssumption ==
  /\ Short \in Nat \ {0} /\ Long \in Nat \ {0} /\ Short < Long /\ Long % Short = 0
  /\ Order \in Seq(Range(Order)) /\ IsInjective(Order)
  /\ \A t \in Tapes : t \in [Range(Order) -> SUBSET Nat]
  /\ LookBack \in Nat \ {0} /\ FundingEvery \in Nat
  /\ TradePnls \subseteq Int /\ MaxDeals \in Nat

VARIABLES
  tape,                 \* candleCache, of one minute
  clock,                \* replayTs; -1 before the first bar
  behind,               \* symbols whose bar of this minute is still to come
  quote,                \* the minute whose close the broker has for a price; -1: none
  bucket,               \* last5mBucket, last15mBucket
  telling,              \* candles to tell the strategies
  last,                 \* lastSnapshotTime, lastFundingTime
  heard,                \* history: what was told, when, at what price, with which look back
  deals,                \* fills
  value,                \* unrealized profit less funding
  curve,                \* peak and deepest fall of the points recorded
  result                \* what run() returns

tester == <<tape, clock, behind, quote, bucket, telling, last, heard, deals, value, curve, result>>
Traded == DOMAIN tape
Sizes == {Short, Long}
StartTime == 0
Unfinished == [trades |-> -1]
-----------------------------------------------------------------------------
(* Candles *)

FloorTo(m, size) == (m \div size) * size
\* buildHigherIntervals
Made(s, size, at) == {m \in tape[s] : FloorTo(m, size) = at}
Series(s, size) == {FloorTo(m, size) : m \in tape[s]}

\* Whose turn it is, of some symbols.
FirstOf(S) == Order[Min({k \in DOMAIN Order : Order[k] \in S})]
NextUp == FirstOf(behind)

LastOf(S, n) == {x \in S : Cardinality({y \in S : y > x}) < n}
Visible_WithTheForming(s, size) == LastOf({b \in Series(s, size) : b <= clock}, LookBack)
\* getCandles: those that were over by the clock, the last of them.
Visible(s, size) == LastOf({b \in Series(s, size) : b + size <= clock}, LookBack)

SumOf(f) == SumFunctionOnSet(f, DOMAIN f)
Equity == SumOf(deals) + value
\* recordEquitySnapshot, as computeResults will look at it.
Noted(c) ==
  LET peak == IF Equity > c.peak THEN Equity ELSE c.peak
  IN  [peak |-> peak, fall |-> IF peak - Equity > c.fall THEN peak - Equity ELSE c.fall]

\* What is told at a bar that enters a new bucket: of every symbol its candle of the
\* bucket before, if it has one.
Closing(size, now) ==
  LET over == bucket[size] IN
  IF over = FloorTo(now, size) \/ over = -1 THEN {}
  ELSE {[symbol |-> s, size |-> size, at |-> over] : s \in {s \in Traded : over \in Series(s, size)}}
\* Those of five minutes are told first.
Foremost ==
  LET short == {c \in telling : c.size = Short}
      due == IF short # {} THEN short ELSE telling
  IN  CHOOSE c \in due : c.symbol = FirstOf({d.symbol : d \in due})
-----------------------------------------------------------------------------
TesterInit ==
  /\ tape \in Tapes
  /\ clock = -1 /\ behind = {} /\ telling = {}
  /\ quote = [s \in Traded |-> -1]
  /\ bucket = [size \in Sizes |-> -1]
  /\ last = [point |-> StartTime, funding |-> StartTime]
  /\ heard = {} /\ deals = <<>> /\ value = 0
  /\ curve = [peak |-> 0, fall |-> 0]
  /\ result = Unfinished

\* A fill, or none.
Dealt == \/ UNCHANGED deals
         \/ Len(deals) < MaxDeals /\ \E p \in TradePnls : deals' = Append(deals, p)

Later == {m \in UNION {tape[s] : s \in Traded} : m > clock}
\* The next minute any symbol has a bar of.
NextMinute ==
  /\ result = Unfinished /\ behind = {} /\ telling = {} /\ Later # {}
  /\ clock' = Min(Later)
  /\ behind' = {s \in Traded : clock' \in tape[s]}
  /\ UNCHANGED <<tape, quote, bucket, telling, last, heard, deals, value, curve, result>>

\* The next symbol's bar: a price for the broker, and candles that are over by it.
PlayBar ==
  /\ behind # {} /\ telling = {} /\ quote[NextUp] # clock
  /\ quote' = [quote EXCEPT ![NextUp] = clock]
  /\ telling' = Closing(Short, clock) \union Closing(Long, clock)
  /\ bucket' = [size \in Sizes |-> FloorTo(clock, size)]
  /\ Dealt /\ value' \in {-1, 0, 1}
  /\ UNCHANGED <<tape, clock, behind, last, heard, curve, result>>

\* strategyEngine.onCandleClose
TellCandle ==
  /\ telling # {}
  /\ heard' = heard \union
       {[candle |-> Foremost, time |-> clock, price |-> quote[Foremost.symbol],
         back |-> Visible(Foremost.symbol, Foremost.size)]}
  /\ telling' = telling \ {Foremost}
  /\ Dealt
  /\ UNCHANGED <<tape, clock, behind, quote, bucket, last, value, curve, result>>

\* The rest of the bar: a point of the curve each minute, funding at its interval.
EndBar ==
  /\ behind # {} /\ telling = {} /\ quote[NextUp] = clock
  /\ behind' = behind \ {NextUp}
  /\ LET point == clock - last.point >= 1
         funding == clock - last.funding >= FundingEvery
     IN  /\ curve' = IF point THEN Noted(curve) ELSE curve
         /\ value' = IF funding THEN value - 1 ELSE value
         /\ last' = [point |-> IF point THEN clock ELSE last.point,
                     funding |-> IF funding THEN clock ELSE last.funding]
  /\ UNCHANGED <<tape, clock, quote, bucket, telling, heard, deals, result>>

\* computeResults: a fill without a profit or a loss opened a position and is no trade.
Results ==
  LET wins == SelectSeq(deals, LAMBDA p : p > 0)
      losses == SelectSeq(deals, LAMBDA p : p < 0)
  IN  [trades |-> Len(SelectSeq(deals, LAMBDA p : p # 0)),
       wins |-> Len(wins), profit |-> SumOf(wins), loss |-> -SumOf(losses),
       final |-> Equity, fall |-> Noted(curve).fall]
Report ==
  /\ result = Unfinished /\ behind = {} /\ telling = {} /\ Later = {}
  /\ result' = Results /\ curve' = Noted(curve)
  /\ UNCHANGED <<tape, clock, behind, quote, bucket, telling, last, heard, deals, value>>

\* The process has ended.
Reported == result # Unfinished /\ UNCHANGED tester

TesterNext == NextMinute \/ PlayBar \/ TellCandle \/ EndBar \/ Report \/ Reported
TesterSpec == TesterInit /\ [][TesterNext]_tester
-----------------------------------------------------------------------------
TesterTypeOK ==
  /\ tape \in Tapes /\ clock \in Nat \union {-1}
  /\ behind \subseteq Traded /\ Len(deals) <= MaxDeals
  /\ \A s \in Traded : quote[s] \in tape[s] \union {-1}
  /\ curve.fall >= 0 /\ curve.peak >= 0

\* A strategy is told of a candle once it is over, with all its bars replayed, and
\* sees none in its look back that was not; it fills at a price no older than the
\* candle's last bar and not of a minute the replay has not come to.  It is told each
\* candle but the last one, once, whatever bars are missing; and the run's drawdown is
\* no less than what it lost.
BacktestSeesNoFuture ==
  /\ \A h \in heard :
       LET c == h.candle IN
       /\ c.at + c.size <= h.time
       /\ c.at \in h.back
       /\ \A b \in h.back : \A m \in Made(c.symbol, c.size, b) :
            m < h.time /\ m <= h.price
       /\ h.price <= h.time
  /\ Cardinality({h.candle : h \in heard}) = Cardinality(heard)
  /\ result # Unfinished =>
       /\ \A s \in Traded : \A size \in Sizes :
            {h.candle.at : h \in {h \in heard : h.candle.symbol = s /\ h.candle.size = size}}
              = {b \in Series(s, size) : b < bucket[size]}
       /\ result.fall >= -result.final
=============================================================================
