---------------------------- MODULE PaperBroker ----------------------------
(***************************************************************************)
(* The simulated exchange of paper-broker: class PaperBroker of            *)
(* src/broker/PaperBroker.ts.  One margin account in USDT, netted          *)
(* positions, resting orders, mark-to-market liquidation and funding.      *)
(*                                                                         *)
(* JavaScript runs every method to completion, so the methods that touch   *)
(* one order are single actions.  The three methods that loop (onMarket    *)
(* over the orders, checkLiquidation and applyFunding over the positions)  *)
(* are a sequence of steps, one per iteration that changes state; while a  *)
(* loop runs (phase # "idle") no other method can start.  The state        *)
(* between two steps is the one an onFill observer, or a crash, sees.      *)
(*                                                                         *)
(* Data.  A quantity is a number of steps, a price a number of price       *)
(* units (pricePrecision), 0 a price nobody has quoted.  Money (wallet,    *)
(* fees, PnL) is in units of 1/MoneyScale of price unit x quantity step;   *)
(* fee and maintenance rates are given per MoneyScale.                     *)
(*                                                                         *)
(* A definition with an underscore in its name is a plausible slip in the  *)
(* definition it is named after: no action uses it, the model checker      *)
(* substitutes it to show that a property would notice.                    *)
(***************************************************************************)
EXTENDS Netting, Integers, Sequences, FiniteSets, Functions

CONSTANTS
  Symbols,              \* the instruments the broker was constructed with
  Commands,             \* the order commands its callers may submit
  Ticks,                \* the partial market updates the feed may deliver
  Transfers,            \* the deltas of adjustWalletBalance
  ResetBalances,        \* the starting balances of resetAccount
  StartingUsdt,         \* config.startingUsdt, in money units
  TakerFee, MakerFee,   \* fee rates
  Slip, SlipDenom,      \* marketSlippageBps / 10000 as a fraction
  MaintRate,            \* maintenanceMarginRate
  MinQty, MinNotional,  \* instrument.minQty, instrument.minNotional
  MaxOrderNotional, MaxPositionNotional, MaxOpenOrders,
  MaxDailyLoss, MaxLeverage,
  Midnight,             \* bound: whether the UTC day may change
  MaxOrders,            \* bound: orders submitted between two resets
  MaxFundings,          \* bound: funding sweeps between two resets
  MaxLiquidations       \* bound: liquidation sweeps counted since a reset

StopTypes == {"STOP_MARKET", "TAKE_PROFIT_MARKET"}
OrderTypes == {"MARKET", "LIMIT", "TRAILING_STOP_MARKET"} \union StopTypes
Statuses == {"NEW", "FILLED", "CANCELED", "REJECTED"}

Command == [sym: Symbols, side: Sides, type: OrderTypes,
            tif: {"GTC", "IOC", "FOK"}, postOnly: BOOLEAN,
            qty: Nat, price: Nat, reduceOnly: BOOLEAN, lev: Nat \ {0}]
Tick    == [sym: Symbols, bid: Nat, ask: Nat, last: Nat, mark: Nat, rate: Int]

ASSUME SymbolsAssumption == IsFiniteSet(Symbols)
ASSUME CommandsAssumption == Commands \subseteq Command
ASSUME TicksAssumption == Ticks \subseteq Tick
ASSUME TransfersAssumption == Transfers \subseteq Int
ASSUME ResetBalancesAssumption == ResetBalances \subseteq Int
ASSUME MoneyAssumption ==
  /\ StartingUsdt \in Int
  /\ MoneyScale \in Nat \ {0}
  /\ TakerFee \in Nat /\ MakerFee \in Nat
  /\ Slip \in Nat /\ SlipDenom \in Nat \ {0}
ASSUME BoundsAssumption ==
  /\ MaxOpenOrders \in Nat \ {0}
  /\ MaxOrders \in Nat /\ MaxFundings \in Nat /\ MaxLiquidations \in Nat

VARIABLES
  orders,           \* this.orders in insertion order
  pos,              \* this.positions; a symbol not in the Map has quantity 0
  fills,            \* this.fills
  wallet,           \* this.walletBalance
  totalFees, totalFunding, totalRealized,
  liquidations,     \* this.liquidations
  market,           \* getMarket(symbol)
  dayStart,         \* this.dayStartEquity
  dayChanged,       \* the UTC day is no longer this.currentUtcDay
  startBalance,     \* the balance the account was constructed or reset with
  transferred,      \* sum of the adjustWalletBalance deltas since then
  fundings,         \* funding sweeps since then
  phase,            \* the loop that is running, or "idle"
  tickSym, cursor,  \* evaluateOpenOrders: its symbol and next order
  unpaid            \* applyFunding: the positions it has yet to visit

money == <<wallet, totalFees, totalFunding, totalRealized>>
day   == <<dayStart, dayChanged>>
loop  == <<phase, tickSym, cursor, unpaid>>
epoch == <<startBalance, transferred, fundings, liquidations>>
book  == <<orders, pos, fills>>
vars  == <<book, money, market, day, epoch, loop>>
-----------------------------------------------------------------------------
\* a ?? b over prices
Else(a, b) == IF a # 0 THEN a ELSE b
Mid(m) == IF m.bid # 0 /\ m.ask # 0 THEN (m.bid + m.ask) \div 2 ELSE 0

Resting(o) == o.status = "NEW"
-----------------------------------------------------------------------------
(* Account: calculateAccountState *)

MarkPrice(s) == Else(market[s].mark,
                     Else(market[s].last, Else(Mid(market[s]), pos[s].entry)))
Unrealized(s) == MoneyScale * pos[s].qty * (MarkPrice(s) - pos[s].entry)
Notional(s)   == Abs(pos[s].qty) * MarkPrice(s)

Total(f) == SumFunctionOnSet(f, Symbols)
Equity == wallet + Total([s \in Symbols |-> Unrealized(s)])
InitialMargin ==
  Total([s \in Symbols |-> (MoneyScale * Notional(s)) \div pos[s].lev])
MaintenanceMargin == Total([s \in Symbols |-> MaintRate * Notional(s)])
AvailableBalance_Unpledged == Equity
AvailableBalance ==
  IF Equity > InitialMargin THEN Equity - InitialMargin ELSE 0
-----------------------------------------------------------------------------
(* Prices *)

\* getExecutionPrice
TouchPrice(side, m) ==
  IF side = "BUY" THEN Else(m.ask, Else(m.last, m.mark))
                  ELSE Else(m.bid, Else(m.last, m.mark))
ExecutionPrice(o) ==
  LET m == market[o.sym]
      touch == TouchPrice(o.side, m)
  IN  IF o.type = "LIMIT"
      THEN Else(IF o.side = "BUY" THEN m.ask ELSE m.bid, o.price)
      ELSE touch + Signed(o.side, (touch * Slip) \div SlipDenom)

\* isLimitMarketable
Marketable(o) ==
  LET m == market[o.sym] IN
  /\ o.price # 0
  /\ IF o.side = "BUY" THEN m.ask # 0 /\ m.ask <= o.price
                       ELSE m.bid # 0 /\ m.bid >= o.price

\* isStopTriggered
Triggered(o) ==
  LET m == market[o.sym]
      ref == Else(m.mark, Else(m.last, Mid(m)))
      above == (o.type = "STOP_MARKET") <=> (o.side = "BUY")
  IN  /\ o.price # 0 /\ ref # 0
      /\ IF above THEN ref >= o.price ELSE ref <= o.price

\* estimatePrice
EstimatedPrice(o) ==
  IF o.type \in StopTypes \union {"LIMIT"} /\ o.price # 0 THEN o.price
  ELSE IF o.side = "BUY" THEN market[o.sym].ask ELSE market[o.sym].bid
-----------------------------------------------------------------------------
(* Risk: checkOrderRisk.  The order under test is already in this.orders    *)
(* with status NEW, so getOpenOrders() counts it.                           *)

OpenOrders_BracketsOnly ==
  Cardinality({i \in DOMAIN orders : Resting(orders[i]) /\ orders[i].reduceOnly})
OpenOrders == Cardinality({i \in DOMAIN orders : Resting(orders[i])})

\* rollDailyEquityIfNeeded
DayBase == IF dayChanged THEN Equity ELSE dayStart

ExposureOK(o, notional, grows) ==
  LET held == Abs(pos[o.sym].qty)
      new  == Abs(pos[o.sym].qty + Signed(o.side, o.qty))
  IN  /\ notional <= MaxOrderNotional
      /\ (IF grows THEN new ELSE held) * EstimatedPrice(o) <= MaxPositionNotional
      /\ OpenOrders + 1 < MaxOpenOrders
      /\ Equity >= DayBase - MaxDailyLoss

MarginOK(o, notional) ==
  LET rate == IF o.type = "LIMIT" THEN MakerFee ELSE TakerFee
  IN  AvailableBalance >= (MoneyScale * notional) \div o.lev + notional * rate

Grows(o) ==
  Abs(pos[o.sym].qty + Signed(o.side, o.qty)) > Abs(pos[o.sym].qty)

RiskOK_NoExemption(o) ==
  LET notional == o.qty * EstimatedPrice(o) IN
  /\ o.qty > 0 /\ o.qty >= MinQty
  /\ o.lev <= MaxLeverage
  /\ EstimatedPrice(o) > 0 /\ notional >= MinNotional
  /\ o.reduceOnly => ~Grows(o)
  /\ ExposureOK(o, notional, Grows(o))
  /\ Grows(o) => MarginOK(o, notional)

RiskOK(o) ==
  LET notional == o.qty * EstimatedPrice(o) IN
  /\ o.qty > 0 /\ o.qty >= MinQty
  /\ o.lev <= MaxLeverage
  /\ EstimatedPrice(o) > 0 /\ notional >= MinNotional
  /\ o.reduceOnly => ~Grows(o)
  /\ ~o.reduceOnly => ExposureOK(o, notional, Grows(o))
  /\ Grows(o) => MarginOK(o, notional)
-----------------------------------------------------------------------------
(* Initial state: a constructor that finds nothing persisted *)

NoMarket == [bid |-> 0, ask |-> 0, last |-> 0, mark |-> 0, rate |-> 0,
             stale |-> TRUE]
Flat == [qty |-> 0, entry |-> 0, lev |-> 1]

Init ==
  /\ orders = <<>> /\ fills = <<>>
  /\ pos = [s \in Symbols |-> Flat]
  /\ wallet = StartingUsdt
  /\ totalFees = 0 /\ totalFunding = 0 /\ totalRealized = 0
  /\ market = [s \in Symbols |-> NoMarket]
  /\ dayStart = StartingUsdt /\ dayChanged = FALSE
  /\ startBalance = StartingUsdt /\ transferred = 0
  /\ fundings = 0 /\ liquidations = 0
  /\ phase = "idle" /\ tickSym \in Symbols /\ cursor = 1 /\ unpaid = {}
-----------------------------------------------------------------------------
(* Fills *)

StaleBracket_StopsOnly(b, sym) ==
  Resting(b) /\ b.sym = sym /\ b.reduceOnly /\ b.type = "STOP_MARKET"

\* cancelStaleBracketOrders: the orders it cancels when o's symbol changes
StaleBracket(b, sym) ==
  Resting(b) /\ b.sym = sym /\ b.reduceOnly /\ b.type \in StopTypes

Settled_CancelLast(os, i, ended) ==
  [j \in DOMAIN os |->
     IF ended /\ StaleBracket(os[j], os[i].sym)
     THEN [os[j] EXCEPT !.status = "CANCELED"]
     ELSE IF j = i THEN [os[j] EXCEPT !.status = "FILLED"]
     ELSE os[j]]

\* The order book os once its order i has filled.  When the fill ends the
\* exposure, the stale brackets are canceled first, order i among them if it is
\* one; then order i is FILLED.
Settled(os, i, ended) ==
  [j \in DOMAIN os |->
     IF j = i THEN [os[j] EXCEPT !.status = "FILLED"]
     ELSE IF ended /\ StaleBracket(os[j], os[i].sym)
     THEN [os[j] EXCEPT !.status = "CANCELED"]
     ELSE os[j]]

Booked_FeeOnlyFromWallet(fee, pnl) ==
  /\ wallet' = wallet - fee + pnl
  /\ totalRealized' = totalRealized + pnl
  /\ UNCHANGED <<totalFees, totalFunding>>

\* What the fill does to the account's totals.
Booked(fee, pnl) ==
  /\ wallet' = wallet - fee + pnl
  /\ totalFees' = totalFees + fee
  /\ totalRealized' = totalRealized + pnl
  /\ UNCHANGED totalFunding

\* executeFill and the end of fillOrder, for order i of the order book os.
\* The whole quantity fills: there is no size to the touch.
FillOrder(os, i, price, rate) ==
  LET o    == os[i]
      p    == pos[o.sym]
      after == Netted(p, o, price)
      fee  == o.qty * price * rate
      pnl  == Realized(p, o, price)
  IN  /\ pos' = [pos EXCEPT ![o.sym] = after]
      /\ Booked(fee, pnl)
      /\ fills' = Append(fills,
                    [order |-> i, sym |-> o.sym, side |-> o.side,
                     qty |-> o.qty, price |-> price, fee |-> fee, pnl |-> pnl,
                     before |-> p.qty, after |-> after.qty])
      /\ orders' = Settled(os, i, Ends(p, o))
-----------------------------------------------------------------------------
(* submitOrder *)

NewOrder_SignedClamp(c) ==
  [sym |-> c.sym, side |-> c.side, type |-> c.type,
   qty |-> IF c.reduceOnly THEN Least(c.qty, pos[c.sym].qty) ELSE c.qty,
   price |-> c.price, reduceOnly |-> c.reduceOnly, lev |-> c.lev,
   status |-> "NEW"]

\* A reduce-only order is clamped to the position it reduces.
NewOrder(c) ==
  LET open == Abs(pos[c.sym].qty) IN
  [sym |-> c.sym, side |-> c.side, type |-> c.type,
   qty |-> IF c.reduceOnly THEN Least(c.qty, open) ELSE c.qty,
   price |-> c.price, reduceOnly |-> c.reduceOnly, lev |-> c.lev,
   status |-> "NEW"]

Executes(c, o) ==
  \/ c.type = "MARKET"
  \/ c.type = "LIMIT" /\ Marketable(o) /\ ~c.postOnly
  \/ c.type \in StopTypes /\ Triggered(o)
Rests(c, o) ==
  /\ c.price # 0
  /\ \/ c.type = "LIMIT" /\ ~Marketable(o) /\ c.tif = "GTC"
     \/ c.type \in StopTypes /\ ~Triggered(o)
Expires(c, o) ==
  c.type = "LIMIT" /\ c.price # 0 /\ ~Marketable(o) /\ c.tif = "IOC"

\* The status in which submitOrder leaves the order of command c.
Outcome(c) ==
  LET o == NewOrder(c)
      accepted == ~market[c.sym].stale /\ RiskOK(o)
  IN  CASE accepted /\ Executes(c, o) -> "FILLED"
        [] accepted /\ Rests(c, o)    -> "NEW"
        [] accepted /\ Expires(c, o)  -> "CANCELED"
        [] OTHER                      -> "REJECTED"

\* checkOrderRisk rolls the daily baseline, once the market is known fresh.
RollDay(c) ==
  IF market[c.sym].stale THEN UNCHANGED day
  ELSE dayStart' = DayBase /\ dayChanged' = FALSE

Submit(c) ==
  /\ phase = "idle" /\ Len(orders) < MaxOrders
  /\ RollDay(c)
  /\ UNCHANGED <<market, epoch, loop>>

\* The order rests, or is rejected or canceled, without a fill.
SubmitUnfilled(c) ==
  /\ Submit(c)
  /\ Outcome(c) # "FILLED"
  /\ orders' = Append(orders, [NewOrder(c) EXCEPT !.status = Outcome(c)])
  /\ UNCHANGED <<pos, fills, money>>

SubmitFilled(c) ==
  /\ Submit(c)
  /\ Outcome(c) = "FILLED"
  /\ FillOrder(Append(orders, NewOrder(c)), Len(orders) + 1,
               ExecutionPrice(NewOrder(c)), TakerFee)
-----------------------------------------------------------------------------
(* cancelOrder, cancelAllOrders *)

Canceled(o) == IF Resting(o) THEN [o EXCEPT !.status = "CANCELED"] ELSE o

CancelOrder(i) ==
  /\ phase = "idle"
  /\ Resting(orders[i])
  /\ orders' = [orders EXCEPT ![i] = Canceled(@)]
  /\ UNCHANGED <<pos, fills, money, market, day, epoch, loop>>

\* With a symbol, or for the whole account.
CancelAllOrders(syms) ==
  /\ phase = "idle"
  /\ orders' = [i \in DOMAIN orders |->
                  IF orders[i].sym \in syms THEN Canceled(orders[i])
                                            ELSE orders[i]]
  /\ UNCHANGED <<pos, fills, money, market, day, epoch, loop>>
-----------------------------------------------------------------------------
(* onMarket: merge the update, then evaluateOpenOrders, then checkLiquidation *)

Merged(m, t) ==
  [bid |-> Else(t.bid, m.bid), ask |-> Else(t.ask, m.ask),
   last |-> Else(t.last, m.last), mark |-> Else(t.mark, m.mark),
   rate |-> IF t.mark # 0 THEN t.rate ELSE m.rate, stale |-> FALSE]

OnMarket(t) ==
  /\ phase = "idle"
  /\ market' = [market EXCEPT ![t.sym] = Merged(@, t)]
  /\ phase' = "matching" /\ tickSym' = t.sym /\ cursor' = 1
  /\ UNCHANGED <<book, money, day, epoch, unpaid>>

\* evaluateOpenOrders fills this order if it reaches it.
Executable(o) ==
  /\ o.sym = tickSym /\ Resting(o)
  /\ \/ o.type = "LIMIT" /\ Marketable(o)
     \/ o.type \in StopTypes /\ Triggered(o)

\* The rest of the book, in the order of the Map.
Upcoming == {i \in cursor..Len(orders) : Executable(orders[i])}

MatchOrder(i) ==
  /\ phase = "matching"
  /\ i \in Upcoming /\ \A j \in Upcoming : i <= j
  /\ FillOrder(orders, i, ExecutionPrice(orders[i]),
               IF orders[i].type = "LIMIT" THEN MakerFee ELSE TakerFee)
  /\ cursor' = i + 1
  /\ UNCHANGED <<market, day, epoch, phase, tickSym, unpaid>>

\* checkLiquidation: the account is due, and these positions have a mark.
LiquidationDue == MaintenanceMargin > 0 /\ Equity <= MaintenanceMargin
Closable_TickedSymbol == {s \in {tickSym} : pos[s].qty # 0 /\ market[s].mark # 0}
Closable_FreshOnly ==
  {s \in Symbols : pos[s].qty # 0 /\ market[s].mark # 0 /\ ~market[s].stale}
Closable == {s \in Symbols : pos[s].qty # 0 /\ market[s].mark # 0}

EndMatching ==
  /\ phase = "matching" /\ Upcoming = {}
  /\ IF LiquidationDue
     THEN /\ liquidations' = Least(liquidations + 1, MaxLiquidations)
          /\ phase' = IF Closable = {} THEN "idle" ELSE "liquidating"
     ELSE phase' = "idle" /\ UNCHANGED liquidations
  /\ cursor' = 1
  /\ UNCHANGED <<book, money, market, day, startBalance, transferred, fundings,
                 tickSym, unpaid>>

\* checkLiquidation closes one position at its mark with a synthetic order.
LiquidationOrder(s) ==
  [sym |-> s, side |-> IF pos[s].qty > 0 THEN "SELL" ELSE "BUY",
   type |-> "MARKET", qty |-> Abs(pos[s].qty), price |-> 0,
   reduceOnly |-> TRUE, lev |-> pos[s].lev, status |-> "NEW"]

LiquidatePosition_NoFillRecord(s) ==
  LET o == LiquidationOrder(s) IN
  /\ phase = "liquidating" /\ s \in Closable
  /\ pos' = [pos EXCEPT ![s] = Netted(@, o, market[s].mark)]
  /\ Booked(0, Realized(pos[s], o, market[s].mark))
  /\ phase' = IF Closable = {s} THEN "idle" ELSE "liquidating"
  /\ UNCHANGED <<orders, fills, market, day, epoch, tickSym, cursor, unpaid>>

LiquidatePosition(s) ==
  /\ phase = "liquidating" /\ s \in Closable
  /\ FillOrder(Append(orders, LiquidationOrder(s)), Len(orders) + 1,
               market[s].mark, TakerFee)
  /\ phase' = IF Closable = {s} THEN "idle" ELSE "liquidating"
  /\ UNCHANGED <<market, day, epoch, tickSym, cursor, unpaid>>
-----------------------------------------------------------------------------
(* applyFunding *)

ApplyFunding ==
  /\ phase = "idle" /\ fundings < MaxFundings
  /\ unpaid' = {s \in Closable : market[s].rate # 0}
  /\ unpaid' # {}
  /\ phase' = "funding" /\ fundings' = fundings + 1
  /\ UNCHANGED <<book, money, market, day, startBalance, transferred,
                 liquidations, tickSym, cursor>>

\* A long pays a positive rate, a short receives it.
FundPosition(s) ==
  LET payment == pos[s].qty * market[s].mark * market[s].rate IN
  /\ phase = "funding" /\ s \in unpaid
  /\ wallet' = wallet - payment
  /\ totalFunding' = totalFunding + payment
  /\ unpaid' = unpaid \ {s}
  /\ phase' = IF unpaid = {s} THEN "idle" ELSE "funding"
  /\ UNCHANGED <<book, totalFees, totalRealized, market, day, epoch, tickSym,
                 cursor>>
-----------------------------------------------------------------------------
(* adjustWalletBalance, resetAccount *)

\* A transfer between the futures wallet and another; the API checks the
\* balance a withdrawal needs.
AdjustWalletBalance(delta) ==
  /\ phase = "idle"
  /\ AvailableBalance >= -delta
  /\ wallet' = wallet + delta
  /\ transferred' = transferred + delta
  /\ UNCHANGED <<book, totalFees, totalFunding, totalRealized, market, day,
                 startBalance, fundings, liquidations, loop>>

ResetAccount(balance) ==
  /\ phase = "idle"
  /\ orders' = <<>> /\ fills' = <<>>
  /\ pos' = [s \in Symbols |-> Flat]
  /\ wallet' = balance
  /\ totalFees' = 0 /\ totalFunding' = 0 /\ totalRealized' = 0
  /\ dayStart' = balance /\ dayChanged' = FALSE
  /\ startBalance' = balance /\ transferred' = 0
  /\ fundings' = 0 /\ liquidations' = 0
  /\ UNCHANGED <<market, loop>>
-----------------------------------------------------------------------------
(* Time: a quote outlives staleMarketMaxAgeMs, or the UTC day changes *)

GoStale(s) ==
  /\ phase = "idle" /\ ~market[s].stale
  /\ market' = [market EXCEPT ![s].stale = TRUE]
  /\ UNCHANGED <<book, money, day, epoch, loop>>

NewUtcDay ==
  /\ phase = "idle" /\ Midnight /\ ~dayChanged
  /\ dayChanged' = TRUE
  /\ UNCHANGED <<book, money, market, dayStart, epoch, loop>>
-----------------------------------------------------------------------------
\* One iteration of the loop that is running.
LoopStep ==
  \/ \E i \in DOMAIN orders : MatchOrder(i)
  \/ EndMatching
  \/ \E s \in Symbols : LiquidatePosition(s)
  \/ \E s \in Symbols : FundPosition(s)

Next ==
  \/ \E c \in Commands : SubmitUnfilled(c) \/ SubmitFilled(c)
  \/ \E i \in DOMAIN orders : CancelOrder(i)
  \/ \E syms \in {{s} : s \in Symbols} \union {Symbols} : CancelAllOrders(syms)
  \/ \E t \in Ticks : OnMarket(t)
  \/ ApplyFunding
  \/ \E delta \in Transfers : AdjustWalletBalance(delta)
  \/ \E balance \in ResetBalances : ResetAccount(balance)
  \/ \E s \in Symbols : GoStale(s)
  \/ NewUtcDay
  \/ LoopStep

Spec == Init /\ [][Next]_vars

\* A method that has started runs to its end, and the feed keeps ticking.
FairSpec ==
  /\ Spec
  /\ WF_vars(LoopStep)
  /\ WF_vars(\E t \in Ticks : OnMarket(t))
-----------------------------------------------------------------------------
(* Properties *)

OrderRecord == [sym: Symbols, side: Sides, type: OrderTypes, qty: Nat,
                price: Nat, reduceOnly: BOOLEAN, lev: Nat \ {0}, status: Statuses]
PositionRecord == [qty: Int, entry: Int, lev: Nat \ {0}]
FillRecord == [order: Nat, sym: Symbols, side: Sides, qty: Nat, price: Int,
               fee: Int, pnl: Int, before: Int, after: Int]
MarketRecord == [bid: Nat, ask: Nat, last: Nat, mark: Nat, rate: Int,
                 stale: BOOLEAN]

\* The shape of the broker's state.  dayStart is a sum over the positions and
\* is left to the model checker.
TypeOK ==
  /\ orders \in Seq(OrderRecord)
  /\ pos \in [Symbols -> PositionRecord]
  /\ fills \in Seq(FillRecord)
  /\ wallet \in Int /\ totalFees \in Int
  /\ totalFunding \in Int /\ totalRealized \in Int
  /\ market \in [Symbols -> MarketRecord]
  /\ dayChanged \in BOOLEAN
  /\ startBalance \in Int /\ transferred \in Int
  /\ fundings \in Nat /\ liquidations \in Nat
  /\ phase \in {"idle", "matching", "liquidating", "funding"}
  /\ tickSym \in Symbols /\ cursor \in Nat \ {0} /\ unpaid \subseteq Symbols

\* The wallet is the formula the constructor rebuilds it with
\* (startingUsdt + realized - fees - funding) plus the transfers in and out,
\* after every fill, liquidation, funding payment, transfer and reset.
LedgerIdentity ==
  wallet = startBalance + totalRealized - totalFees - totalFunding + transferred

\* The index of the last of the first n fills of fs that is of symbol s.
LastFill(fs, s, n) ==
  {k \in 1..n : fs[k].sym = s /\ \A l \in k+1..n : fs[l].sym # s}

\* The fills of a symbol chain: each starts from the quantity its predecessor
\* left, the first from flat, and the last leaves the position there is.  No
\* path (submission, match, liquidation) moves a position without a fill.
AuditChain ==
  /\ \A k \in DOMAIN fills :
       LET f == fills[k]
           last == LastFill(fills, f.sym, k - 1)
       IN  /\ f.after = f.before + Signed(f.side, f.qty)
           /\ last = {} => f.before = 0
           /\ \A j \in last : f.before = fills[j].after
  /\ \A s \in Symbols :
       LET last == LastFill(fills, s, Len(fills))
       IN  /\ last = {} => pos[s].qty = 0
           /\ \A j \in last : pos[s].qty = fills[j].after

\* An order has one fill, of its whole quantity, exactly when it is FILLED: a
\* rejected or canceled order never traded, and no order trades twice.
FillsMatchOrders ==
  /\ \A k \in DOMAIN fills :
       /\ fills[k].order \in DOMAIN orders
       /\ LET o == orders[fills[k].order] IN
          /\ o.status = "FILLED"
          /\ fills[k].sym = o.sym /\ fills[k].side = o.side /\ fills[k].qty = o.qty
  /\ \A j, k \in DOMAIN fills : fills[j].order = fills[k].order => j = k
  /\ \A i \in DOMAIN orders :
       orders[i].status = "FILLED" => \E k \in DOMAIN fills : fills[k].order = i

\* Every resting reduce-only stop or take-profit faces an open position on the
\* other side: none outlives the position it protects, or its flip.
BracketsFaceLivePosition ==
  \A i \in DOMAIN orders :
    Resting(orders[i]) /\ orders[i].reduceOnly /\ orders[i].type \in StopTypes =>
      Opposes(orders[i].side, pos[orders[i].sym].qty)

\* checkOrderRisk: exposure caps, the open-order cap and the daily-loss breaker
\* never keep a position from being closed by a reduce-only market order.
ReduceOnlyAlwaysExits ==
  \A s \in Symbols : \A q \in 1..Abs(pos[s].qty) :
    LET exit == [LiquidationOrder(s) EXCEPT !.qty = q] IN
    /\ q >= MinQty /\ q * EstimatedPrice(exit) >= MinNotional
    /\ EstimatedPrice(exit) > 0 /\ pos[s].lev <= MaxLeverage
    => RiskOK(exit)

\* maxOpenOrders bounds the orders that rest and may add exposure.
OpenOrderCap ==
  Cardinality({i \in DOMAIN orders : Resting(orders[i]) /\ ~orders[i].reduceOnly})
    < MaxOpenOrders

\* A tick ends with equity above the maintenance margin, or with no position
\* left open that the broker has a mark price to close at.
TickEndsSolvent ==
  [][(phase \in {"matching", "liquidating"} /\ phase' = "idle")
     => (~LiquidationDue' \/ \A s \in Symbols : pos'[s].qty # 0 => market'[s].mark = 0)]_vars

\* A fill never creates money: equity moves by the fee, and by the distance of
\* the fill price from the mark, whatever the fill opens, adds to, reduces,
\* closes or flips.  An added-to entry price is rounded to a price unit.
FillConservesEquity ==
  [][fills' # fills /\ fills' # <<>> =>
       LET f == fills'[Len(fills')]
           slippage == Signed(f.side, f.qty) * (MarkPrice(f.sym) - f.price)
       IN  market[f.sym].mark + market[f.sym].last # 0 =>
             2 * Abs(Equity' - Equity + f.fee - MoneyScale * slippage)
               <= MoneyScale * Abs(f.after)]_vars

\* The broker as an account: what an observer of the fills, the positions and
\* the wallet sees of it.
Ledger == INSTANCE AccountLedger WITH
  trades <- fills,
  fees <- totalFees, funding <- totalFunding, realized <- totalRealized,
  mark <- [s \in Symbols |-> market[s].mark],
  value <- [s \in Symbols |->
              Else(market[s].mark, Else(market[s].last, Mid(market[s])))],
  rate <- [s \in Symbols |-> market[s].rate],
  due <- unpaid,
  frozen <- (phase = "liquidating")

\* Whatever the orders, the matching, the liquidation and the funding loops do
\* adds up to an account: no trade while it is liquidated or settled but those
\* that close it at the mark, money that moves only with a trade, a payment, a
\* transfer of what is not pledged or a reset.
ImplementsLedger == Ledger!Spec

\* Funding, transfers, slippage and fees can take the account below its
\* maintenance margin between ticks; as long as the feed ticks, it does not
\* stay there with a position the broker has a mark price to close at, and a
\* funding sweep or a liquidation that has started ends.
InsolvencyEnds ==
  /\ Ledger!Live
  /\ []<>(~LiquidationDue \/ \A s \in Symbols : pos[s].qty # 0 => market[s].mark = 0)

\* submitOrder's comment on reduce-only orders: none is allowed through at a
\* size that opens an opposite-side position, whenever it fills.
ReduceOnlyNeverFlips ==
  \A k \in DOMAIN fills :
    orders[fills[k].order].reduceOnly =>
      Abs(fills[k].after) <= Abs(fills[k].before)
      /\ Sign(fills[k].after) \in {0, Sign(fills[k].before)}
=============================================================================
