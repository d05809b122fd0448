------------------------- MODULE PaperBroker_proof -------------------------
(* Proofs about PaperBroker, for every set of instruments, commands, ticks,  *)
(* transfers and every value of the limits and rates.                        *)
EXTENDS PaperBroker, CollectionLemmas, TLAPS

-----------------------------------------------------------------------------
(* What the operators return *)

\* A fill leaves a well-formed position whose quantity moved by exactly the
\* quantity traded, whichever branch of applyPositionFill it takes.
LEMMA NettedType ==
  ASSUME NEW p \in PositionRecord, NEW o \in OrderRecord, NEW price \in Int
  PROVE  /\ Netted(p, o, price) \in PositionRecord
         /\ Netted(p, o, price).qty = p.qty + Signed(o.side, o.qty)
<1> DEFINE new == p.qty + Signed(o.side, o.qty)
           total == Abs(p.qty) * p.entry + o.qty * price
<1>1. new \in Int
  BY DEF PositionRecord, OrderRecord, Signed, Sides
<1>2. ASSUME p.qty # 0, ~Opposes(o.side, p.qty)
      PROVE  Rounded(total, Abs(new)) \in Int
  <2>1. Abs(new) \in Int /\ 2 * Abs(new) > 0
    BY <1>2 DEF PositionRecord, OrderRecord, Signed, Sides, Opposes, Abs
  <2>2. total \in Int
    BY DEF PositionRecord, OrderRecord, Abs
  <2> HIDE DEF new, total
  <2>3. 2 * total + Abs(new) \in Int
    BY <2>1, <2>2
  <2> QED
    BY <2>1, <2>3 DEF Rounded
<1>3. CASE p.qty = 0
  BY <1>1, <1>3 DEF Netted, PositionRecord, OrderRecord
<1>4. CASE p.qty # 0 /\ Ends(p, o)
  BY <1>1, <1>4 DEF Netted, Ends, PositionRecord, OrderRecord
<1>5. CASE Opposes(o.side, p.qty) /\ ~Ends(p, o)
  BY <1>1, <1>5 DEF Netted, Ends, Opposes, PositionRecord, OrderRecord
<1>6. CASE p.qty # 0 /\ ~Opposes(o.side, p.qty)
  BY <1>1, <1>2, <1>6 DEF Netted, Ends, PositionRecord, OrderRecord
<1> QED
  BY <1>3, <1>4, <1>5, <1>6

\* The PnL applyPositionFill returns is a whole number of money units.
LEMMA RealizedType ==
  ASSUME NEW p \in PositionRecord, NEW o \in OrderRecord, NEW price \in Int
  PROVE  Realized(p, o, price) \in Int
<1>1. Least(o.qty, Abs(p.qty)) \in Int /\ Sign(p.qty) \in Int /\ price - p.entry \in Int
  BY DEF PositionRecord, OrderRecord, Least, Abs, Sign
<1> QED
  BY <1>1, MoneyAssumption DEF Realized

\* executeFill neither adds nor drops an order when it settles one and cancels
\* the stale brackets.
LEMMA SettledOrders ==
  ASSUME NEW os \in Seq(OrderRecord), NEW i \in DOMAIN os, NEW ended \in BOOLEAN
  PROVE  /\ Settled(os, i, ended) \in Seq(OrderRecord)
         /\ DOMAIN Settled(os, i, ended) = DOMAIN os
<1> DEFINE new == Settled(os, i, ended)
<1>1. DOMAIN new = 1..Len(os)
  BY DEF Settled
<1>2. ASSUME NEW j \in 1..Len(os) PROVE new[j] \in OrderRecord
  <2>1. os[j] \in OrderRecord
    OBVIOUS
  <2>2. /\ [os[j] EXCEPT !.status = "FILLED"] \in OrderRecord
        /\ [os[j] EXCEPT !.status = "CANCELED"] \in OrderRecord
    BY <2>1 DEF OrderRecord, Statuses
  <2>3. new[j] \in {os[j], [os[j] EXCEPT !.status = "FILLED"],
                       [os[j] EXCEPT !.status = "CANCELED"]}
    BY DEF Settled
  <2> QED
    BY <2>1, <2>2, <2>3
<1> HIDE DEF new
<1>3. new = [j \in 1..Len(os) |-> new[j]]
  BY <1>1 DEF new, Settled
<1> QED
  BY <1>1, <1>2, <1>3, Len(os) \in Nat DEF new

\* The positions and the quotes hold integers.
LEMMA SymbolTypes ==
  ASSUME TypeOK, NEW s \in Symbols
  PROVE  /\ pos[s].qty \in Int /\ pos[s].entry \in Int /\ pos[s].lev \in Nat \ {0}
         /\ market[s].mark \in Nat /\ market[s].rate \in Int
<1>1. pos[s] \in PositionRecord /\ market[s] \in MarketRecord
  BY DEF TypeOK
<1> QED
  BY <1>1 DEF PositionRecord, MarketRecord

\* cancelOrder leaves an order.
LEMMA CanceledType ==
  ASSUME NEW o \in OrderRecord
  PROVE  Canceled(o) \in OrderRecord
<1>1. [o EXCEPT !.status = "CANCELED"] \in OrderRecord
  BY DEF OrderRecord, Statuses
<1> QED
  BY <1>1 DEF Canceled

\* submitOrder records an order: the reduce-only clamp keeps its quantity a
\* natural.
LEMMA NewOrderType ==
  ASSUME TypeOK, NEW c \in Commands
  PROVE  NewOrder(c) \in OrderRecord
  BY CommandsAssumption
  DEF TypeOK, NewOrder, OrderRecord, Command, Statuses, PositionRecord, Least, Abs

\* getExecutionPrice returns an integer.
LEMMA ExecutionPriceType ==
  ASSUME TypeOK, NEW o \in OrderRecord
  PROVE  ExecutionPrice(o) \in Int
<1>1. market[o.sym] \in MarketRecord
  BY DEF TypeOK, OrderRecord
<1> DEFINE touch == TouchPrice(o.side, market[o.sym])
<1>2. touch \in Nat
  BY <1>1 DEF TouchPrice, Else, MarketRecord
<1> HIDE DEF touch
<1>3. (touch * Slip) \div SlipDenom \in Int
  BY <1>2, MoneyAssumption
<1>4. touch + Signed(o.side, (touch * Slip) \div SlipDenom) \in Int
  BY <1>2, <1>3 DEF Signed
<1> QED
  BY <1>1, <1>4 DEF ExecutionPrice, Else, MarketRecord, OrderRecord, touch

\* checkLiquidation's synthetic order is an order, of a natural quantity.
LEMMA LiquidationOrderType ==
  ASSUME TypeOK, NEW s \in Symbols
  PROVE  LiquidationOrder(s) \in OrderRecord
  BY DEF TypeOK, LiquidationOrder, OrderRecord, PositionRecord, Sides, OrderTypes,
         Statuses, Abs

\* A fill of order i of the book os keeps the types of everything it changes.
LEMMA FillTypes ==
  ASSUME TypeOK,
         NEW os \in Seq(OrderRecord), NEW i \in DOMAIN os,
         NEW price \in Int, NEW rate \in Int, FillOrder(os, i, price, rate)
  PROVE  /\ orders' \in Seq(OrderRecord) /\ DOMAIN orders' = DOMAIN os
         /\ pos' \in [Symbols -> PositionRecord]
         /\ fills' \in Seq(FillRecord)
         /\ wallet' \in Int /\ totalFees' \in Int
         /\ totalFunding' \in Int /\ totalRealized' \in Int
<1> DEFINE o == os[i]
           p == pos[o.sym]
           fee == o.qty * price * rate
           pnl == Realized(p, o, price)
           after == Netted(p, o, price)
<1>1. o \in OrderRecord /\ o.sym \in Symbols /\ o.qty \in Nat /\ o.side \in Sides
  <2>1. o \in OrderRecord
    OBVIOUS
  <2> QED
    BY <2>1 DEF OrderRecord
<1>2. p \in PositionRecord
  BY <1>1 DEF TypeOK
<1>3. after \in PositionRecord
  BY <1>1, <1>2, NettedType
<1>4. pnl \in Int
  BY <1>1, <1>2, RealizedType
<1>5. fee \in Int
  BY <1>1
<1>6. Ends(p, o) \in BOOLEAN
  BY DEF Ends, Opposes
<1>7. orders' = Settled(os, i, Ends(p, o)) /\ pos' = [pos EXCEPT ![o.sym] = after]
  BY DEF FillOrder
<1>8. Booked(fee, pnl)
  BY DEF FillOrder
<1>9. fills' = Append(fills, [order |-> i, sym |-> o.sym, side |-> o.side,
                 qty |-> o.qty, price |-> price, fee |-> fee, pnl |-> pnl,
                 before |-> p.qty, after |-> after.qty])
  BY DEF FillOrder
<1> HIDE DEF o, p, fee, pnl, after
<1>10. orders' \in Seq(OrderRecord) /\ DOMAIN orders' = DOMAIN os
  BY <1>6, <1>7, SettledOrders
<1>11. pos' \in [Symbols -> PositionRecord]
  BY <1>1, <1>3, <1>7 DEF TypeOK
<1>12. [order |-> i, sym |-> o.sym, side |-> o.side, qty |-> o.qty, price |-> price,
        fee |-> fee, pnl |-> pnl, before |-> p.qty, after |-> after.qty]
          \in FillRecord
  BY <1>1, <1>2, <1>3, <1>4, <1>5 DEF FillRecord, PositionRecord
<1>13. fills' \in Seq(FillRecord)
  BY <1>9, <1>12 DEF TypeOK
<1> QED
  BY <1>4, <1>5, <1>8, <1>10, <1>11, <1>13 DEF Booked, TypeOK
-----------------------------------------------------------------------------
(* Type correctness *)

\* The constructor leaves a state of the declared shape.
LEMMA TypeInit == Init => TypeOK
<1> SUFFICES ASSUME Init PROVE TypeOK
  OBVIOUS
<1>1. Flat \in PositionRecord /\ NoMarket \in MarketRecord
  BY DEF Flat, NoMarket, PositionRecord, MarketRecord
<1>2. orders \in Seq(OrderRecord) /\ fills \in Seq(FillRecord)
  BY DEF Init
<1>3. pos \in [Symbols -> PositionRecord] /\ market \in [Symbols -> MarketRecord]
  BY <1>1 DEF Init
<1>4. dayChanged \in BOOLEAN
  BY DEF Init
<1>5. wallet \in Int /\ startBalance \in Int
  BY MoneyAssumption DEF Init
<1> QED
  BY <1>2, <1>3, <1>4, <1>5 DEF Init, TypeOK

\* The state has its declared shape after every method call and between the
\* iterations of every loop.
LEMMA TypeStep == TypeOK /\ [Next]_vars => TypeOK'
<1> SUFFICES ASSUME TypeOK, [Next]_vars
             PROVE  TypeOK'
  OBVIOUS
<1>1. ASSUME NEW c \in Commands, SubmitUnfilled(c)
      PROVE  TypeOK'
  <2>1. NewOrder(c) \in OrderRecord
    BY NewOrderType
  <2>2. Outcome(c) \in Statuses
    BY DEF Outcome, Statuses
  <2>3. [NewOrder(c) EXCEPT !.status = Outcome(c)] \in OrderRecord
    BY <2>1, <2>2 DEF OrderRecord
  <2>4. orders' \in Seq(OrderRecord)
    BY <1>1, <2>3 DEF SubmitUnfilled, TypeOK
  <2>5. dayChanged' \in BOOLEAN
    BY <1>1 DEF SubmitUnfilled, Submit, RollDay, TypeOK, day
  <2> QED
    BY <1>1, <2>4, <2>5 DEF SubmitUnfilled, Submit, TypeOK, money, epoch, loop
<1>2. ASSUME NEW c \in Commands, SubmitFilled(c)
      PROVE  TypeOK'
  <2> DEFINE os == Append(orders, NewOrder(c))
  <2>1. NewOrder(c) \in OrderRecord
    BY NewOrderType
  <2>2. os \in Seq(OrderRecord) /\ Len(orders) + 1 \in DOMAIN os
    BY <2>1 DEF TypeOK
  <2>3. ExecutionPrice(NewOrder(c)) \in Int
    BY <2>1, ExecutionPriceType
  <2>4. FillOrder(os, Len(orders) + 1, ExecutionPrice(NewOrder(c)), TakerFee)
    BY <1>2 DEF SubmitFilled
  <2> HIDE DEF os
  <2>5. /\ orders' \in Seq(OrderRecord) /\ pos' \in [Symbols -> PositionRecord]
        /\ fills' \in Seq(FillRecord) /\ wallet' \in Int /\ totalFees' \in Int
        /\ totalFunding' \in Int /\ totalRealized' \in Int
    BY <2>2, <2>3, <2>4, FillTypes, MoneyAssumption
  <2>6. dayChanged' \in BOOLEAN
    BY <1>2 DEF SubmitFilled, Submit, RollDay, TypeOK, day
  <2> QED
    BY <1>2, <2>5, <2>6 DEF SubmitFilled, Submit, TypeOK, epoch, loop
<1>3. ASSUME NEW i \in DOMAIN orders, CancelOrder(i)
      PROVE  TypeOK'
  <2>1. Canceled(orders[i]) \in OrderRecord
    BY CanceledType DEF TypeOK
  <2> QED
    BY <1>3, <2>1 DEF CancelOrder, TypeOK, money, day, epoch, loop
<1>4. ASSUME NEW syms, CancelAllOrders(syms)
      PROVE  TypeOK'
  <2>1. \A i \in 1..Len(orders) : Canceled(orders[i]) \in OrderRecord
    BY CanceledType DEF TypeOK
  <2>2. orders' = [i \in 1..Len(orders) |->
                     IF orders[i].sym \in syms THEN Canceled(orders[i])
                                               ELSE orders[i]]
    BY <1>4 DEF CancelAllOrders, TypeOK
  <2>3. orders' \in Seq(OrderRecord)
    BY <2>1, <2>2 DEF TypeOK
  <2> QED
    BY <1>4, <2>3 DEF CancelAllOrders, TypeOK, money, day, epoch, loop
<1>5. ASSUME NEW t \in Ticks, OnMarket(t)
      PROVE  TypeOK'
  <2>1. t \in Tick
    BY TicksAssumption
  <2>2. Merged(market[t.sym], t) \in MarketRecord
    BY <2>1 DEF TypeOK, Tick, Merged, MarketRecord, Else
  <2>3. market' \in [Symbols -> MarketRecord] /\ tickSym' \in Symbols
    BY <1>5, <2>1, <2>2 DEF OnMarket, TypeOK, Tick
  <2> QED
    BY <1>5, <2>3 DEF OnMarket, TypeOK, book, money, day, epoch
<1>6. ASSUME NEW i \in DOMAIN orders, MatchOrder(i)
      PROVE  TypeOK'
  <2>1. orders \in Seq(OrderRecord) /\ orders[i] \in OrderRecord
    BY DEF TypeOK
  <2>2. ExecutionPrice(orders[i]) \in Int
    BY <2>1, ExecutionPriceType
  <2> DEFINE rate == IF orders[i].type = "LIMIT" THEN MakerFee ELSE TakerFee
  <2>3. rate \in Int /\ FillOrder(orders, i, ExecutionPrice(orders[i]), rate)
    BY <1>6, MoneyAssumption DEF MatchOrder
  <2> HIDE DEF rate
  <2>4. /\ orders' \in Seq(OrderRecord) /\ pos' \in [Symbols -> PositionRecord]
        /\ fills' \in Seq(FillRecord) /\ wallet' \in Int /\ totalFees' \in Int
        /\ totalFunding' \in Int /\ totalRealized' \in Int
    BY <2>1, <2>2, <2>3, FillTypes
  <2>5. cursor' \in Nat \ {0}
    BY <1>6, <2>1 DEF MatchOrder
  <2> QED
    BY <1>6, <2>4, <2>5 DEF MatchOrder, TypeOK, day, epoch
<1>7. ASSUME EndMatching
      PROVE  TypeOK'
  BY <1>7, BoundsAssumption
  DEF EndMatching, TypeOK, book, money, day, Least
<1>8. ASSUME NEW s \in Symbols, LiquidatePosition(s)
      PROVE  TypeOK'
  <2> DEFINE os == Append(orders, LiquidationOrder(s))
  <2>1. os \in Seq(OrderRecord) /\ Len(orders) + 1 \in DOMAIN os
    BY LiquidationOrderType DEF TypeOK
  <2>2. market[s].mark \in Int
    BY DEF TypeOK, MarketRecord
  <2>3. FillOrder(os, Len(orders) + 1, market[s].mark, TakerFee)
    BY <1>8 DEF LiquidatePosition
  <2> HIDE DEF os
  <2>4. /\ orders' \in Seq(OrderRecord) /\ pos' \in [Symbols -> PositionRecord]
        /\ fills' \in Seq(FillRecord) /\ wallet' \in Int /\ totalFees' \in Int
        /\ totalFunding' \in Int /\ totalRealized' \in Int
    BY <2>1, <2>2, <2>3, FillTypes, MoneyAssumption
  <2> QED
    BY <1>8, <2>4 DEF LiquidatePosition, TypeOK, day, epoch
<1>9. ASSUME ApplyFunding
      PROVE  TypeOK'
  BY <1>9 DEF ApplyFunding, Closable, TypeOK, book, money, day
<1>10. ASSUME NEW s \in Symbols, FundPosition(s)
       PROVE  TypeOK'
  <2>1. pos[s].qty \in Int /\ market[s].mark \in Int /\ market[s].rate \in Int
    BY SymbolTypes
  <2>2. pos[s].qty * market[s].mark * market[s].rate \in Int
    BY <2>1
  <2> QED
    BY <1>10, <2>2 DEF FundPosition, TypeOK, book, day, epoch
<1>11. ASSUME NEW delta \in Transfers, AdjustWalletBalance(delta)
       PROVE  TypeOK'
  BY <1>11, TransfersAssumption
  DEF AdjustWalletBalance, TypeOK, book, day, loop
<1>12. ASSUME NEW balance \in ResetBalances, ResetAccount(balance)
       PROVE  TypeOK'
  <2>1. Flat \in PositionRecord
    BY DEF Flat, PositionRecord
  <2>2. orders' \in Seq(OrderRecord) /\ fills' \in Seq(FillRecord)
    BY <1>12 DEF ResetAccount
  <2>3. pos' \in [Symbols -> PositionRecord]
    BY <1>12, <2>1 DEF ResetAccount
  <2>4. balance \in Int
    BY ResetBalancesAssumption
  <2>5. dayChanged' \in BOOLEAN
    BY <1>12 DEF ResetAccount
  <2> QED
    BY <1>12, <2>2, <2>3, <2>4, <2>5 DEF ResetAccount, TypeOK, loop
<1>13. ASSUME NEW s \in Symbols, GoStale(s)
       PROVE  TypeOK'
  BY <1>13 DEF GoStale, TypeOK, MarketRecord, book, money, day, epoch, loop
<1>14. ASSUME NewUtcDay
       PROVE  TypeOK'
  BY <1>14 DEF NewUtcDay, TypeOK, book, money, epoch, loop
<1>15. ASSUME UNCHANGED vars
       PROVE  TypeOK'
  BY <1>15 DEF vars, TypeOK, book, money, day, epoch, loop
<1> QED
  BY <1>1, <1>2, <1>3, <1>4, <1>5, <1>6, <1>7, <1>8, <1>9, <1>10, <1>11, <1>12,
     <1>13, <1>14, <1>15 DEF Next, LoopStep

\* The broker's state keeps its shape: in particular an order's quantity never
\* goes negative (the reduce-only clamp) and a loop's cursor stays in range.
THEOREM TypeCorrect == Spec => []TypeOK
  BY TypeInit, TypeStep, PTL DEF Spec
-----------------------------------------------------------------------------
(* What a step does to the book *)

\* Resting order i of os fills; os is the book, or the book with i just added.
Fill(os, i, price, rate) ==
  /\ os \in Seq(OrderRecord) /\ i \in DOMAIN os /\ Resting(os[i])
  /\ \/ os = orders
     \/ \E o \in OrderRecord : os = Append(orders, o) /\ i = Len(orders) + 1
  /\ price \in Int /\ rate \in Int
  /\ FillOrder(os, i, price, rate)

\* Some orders are canceled.
Withdraw(cancels) ==
  /\ orders' = [i \in DOMAIN orders |->
                  IF i \in cancels THEN Canceled(orders[i]) ELSE orders[i]]
  /\ UNCHANGED <<pos, fills>>

\* The three callers of executeFill (submitOrder, evaluateOpenOrders and
\* checkLiquidation) all fill a resting order of the book.
LEMMA FillSteps ==
  ASSUME TypeOK
  PROVE  /\ \A c \in Commands : SubmitFilled(c) =>
              Fill(Append(orders, NewOrder(c)), Len(orders) + 1,
                   ExecutionPrice(NewOrder(c)), TakerFee)
         /\ \A i \in DOMAIN orders : MatchOrder(i) =>
              Fill(orders, i, ExecutionPrice(orders[i]),
                   IF orders[i].type = "LIMIT" THEN MakerFee ELSE TakerFee)
         /\ \A s \in Symbols : LiquidatePosition(s) =>
              Fill(Append(orders, LiquidationOrder(s)), Len(orders) + 1,
                   market[s].mark, TakerFee)
<1>1. ASSUME NEW o \in OrderRecord, Resting(o)
      PROVE  /\ Append(orders, o) \in Seq(OrderRecord)
             /\ Len(orders) + 1 \in DOMAIN Append(orders, o)
             /\ Resting(Append(orders, o)[Len(orders) + 1])
  BY <1>1 DEF TypeOK
<1>2. ASSUME NEW c \in Commands, SubmitFilled(c)
      PROVE  Fill(Append(orders, NewOrder(c)), Len(orders) + 1,
                  ExecutionPrice(NewOrder(c)), TakerFee)
  <2>1. NewOrder(c) \in OrderRecord
    BY NewOrderType
  <2>2. Resting(NewOrder(c))
    BY DEF NewOrder, Resting
  <2>3. ExecutionPrice(NewOrder(c)) \in Int
    BY <2>1, ExecutionPriceType
  <2>4. FillOrder(Append(orders, NewOrder(c)), Len(orders) + 1,
                  ExecutionPrice(NewOrder(c)), TakerFee)
    BY <1>2 DEF SubmitFilled
  <2> QED
    BY <1>1, <2>1, <2>2, <2>3, <2>4, MoneyAssumption DEF Fill
<1>3. ASSUME NEW i \in DOMAIN orders, MatchOrder(i)
      PROVE  Fill(orders, i, ExecutionPrice(orders[i]),
                  IF orders[i].type = "LIMIT" THEN MakerFee ELSE TakerFee)
  <2>1. orders \in Seq(OrderRecord) /\ orders[i] \in OrderRecord
    BY DEF TypeOK
  <2>2. ExecutionPrice(orders[i]) \in Int
    BY <2>1, ExecutionPriceType
  <2>3. Resting(orders[i])
    BY <1>3 DEF MatchOrder, Upcoming, Executable
  <2> QED
    BY <1>3, <2>1, <2>2, <2>3, MoneyAssumption DEF Fill, MatchOrder
<1>4. ASSUME NEW s \in Symbols, LiquidatePosition(s)
      PROVE  Fill(Append(orders, LiquidationOrder(s)), Len(orders) + 1,
                  market[s].mark, TakerFee)
  <2>1. LiquidationOrder(s) \in OrderRecord
    BY LiquidationOrderType
  <2>2. Resting(LiquidationOrder(s))
    BY DEF LiquidationOrder, Resting
  <2>3. market[s].mark \in Int
    BY DEF TypeOK, MarketRecord
  <2>4. FillOrder(Append(orders, LiquidationOrder(s)), Len(orders) + 1,
                  market[s].mark, TakerFee)
    BY <1>4 DEF LiquidatePosition
  <2> QED
    BY <1>1, <2>1, <2>2, <2>3, <2>4, MoneyAssumption DEF Fill
<1> QED
  BY <1>2, <1>3, <1>4

\* Every step leaves the book alone, records an order that did not trade, fills
\* one, cancels some, or clears the account.
LEMMA BookSteps ==
  ASSUME TypeOK, [Next]_vars
  PROVE  \/ UNCHANGED book
         \/ \E c \in Commands : SubmitUnfilled(c)
         \/ \E os, i, price, rate : Fill(os, i, price, rate)
         \/ \E cancels : Withdraw(cancels)
         \/ \E balance \in ResetBalances : ResetAccount(balance)
<1>1. ASSUME NEW i \in DOMAIN orders, CancelOrder(i)
      PROVE  Withdraw({i})
  BY <1>1 DEF CancelOrder, Withdraw, TypeOK
<1>2. ASSUME NEW syms, CancelAllOrders(syms)
      PROVE  Withdraw({i \in DOMAIN orders : orders[i].sym \in syms})
  BY <1>2 DEF CancelAllOrders, Withdraw
<1>3. ASSUME LoopStep
      PROVE  UNCHANGED book \/ \E os, i, price, rate : Fill(os, i, price, rate)
  BY <1>3, FillSteps DEF LoopStep, EndMatching, FundPosition
<1>4. ASSUME \/ \E t \in Ticks : OnMarket(t)
             \/ ApplyFunding
             \/ \E delta \in Transfers : AdjustWalletBalance(delta)
             \/ \E s \in Symbols : GoStale(s)
             \/ NewUtcDay
             \/ UNCHANGED vars
      PROVE  UNCHANGED book
  BY <1>4 DEF OnMarket, ApplyFunding, AdjustWalletBalance, GoStale, NewUtcDay, vars
<1> QED
  BY <1>1, <1>2, <1>3, <1>4, FillSteps DEF Next
-----------------------------------------------------------------------------
(* The ledger *)

\* No method moves the wallet without moving the total it reports the change in.
LEMMA LedgerStep == TypeOK /\ LedgerIdentity /\ [Next]_vars => LedgerIdentity'
<1> SUFFICES ASSUME TypeOK, LedgerIdentity, [Next]_vars
             PROVE  LedgerIdentity'
  OBVIOUS
<1>1. ASSUME NEW os, NEW i, NEW price, NEW rate, Fill(os, i, price, rate),
             UNCHANGED epoch
      PROVE  LedgerIdentity'
  <2> DEFINE fee == os[i].qty * price * rate
             pnl == Realized(pos[os[i].sym], os[i], price)
  <2>1. os[i] \in OrderRecord
    BY <1>1 DEF Fill
  <2>2. fee \in Int
    BY <1>1, <2>1 DEF Fill, OrderRecord
  <2>3. pnl \in Int
    BY <1>1, <2>1, RealizedType DEF Fill, OrderRecord, TypeOK
  <2>4. Booked(fee, pnl)
    BY <1>1 DEF Fill, FillOrder
  <2> HIDE DEF fee, pnl
  <2> QED
    BY <1>1, <2>2, <2>3, <2>4 DEF Booked, LedgerIdentity, TypeOK, epoch
<1>2. ASSUME UNCHANGED <<money, startBalance, transferred>>
      PROVE  LedgerIdentity'
  BY <1>2 DEF LedgerIdentity, money
<1>3. ASSUME NEW s \in Symbols, FundPosition(s)
      PROVE  LedgerIdentity'
  <2> DEFINE payment == pos[s].qty * market[s].mark * market[s].rate
  <2>1. pos[s].qty \in Int /\ market[s].mark \in Int /\ market[s].rate \in Int
    BY SymbolTypes
  <2>2. payment \in Int
    BY <2>1
  <2>3. /\ wallet' = wallet - payment /\ totalFunding' = totalFunding + payment
        /\ UNCHANGED <<totalFees, totalRealized, startBalance, transferred>>
    BY <1>3 DEF FundPosition, epoch
  <2> HIDE DEF payment
  <2> QED
    BY <2>2, <2>3 DEF LedgerIdentity, TypeOK
<1>4. ASSUME NEW delta \in Transfers, AdjustWalletBalance(delta)
      PROVE  LedgerIdentity'
  BY <1>4, TransfersAssumption DEF AdjustWalletBalance, LedgerIdentity, TypeOK
<1>5. ASSUME NEW balance \in ResetBalances, ResetAccount(balance)
      PROVE  LedgerIdentity'
  BY <1>5, ResetBalancesAssumption DEF ResetAccount, LedgerIdentity
<1>6. ASSUME NEW c \in Commands, SubmitUnfilled(c) \/ SubmitFilled(c)
      PROVE  LedgerIdentity'
  BY <1>1, <1>2, <1>6, FillSteps DEF SubmitUnfilled, SubmitFilled, Submit, epoch
<1>7. ASSUME LoopStep
      PROVE  LedgerIdentity'
  BY <1>1, <1>2, <1>3, <1>7, FillSteps
  DEF LoopStep, MatchOrder, LiquidatePosition, EndMatching
<1> QED
  BY <1>2, <1>4, <1>5, <1>6, <1>7
  DEF Next, CancelOrder, CancelAllOrders, OnMarket, ApplyFunding, GoStale,
      NewUtcDay, epoch, vars

\* The wallet always is the formula the constructor rebuilds it with, plus the
\* transfers: no fill, funding payment, liquidation or reset loses a cent.
THEOREM LedgerCorrect == Spec => []LedgerIdentity
<1>1. Init => LedgerIdentity
  BY MoneyAssumption DEF Init, LedgerIdentity
<1> QED
  BY <1>1, LedgerStep, TypeCorrect, PTL DEF Spec
-----------------------------------------------------------------------------
(* Fills and orders *)

\* What a fill does to the order book, as far as the invariants below need it.
MarksFilled(os, i) ==
  /\ i \in Nat /\ i \in DOMAIN os /\ os[i] \in OrderRecord
  /\ DOMAIN orders' = DOMAIN os /\ DOMAIN orders \subseteq DOMAIN os
  /\ orders'[i] = [os[i] EXCEPT !.status = "FILLED"]
  /\ i \in DOMAIN orders => Resting(orders[i])
  /\ \A j \in DOMAIN os \ {i} :
       /\ j \in DOMAIN orders
       /\ orders'[j] \in {orders[j], [orders[j] EXCEPT !.status = "CANCELED"]}
       /\ orders'[j] # orders[j] => Resting(orders[j])

\* executeFill marks the order it fills and cancels only resting orders.
LEMMA FillMarks ==
  ASSUME TypeOK, NEW os, NEW i, NEW price, NEW rate, Fill(os, i, price, rate)
  PROVE  MarksFilled(os, i)
<1>1. os \in Seq(OrderRecord) /\ i \in DOMAIN os /\ Resting(os[i])
  BY DEF Fill
<1>2. i \in Nat /\ os[i] \in OrderRecord
  BY <1>1
<1>3. /\ DOMAIN orders \subseteq DOMAIN os
      /\ \A j \in DOMAIN os \ {i} : j \in DOMAIN orders /\ os[j] = orders[j]
      /\ i \in DOMAIN orders => os[i] = orders[i]
  BY DEF Fill, TypeOK
<1>4. PICK ended : orders' = Settled(os, i, ended)
  BY DEF Fill, FillOrder
<1>5. DOMAIN orders' = DOMAIN os
  BY <1>4 DEF Settled
<1>6. orders'[i] = [os[i] EXCEPT !.status = "FILLED"]
  BY <1>1, <1>4 DEF Settled
<1>7. ASSUME NEW j \in DOMAIN os \ {i}
      PROVE  /\ orders'[j] \in {orders[j], [orders[j] EXCEPT !.status = "CANCELED"]}
             /\ orders'[j] # orders[j] => Resting(orders[j])
  BY <1>3, <1>4 DEF Settled, StaleBracket
<1> QED
  BY <1>1, <1>2, <1>3, <1>5, <1>6, <1>7 DEF MarksFilled

\* The record a fill appends, and the position it leaves.
AppendsFill(o, i, f) ==
  /\ DOMAIN fills' = 1..Len(fills) + 1 /\ Len(fills') = Len(fills) + 1
  /\ DOMAIN fills = 1..Len(fills) /\ Len(fills) \in Nat
  /\ \A k \in DOMAIN fills : fills'[k] = fills[k]
  /\ fills'[Len(fills) + 1] = f
  /\ f.order = i /\ f.sym = o.sym /\ f.side = o.side /\ f.qty = o.qty
  /\ o.sym \in Symbols /\ o.qty \in Nat
  /\ f.before = pos[o.sym].qty
  /\ f.after = f.before + Signed(o.side, o.qty)
  /\ pos'[o.sym].qty = f.after
  /\ \A s \in Symbols \ {o.sym} : pos'[s] = pos[s]

\* executeFill appends one fill record, which agrees with the position.
LEMMA FillAppends ==
  ASSUME TypeOK, NEW os, NEW i, NEW price, NEW rate, Fill(os, i, price, rate)
  PROVE  \E f : AppendsFill(os[i], i, f)
<1> DEFINE o == os[i]
           p == pos[o.sym]
           after == Netted(p, o, price)
           f == [order |-> i, sym |-> o.sym, side |-> o.side, qty |-> o.qty,
                 price |-> price, fee |-> o.qty * price * rate,
                 pnl |-> Realized(p, o, price), before |-> p.qty,
                 after |-> after.qty]
<1>1. os \in Seq(OrderRecord) /\ i \in DOMAIN os /\ price \in Int /\ rate \in Int
  BY DEF Fill
<1>2. o \in OrderRecord
  BY <1>1
<1>3. o.sym \in Symbols /\ p \in PositionRecord
  BY <1>2 DEF OrderRecord, TypeOK
<1>4. after.qty = p.qty + Signed(o.side, o.qty)
  BY <1>1, <1>2, <1>3, NettedType
<1>5. fills' = Append(fills, f) /\ pos' = [pos EXCEPT ![o.sym] = after]
  BY DEF Fill, FillOrder
<1>6. fills' \in Seq(FillRecord)
  BY <1>1, FillTypes DEF Fill
<1>7. fills \in Seq(FillRecord) /\ pos \in [Symbols -> PositionRecord]
  BY DEF TypeOK
<1> HIDE DEF o, p, after, f
<1>8. /\ Len(fills') = Len(fills) + 1 /\ DOMAIN fills' = 1..Len(fills) + 1
      /\ DOMAIN fills = 1..Len(fills) /\ Len(fills) \in Nat
      /\ \A k \in DOMAIN fills : fills'[k] = fills[k]
      /\ fills'[Len(fills) + 1] = f
  BY <1>5, <1>6, <1>7
<1>9. pos'[o.sym] = after /\ \A s \in Symbols \ {o.sym} : pos'[s] = pos[s]
  BY <1>3, <1>5, <1>7
<1>10. o.qty \in Nat
  BY <1>2 DEF OrderRecord
<1>11. AppendsFill(o, i, f)
  BY <1>3, <1>4, <1>8, <1>9, <1>10 DEF AppendsFill, f, p
<1> QED
  BY <1>11 DEF o

\* No method breaks the one-to-one match of FILLED orders and fills.
LEMMA FillsMatchStep ==
  TypeOK /\ FillsMatchOrders /\ [Next]_vars => FillsMatchOrders'
<1> SUFFICES ASSUME TypeOK, FillsMatchOrders, [Next]_vars
             PROVE  FillsMatchOrders'
  OBVIOUS
<1>1. CASE UNCHANGED book
  BY <1>1 DEF book, FillsMatchOrders
<1>2. ASSUME NEW c \in Commands, SubmitUnfilled(c)
      PROVE  FillsMatchOrders'
  <2> DEFINE o == [NewOrder(c) EXCEPT !.status = Outcome(c)]
  <2>1. NewOrder(c) \in OrderRecord
    BY NewOrderType
  <2>2. o.status # "FILLED"
    BY <1>2, <2>1 DEF SubmitUnfilled, OrderRecord
  <2>3. orders' = Append(orders, o) /\ fills' = fills
    BY <1>2 DEF SubmitUnfilled
  <2>4. /\ DOMAIN orders' = DOMAIN orders \union {Len(orders) + 1}
        /\ \A i \in DOMAIN orders : orders'[i] = orders[i]
        /\ orders'[Len(orders) + 1] = o
    <3> HIDE DEF o
    <3>1. orders \in Seq(OrderRecord)
      BY DEF TypeOK
    <3> QED
      BY <2>3, <3>1
  <2> HIDE DEF o
  <2> QED
    BY <2>2, <2>3, <2>4 DEF FillsMatchOrders
<1>3. ASSUME NEW os, NEW i, NEW price, NEW rate, Fill(os, i, price, rate)
      PROVE  FillsMatchOrders'
  <2>1. MarksFilled(os, i)
    BY <1>3, FillMarks
  <2>2. PICK f : AppendsFill(os[i], i, f)
    BY <1>3, FillAppends
  <2>3. \A k \in DOMAIN fills : fills[k].order # i
    BY <2>1 DEF MarksFilled, FillsMatchOrders, Resting
  <2>4. /\ i \in DOMAIN orders' /\ orders'[i].status = "FILLED"
        /\ orders'[i].sym = os[i].sym /\ orders'[i].side = os[i].side
        /\ orders'[i].qty = os[i].qty
    BY <2>1 DEF MarksFilled, OrderRecord
  <2>5. ASSUME NEW k \in DOMAIN fills
        PROVE  /\ fills[k].order \in DOMAIN orders'
               /\ orders'[fills[k].order] = orders[fills[k].order]
    <3>1. fills[k].order \in DOMAIN orders /\ fills[k].order # i
      BY <2>3 DEF FillsMatchOrders
    <3>2. ~Resting(orders[fills[k].order])
      BY DEF Resting, FillsMatchOrders
    <3> QED
      BY <2>1, <3>1, <3>2 DEF MarksFilled
  <2>6. ASSUME NEW j \in DOMAIN orders', orders'[j].status = "FILLED", j # i
        PROVE  j \in DOMAIN orders /\ orders[j].status = "FILLED"
    <3>1. j \in DOMAIN orders
          /\ orders'[j] \in {orders[j], [orders[j] EXCEPT !.status = "CANCELED"]}
      BY <2>1, <2>6 DEF MarksFilled
    <3>2. orders[j] \in OrderRecord
      BY <3>1 DEF TypeOK
    <3> QED
      BY <2>6, <3>1, <3>2 DEF OrderRecord
  <2>7. \A k \in DOMAIN fills' : k = Len(fills) + 1 \/ k \in DOMAIN fills
    BY <2>2 DEF AppendsFill
  <2>8. ASSUME NEW k \in DOMAIN fills'
        PROVE  /\ fills'[k].order \in DOMAIN orders'
               /\ LET o == orders'[fills'[k].order] IN
                  /\ o.status = "FILLED"
                  /\ fills'[k].sym = o.sym /\ fills'[k].side = o.side
                  /\ fills'[k].qty = o.qty
    <3>1. CASE k = Len(fills) + 1
      BY <2>2, <2>4, <3>1 DEF AppendsFill
    <3>2. CASE k \in DOMAIN fills
      <4>1. fills'[k] = fills[k]
        BY <2>2, <3>2 DEF AppendsFill
      <4> QED
        BY <2>5, <3>2, <4>1 DEF FillsMatchOrders
    <3> QED
      BY <2>7, <3>1, <3>2
  <2>9. ASSUME NEW j \in DOMAIN fills', NEW k \in DOMAIN fills',
               fills'[j].order = fills'[k].order
        PROVE  j = k
    BY <2>2, <2>3, <2>7, <2>9 DEF AppendsFill, FillsMatchOrders
  <2>10. ASSUME NEW j \in DOMAIN orders', orders'[j].status = "FILLED"
         PROVE  \E k \in DOMAIN fills' : fills'[k].order = j
    <3>1. CASE j = i
      BY <2>2, <3>1 DEF AppendsFill
    <3>2. CASE j # i
      <4>1. PICK k \in DOMAIN fills : fills[k].order = j
        BY <2>6, <2>10, <3>2 DEF FillsMatchOrders
      <4> QED
        BY <2>2, <4>1 DEF AppendsFill
    <3> QED
      BY <3>1, <3>2
  <2> QED
    BY <2>8, <2>9, <2>10 DEF FillsMatchOrders
<1>4. ASSUME NEW cancels, Withdraw(cancels)
      PROVE  FillsMatchOrders'
  <2>1. DOMAIN orders' = DOMAIN orders /\ fills' = fills
    BY <1>4 DEF Withdraw
  <2>2. ASSUME NEW j \in DOMAIN orders
        PROVE  /\ orders[j].status = "FILLED" => orders'[j] = orders[j]
               /\ orders'[j].status = "FILLED" => orders[j].status = "FILLED"
    <3>1. orders[j] \in OrderRecord
      BY DEF TypeOK
    <3> QED
      BY <1>4, <3>1 DEF Withdraw, Canceled, Resting, OrderRecord
  <2> QED
    BY <2>1, <2>2 DEF FillsMatchOrders
<1>5. ASSUME NEW balance, ResetAccount(balance)
      PROVE  FillsMatchOrders'
  BY <1>5 DEF ResetAccount, FillsMatchOrders
<1> QED
  BY <1>1, <1>2, <1>3, <1>4, <1>5, BookSteps

\* An order trades once, for its whole quantity, exactly when it ends FILLED:
\* canceling or rejecting it means it never traded, even when its own fill is
\* what made its bracket stale.
THEOREM FillsMatchOrdersCorrect == Spec => []FillsMatchOrders
<1>1. Init => FillsMatchOrders
  BY DEF Init, FillsMatchOrders
<1> QED
  BY <1>1, FillsMatchStep, TypeCorrect, PTL DEF Spec
-----------------------------------------------------------------------------
(* Brackets *)

\* A fill that does not end the exposure keeps its side.
LEMMA SameSide ==
  ASSUME NEW p \in PositionRecord, NEW o \in OrderRecord, NEW side \in Sides,
         ~Ends(p, o), Opposes(side, p.qty)
  PROVE  Opposes(side, p.qty + Signed(o.side, o.qty))
  BY DEF Ends, Opposes, Signed, Sides, PositionRecord, OrderRecord, Abs

\* One that does leaves no bracket of its symbol resting.
LEMMA FillEndsBrackets ==
  ASSUME NEW os, NEW i, NEW price, NEW rate, Fill(os, i, price, rate),
         Ends(pos[os[i].sym], os[i]), NEW j \in DOMAIN os \ {i}
  PROVE  ~StaleBracket(orders'[j], os[i].sym)
<1>1. os[j] \in OrderRecord
  BY DEF Fill
<1>2. orders' = Settled(os, i, Ends(pos[os[i].sym], os[i]))
  BY DEF Fill, FillOrder
<1>3. orders'[j] = IF StaleBracket(os[j], os[i].sym)
                   THEN [os[j] EXCEPT !.status = "CANCELED"] ELSE os[j]
  BY <1>2 DEF Settled
<1> QED
  BY <1>1, <1>3 DEF StaleBracket, Resting, OrderRecord

\* checkOrderRisk lets a reduce-only order rest only against a position.
LEMMA ReduceOnlyOpposes ==
  ASSUME TypeOK, NEW c \in Commands, RiskOK(NewOrder(c)), c.reduceOnly
  PROVE  Opposes(c.side, pos[c.sym].qty)
<1> DEFINE o == NewOrder(c)
           q == pos[c.sym].qty
<1>1. c.sym \in Symbols /\ c.side \in Sides /\ c.qty \in Nat
  BY CommandsAssumption DEF Command
<1>2. q \in Int
  BY <1>1, SymbolTypes
<1>3. /\ o.sym = c.sym /\ o.side = c.side /\ o.reduceOnly = c.reduceOnly
      /\ o.qty = Least(c.qty, Abs(q))
  BY DEF NewOrder
<1>4. o.qty > 0 /\ ~(Abs(q + Signed(c.side, o.qty)) > Abs(q))
  BY <1>3 DEF RiskOK, Grows
<1>5. o.qty \in Int /\ o.qty <= Abs(q)
  BY <1>1, <1>2, <1>3 DEF Least, Abs
<1> HIDE DEF o, q
<1>6. Opposes(c.side, q)
  BY <1>1, <1>2, <1>4, <1>5 DEF Opposes, Signed, Abs, Sides
<1> QED
  BY <1>6 DEF q

\* No method leaves a bracket that faces no position: a fill that ends the
\* exposure cancels them, a reduction keeps the side they face.
LEMMA BracketStep ==
  TypeOK /\ BracketsFaceLivePosition /\ [Next]_vars => BracketsFaceLivePosition'
<1> SUFFICES ASSUME TypeOK, BracketsFaceLivePosition, [Next]_vars
             PROVE  BracketsFaceLivePosition'
  OBVIOUS
<1>1. CASE UNCHANGED book
  BY <1>1 DEF book, BracketsFaceLivePosition, Resting
<1>2. ASSUME NEW c \in Commands, SubmitUnfilled(c)
      PROVE  BracketsFaceLivePosition'
  <2> DEFINE o == [NewOrder(c) EXCEPT !.status = Outcome(c)]
  <2>1. NewOrder(c) \in OrderRecord
    BY NewOrderType
  <2>2. /\ o.sym = c.sym /\ o.side = c.side /\ o.reduceOnly = c.reduceOnly
        /\ o.status = Outcome(c)
    BY <2>1 DEF NewOrder, OrderRecord
  <2>3. ASSUME Resting(o), o.reduceOnly
        PROVE  Opposes(o.side, pos[o.sym].qty)
    <3>1. RiskOK(NewOrder(c))
      BY <2>2, <2>3 DEF Resting, Outcome
    <3> QED
      BY <2>2, <2>3, <3>1, ReduceOnlyOpposes
  <2>4. orders' = Append(orders, o) /\ pos' = pos
    BY <1>2 DEF SubmitUnfilled
  <2>5. /\ DOMAIN orders' = DOMAIN orders \union {Len(orders) + 1}
        /\ \A i \in DOMAIN orders : orders'[i] = orders[i]
        /\ orders'[Len(orders) + 1] = o
    <3> HIDE DEF o
    <3>1. orders \in Seq(OrderRecord)
      BY DEF TypeOK
    <3> QED
      BY <2>4, <3>1
  <2> HIDE DEF o
  <2> QED
    BY <2>3, <2>4, <2>5 DEF BracketsFaceLivePosition, Resting
<1>3. ASSUME NEW os, NEW i, NEW price, NEW rate, Fill(os, i, price, rate)
      PROVE  BracketsFaceLivePosition'
  <2> DEFINE o == os[i]
             p == pos[o.sym]
  <2>1. MarksFilled(os, i)
    BY <1>3, FillMarks
  <2>2. PICK f : AppendsFill(o, i, f)
    BY <1>3, FillAppends
  <2>3. o \in OrderRecord /\ o.sym \in Symbols
    BY <2>1, <2>2 DEF MarksFilled, AppendsFill
  <2>4. p \in PositionRecord
    BY <2>3 DEF TypeOK
  <2>5. ASSUME NEW j \in DOMAIN orders', Resting(orders'[j]),
               orders'[j].reduceOnly, orders'[j].type \in StopTypes
        PROVE  Opposes(orders'[j].side, pos'[orders'[j].sym].qty)
    <3>1. j # i
      BY <2>1, <2>5 DEF MarksFilled, Resting, OrderRecord
    <3>2. j \in DOMAIN orders /\ j \in DOMAIN os \ {i}
      BY <2>1, <3>1 DEF MarksFilled
    <3>3. orders[j] \in OrderRecord
      BY <3>2 DEF TypeOK
    <3>4. orders'[j] = orders[j]
      BY <2>1, <2>5, <3>2, <3>3 DEF MarksFilled, Resting, OrderRecord
    <3>5. Opposes(orders[j].side, pos[orders[j].sym].qty)
      BY <2>5, <3>2, <3>4 DEF BracketsFaceLivePosition
    <3>6. orders[j].sym \in Symbols /\ orders[j].side \in Sides
      BY <3>3 DEF OrderRecord
    <3>7. CASE orders[j].sym # o.sym
      BY <2>2, <3>4, <3>5, <3>6, <3>7 DEF AppendsFill
    <3>8. CASE orders[j].sym = o.sym
      <4>1. ~Ends(p, o)
        BY <1>3, <2>5, <3>2, <3>4, <3>8, FillEndsBrackets DEF StaleBracket
      <4>2. Opposes(orders[j].side, p.qty + Signed(o.side, o.qty))
        BY <2>3, <2>4, <3>5, <3>6, <3>8, <4>1, SameSide
      <4> QED
        BY <2>2, <3>4, <3>8, <4>2 DEF AppendsFill
    <3> QED
      BY <3>7, <3>8
  <2> QED
    BY <2>5 DEF BracketsFaceLivePosition, Resting
<1>4. ASSUME NEW cancels, Withdraw(cancels)
      PROVE  BracketsFaceLivePosition'
  <2>1. ASSUME NEW j \in DOMAIN orders', Resting(orders'[j])
        PROVE  j \in DOMAIN orders /\ orders'[j] = orders[j]
    <3>1. j \in DOMAIN orders
      BY <1>4 DEF Withdraw
    <3>2. orders[j] \in OrderRecord
      BY <3>1 DEF TypeOK
    <3> QED
      BY <1>4, <2>1, <3>1, <3>2 DEF Withdraw, Canceled, Resting, OrderRecord
  <2> QED
    BY <1>4, <2>1 DEF Withdraw, BracketsFaceLivePosition, Resting
<1>5. ASSUME NEW balance, ResetAccount(balance)
      PROVE  BracketsFaceLivePosition'
  BY <1>5 DEF ResetAccount, BracketsFaceLivePosition
<1> QED
  BY <1>1, <1>2, <1>3, <1>4, <1>5, BookSteps

\* No resting reduce-only stop or take-profit outlives the position it protects
\* or that position's flip, whichever of the submit, match and liquidation paths
\* closes or flips it.
THEOREM BracketsFaceLivePositionCorrect == Spec => []BracketsFaceLivePosition
<1>1. Init => BracketsFaceLivePosition
  BY DEF Init, BracketsFaceLivePosition
<1> QED
  BY <1>1, BracketStep, TypeCorrect, PTL DEF Spec
-----------------------------------------------------------------------------
(* The audit chain *)

\* Appending a fill of o changes no earlier last fill, and is the last of its
\* symbol.
LEMMA LastFillSame ==
  ASSUME NEW F, NEW G, NEW n \in Nat, \A k \in 1..n : G[k].sym = F[k].sym, NEW s
  PROVE  LastFill(G, s, n) = LastFill(F, s, n)
<1>1. \A k \in 1..n : \A l \in k+1..n : l \in 1..n
  OBVIOUS
<1> QED
  BY <1>1 DEF LastFill

\* An appended fill is the last of its symbol.
LEMMA LastFillNew ==
  ASSUME NEW G, NEW n \in Nat
  PROVE  LastFill(G, G[n + 1].sym, n + 1) = {n + 1}
<1> DEFINE L == LastFill(G, G[n + 1].sym, n + 1)
<1>1. n + 1 \in L
  BY DEF LastFill
<1>2. ASSUME NEW k \in L, k # n + 1
      PROVE  FALSE
  <2>1. k \in 1..n+1 /\ \A l \in k+1..n+1 : G[l].sym # G[n + 1].sym
    BY <1>2 DEF LastFill
  <2>2. n + 1 \in k+1..n+1
    BY <1>2, <2>1
  <2> QED
    BY <2>1, <2>2
<1> QED
  BY <1>1, <1>2

\* An appended fill is not the last of any other symbol.
LEMMA LastFillOther ==
  ASSUME NEW G, NEW n \in Nat, NEW s, G[n + 1].sym # s
  PROVE  LastFill(G, s, n + 1) = LastFill(G, s, n)
<1>1. ASSUME NEW k \in LastFill(G, s, n + 1)
      PROVE  k \in LastFill(G, s, n)
  <2>1. k \in 1..n+1 /\ G[k].sym = s /\ \A l \in k+1..n+1 : G[l].sym # s
    BY DEF LastFill
  <2>2. k \in 1..n
    BY <2>1
  <2>3. \A l \in k+1..n : l \in k+1..n+1
    BY <2>2
  <2> QED
    BY <2>1, <2>2, <2>3 DEF LastFill
<1>2. ASSUME NEW k \in LastFill(G, s, n)
      PROVE  k \in LastFill(G, s, n + 1)
  <2>1. k \in 1..n /\ G[k].sym = s /\ \A l \in k+1..n : G[l].sym # s
    BY DEF LastFill
  <2>2. \A l \in k+1..n+1 : l \in k+1..n \/ l = n + 1
    BY <2>1
  <2>3. k \in 1..n+1
    BY <2>1
  <2> QED
    BY <2>1, <2>2, <2>3 DEF LastFill
<1> QED
  BY <1>1, <1>2

\* No method moves a position without a fill that starts where the last one
\* of the symbol ended.
LEMMA AuditStep == TypeOK /\ AuditChain /\ [Next]_vars => AuditChain'
<1> SUFFICES ASSUME TypeOK, AuditChain, [Next]_vars
             PROVE  AuditChain'
  OBVIOUS
<1>1. ASSUME pos' = pos, fills' = fills
      PROVE  AuditChain'
  BY <1>1 DEF AuditChain
<1>2. ASSUME NEW os, NEW i, NEW price, NEW rate, Fill(os, i, price, rate)
      PROVE  AuditChain'
  <2> DEFINE o == os[i]
             n == Len(fills)
             G == fills'
  <2>1. PICK f : AppendsFill(o, i, f)
    BY <1>2, FillAppends
  <2>2. /\ n \in Nat /\ DOMAIN fills = 1..n /\ DOMAIN G = 1..n+1
        /\ \A k \in 1..n : G[k] = fills[k]
        /\ G[n+1] = f /\ Len(G) = n + 1
        /\ f.sym = o.sym /\ f.side = o.side /\ f.qty = o.qty /\ o.sym \in Symbols
        /\ f.before = pos[o.sym].qty /\ pos'[o.sym].qty = f.after
        /\ f.after = f.before + Signed(o.side, o.qty)
        /\ \A s \in Symbols \ {o.sym} : pos'[s] = pos[s]
    BY <2>1 DEF AppendsFill
  <2>3. /\ \A s \in Symbols : LastFill(fills, s, n) = {} => pos[s].qty = 0
        /\ \A s \in Symbols : \A j \in LastFill(fills, s, n) :
             pos[s].qty = fills[j].after
    BY DEF AuditChain
  <2>4. \A k \in 1..n :
          /\ fills[k].after = fills[k].before + Signed(fills[k].side, fills[k].qty)
          /\ LastFill(fills, fills[k].sym, k - 1) = {} => fills[k].before = 0
          /\ \A j \in LastFill(fills, fills[k].sym, k - 1) :
               fills[k].before = fills[j].after
    BY <2>2 DEF AuditChain
  <2> HIDE DEF o, n, G
  <2>5. ASSUME NEW m \in Nat, m <= n, NEW s
        PROVE  /\ LastFill(G, s, m) = LastFill(fills, s, m)
               /\ \A j \in LastFill(fills, s, m) : G[j] = fills[j]
    <3>1. \A k \in 1..m : k \in 1..n
      BY <2>2, <2>5
    <3>2. \A k \in 1..m : G[k] = fills[k]
      BY <2>2, <3>1
    <3>3. LastFill(G, s, m) = LastFill(fills, s, m)
      BY <3>2, LastFillSame
    <3>4. LastFill(fills, s, m) \subseteq 1..m
      BY DEF LastFill
    <3> QED
      BY <3>2, <3>3, <3>4
  <2>6. ASSUME NEW k \in 1..n
        PROVE  /\ G[k].after = G[k].before + Signed(G[k].side, G[k].qty)
               /\ LastFill(G, G[k].sym, k - 1) = {} => G[k].before = 0
               /\ \A j \in LastFill(G, G[k].sym, k - 1) : G[k].before = G[j].after
    <3>1. k - 1 \in Nat /\ k - 1 <= n
      BY <2>2
    <3>2. G[k] = fills[k]
      BY <2>2
    <3> QED
      BY <2>4, <2>5, <3>1, <3>2
  <2>7. /\ LastFill(G, f.sym, n) = {} => f.before = 0
        /\ \A j \in LastFill(G, f.sym, n) : f.before = G[j].after
    BY <2>2, <2>3, <2>5
  <2>8. ASSUME NEW k \in 1..n+1
        PROVE  /\ G[k].after = G[k].before + Signed(G[k].side, G[k].qty)
               /\ LastFill(G, G[k].sym, k - 1) = {} => G[k].before = 0
               /\ \A j \in LastFill(G, G[k].sym, k - 1) : G[k].before = G[j].after
    <3>1. CASE k = n + 1
      <4>1. k - 1 = n
        BY <2>2, <3>1
      <4> QED
        BY <2>2, <2>7, <3>1, <4>1
    <3>2. CASE k # n + 1
      <4>1. k \in 1..n
        BY <2>2, <3>2
      <4> QED
        BY <2>6, <4>1
    <3> QED
      BY <3>1, <3>2
  <2>9. ASSUME NEW s \in Symbols
        PROVE  /\ LastFill(G, s, n + 1) = {} => pos'[s].qty = 0
               /\ \A j \in LastFill(G, s, n + 1) : pos'[s].qty = G[j].after
    <3>1. CASE s = f.sym
      <4>1. LastFill(G, s, n + 1) = {n + 1}
        BY <2>2, <3>1, LastFillNew
      <4> QED
        BY <2>2, <3>1, <4>1
    <3>2. CASE s # f.sym
      <4>1. LastFill(G, s, n + 1) = LastFill(G, s, n)
        BY <2>2, <3>2, LastFillOther
      <4> QED
        BY <2>2, <2>3, <2>5, <3>2, <4>1
    <3> QED
      BY <3>1, <3>2
  <2> QED
    BY <2>2, <2>8, <2>9 DEF AuditChain, G
<1>3. ASSUME NEW balance, ResetAccount(balance)
      PROVE  AuditChain'
  <2>1. fills' = <<>> /\ \A s \in Symbols : pos'[s].qty = 0
    BY <1>3 DEF ResetAccount, Flat
  <2>2. \A s : LastFill(<<>>, s, Len(<<>>)) = {}
    BY DEF LastFill
  <2> QED
    BY <2>1, <2>2 DEF AuditChain
<1> QED
  BY <1>1, <1>2, <1>3, BookSteps DEF book, SubmitUnfilled, Withdraw

\* Every change of a position has its fill record: the fills of a symbol, read
\* in order, reproduce its quantity, liquidations included.
THEOREM AuditChainCorrect == Spec => []AuditChain
<1>1. Init => AuditChain
  <2> SUFFICES ASSUME Init PROVE AuditChain
    OBVIOUS
  <2>1. fills = <<>> /\ \A s \in Symbols : pos[s].qty = 0
    BY DEF Init, Flat
  <2>2. \A s : LastFill(<<>>, s, Len(<<>>)) = {}
    BY DEF LastFill
  <2> QED
    BY <2>1, <2>2 DEF AuditChain
<1> QED
  BY <1>1, AuditStep, TypeCorrect, PTL DEF Spec
-----------------------------------------------------------------------------
(* Risk checks *)

\* The resting orders that may add exposure.
Growing(os) == {i \in DOMAIN os : Resting(os[i]) /\ ~os[i].reduceOnly}

\* The orders that rest and may add exposure are among those getOpenOrders
\* counts.
LEMMA GrowingFinite ==
  ASSUME TypeOK
  PROVE  /\ IsFiniteSet(Growing(orders)) /\ Cardinality(Growing(orders)) \in Nat
         /\ OpenOrders \in Nat /\ Cardinality(Growing(orders)) <= OpenOrders
<1> DEFINE All == {i \in DOMAIN orders : Resting(orders[i])}
<1>1. DOMAIN orders = 1..Len(orders) /\ Len(orders) \in Nat
  BY DEF TypeOK
<1>2. IsFiniteSet(DOMAIN orders)
  BY <1>1, FS_Interval
<1>3. IsFiniteSet(All)
  BY <1>2, FS_Subset
<1>4. Growing(orders) \subseteq All
  BY DEF Growing
<1> QED
  BY <1>3, <1>4, FS_Subset, FS_CardinalityType DEF OpenOrders

\* Only submitOrder lets such an order rest, and only below the cap.
LEMMA OpenOrderCapStep == TypeOK /\ OpenOrderCap /\ [Next]_vars => OpenOrderCap'
<1> SUFFICES ASSUME TypeOK, OpenOrderCap, [Next]_vars
             PROVE  OpenOrderCap'
  OBVIOUS
<1>1. /\ IsFiniteSet(Growing(orders)) /\ Cardinality(Growing(orders)) \in Nat
      /\ OpenOrders \in Nat /\ Cardinality(Growing(orders)) <= OpenOrders
      /\ Cardinality(Growing(orders)) < MaxOpenOrders
  BY GrowingFinite DEF OpenOrderCap, Growing
<1>2. ASSUME Growing(orders') \subseteq Growing(orders)
      PROVE  OpenOrderCap'
  <2>1. /\ Cardinality(Growing(orders')) <= Cardinality(Growing(orders))
        /\ Cardinality(Growing(orders')) \in Nat
    BY <1>1, <1>2, FS_Subset, FS_CardinalityType
  <2>2. Cardinality(Growing(orders')) < MaxOpenOrders
    BY <1>1, <2>1, BoundsAssumption
  <2> QED
    BY <2>2 DEF OpenOrderCap, Growing, Resting
<1>3. ASSUME NEW c \in Commands, SubmitUnfilled(c)
      PROVE  OpenOrderCap'
  <2> DEFINE o == [NewOrder(c) EXCEPT !.status = Outcome(c)]
             n == Len(orders) + 1
  <2>1. NewOrder(c) \in OrderRecord
    BY NewOrderType
  <2>2. o.reduceOnly = NewOrder(c).reduceOnly /\ o.status = Outcome(c)
    BY <2>1 DEF OrderRecord
  <2>3. ASSUME Resting(o), ~o.reduceOnly
        PROVE  OpenOrders + 1 < MaxOpenOrders
    BY <2>2, <2>3 DEF Resting, Outcome, RiskOK, ExposureOK
  <2>4. orders' = Append(orders, o) /\ orders \in Seq(OrderRecord)
    BY <1>3 DEF SubmitUnfilled, TypeOK
  <2> HIDE DEF o
  <2>5. /\ DOMAIN orders' = DOMAIN orders \union {n} /\ n \notin DOMAIN orders
        /\ \A i \in DOMAIN orders : orders'[i] = orders[i]
        /\ orders'[n] = o
    BY <2>4
  <2> HIDE DEF n
  <2>6. CASE Resting(o) /\ ~o.reduceOnly
    <3>1. Growing(orders') = Growing(orders) \union {n} /\ n \notin Growing(orders)
      BY <2>5, <2>6 DEF Growing
    <3>2. Cardinality(Growing(orders')) = Cardinality(Growing(orders)) + 1
      BY <1>1, <3>1, FS_AddElement
    <3>3. Cardinality(Growing(orders')) < MaxOpenOrders
      BY <1>1, <2>3, <2>6, <3>2, BoundsAssumption
    <3> QED
      BY <3>3 DEF OpenOrderCap, Growing, Resting
  <2>7. CASE ~(Resting(o) /\ ~o.reduceOnly)
    <3>1. Growing(orders') = Growing(orders)
      BY <2>5, <2>7 DEF Growing
    <3> QED
      BY <1>2, <3>1
  <2> QED
    BY <2>6, <2>7
<1>4. ASSUME NEW os, NEW i, NEW price, NEW rate, Fill(os, i, price, rate)
      PROVE  OpenOrderCap'
  <2>1. MarksFilled(os, i)
    BY <1>4, FillMarks
  <2>2. ASSUME NEW j \in Growing(orders')
        PROVE  j \in Growing(orders)
    <3>1. j \in DOMAIN orders' /\ Resting(orders'[j]) /\ ~orders'[j].reduceOnly
      BY DEF Growing
    <3>2. j # i
      BY <2>1, <3>1 DEF MarksFilled, Resting, OrderRecord
    <3>3. j \in DOMAIN orders
          /\ orders'[j] \in {orders[j], [orders[j] EXCEPT !.status = "CANCELED"]}
      BY <2>1, <3>1, <3>2 DEF MarksFilled
    <3>4. orders[j] \in OrderRecord
      BY <3>3 DEF TypeOK
    <3>5. orders'[j] = orders[j]
      BY <3>1, <3>3, <3>4 DEF Resting, OrderRecord
    <3> QED
      BY <3>1, <3>3, <3>5 DEF Growing
  <2> QED
    BY <1>2, <2>2
<1>5. ASSUME NEW cancels, Withdraw(cancels)
      PROVE  OpenOrderCap'
  <2>1. ASSUME NEW j \in Growing(orders')
        PROVE  j \in Growing(orders)
    <3>1. j \in DOMAIN orders /\ Resting(orders'[j]) /\ ~orders'[j].reduceOnly
      BY <1>5 DEF Growing, Withdraw
    <3>2. orders[j] \in OrderRecord
      BY <3>1 DEF TypeOK
    <3>3. orders'[j] = orders[j]
      BY <1>5, <3>1, <3>2 DEF Withdraw, Canceled, Resting, OrderRecord
    <3> QED
      BY <3>1, <3>3 DEF Growing
  <2> QED
    BY <1>2, <2>1
<1>6. ASSUME NEW balance, ResetAccount(balance)
      PROVE  OpenOrderCap'
  <2>1. Growing(orders') = {}
    BY <1>6 DEF ResetAccount, Growing
  <2> QED
    BY <1>2, <2>1
<1>7. ASSUME UNCHANGED book
      PROVE  OpenOrderCap'
  BY <1>2, <1>7 DEF book
<1> QED
  BY <1>3, <1>4, <1>5, <1>6, <1>7, BookSteps

\* However orders are submitted, filled and canceled, fewer than maxOpenOrders
\* orders that may add exposure ever rest.
THEOREM OpenOrderCapCorrect == Spec => []OpenOrderCap
<1>1. Init => OpenOrderCap
  <2> SUFFICES ASSUME Init PROVE OpenOrderCap
    OBVIOUS
  <2>1. {i \in DOMAIN orders : Resting(orders[i]) /\ ~orders[i].reduceOnly} = {}
    BY DEF Init
  <2> QED
    BY <2>1, FS_EmptySet, BoundsAssumption DEF OpenOrderCap
<1> QED
  BY <1>1, OpenOrderCapStep, TypeCorrect, PTL DEF Spec

\* A reduce-only market order within the position passes checkOrderRisk in
\* every reachable state, however far over its caps and its daily loss the
\* account is.
THEOREM ReduceOnlyAlwaysExitsCorrect == Spec => []ReduceOnlyAlwaysExits
<1>1. TypeOK => ReduceOnlyAlwaysExits
  <2> SUFFICES ASSUME TypeOK, NEW s \in Symbols, NEW q \in 1..Abs(pos[s].qty)
               PROVE  LET exit == [LiquidationOrder(s) EXCEPT !.qty = q] IN
                      /\ q >= MinQty /\ q * EstimatedPrice(exit) >= MinNotional
                      /\ EstimatedPrice(exit) > 0 /\ pos[s].lev <= MaxLeverage
                      => RiskOK(exit)
    BY DEF ReduceOnlyAlwaysExits
  <2> DEFINE exit == [LiquidationOrder(s) EXCEPT !.qty = q]
  <2>1. pos[s].qty \in Int
    BY SymbolTypes
  <2>2. /\ exit.sym = s /\ exit.qty = q /\ exit.reduceOnly = TRUE
        /\ exit.side = (IF pos[s].qty > 0 THEN "SELL" ELSE "BUY")
        /\ exit.lev = pos[s].lev
    BY DEF LiquidationOrder
  <2> HIDE DEF exit
  <2>3. ~Grows(exit) /\ q > 0
    BY <2>1, <2>2 DEF Grows, Signed, Abs
  <2>4. /\ q >= MinQty /\ q * EstimatedPrice(exit) >= MinNotional
        /\ EstimatedPrice(exit) > 0 /\ pos[s].lev <= MaxLeverage
        => RiskOK(exit)
    BY <2>2, <2>3 DEF RiskOK
  <2> QED
    BY <2>4 DEF exit
<1> QED
  BY <1>1, TypeCorrect, PTL
-----------------------------------------------------------------------------
(* Liquidation *)

\* A liquidation leaves its position flat and the other positions alone.
LEMMA LiquidationCloses ==
  ASSUME TypeOK, NEW s \in Symbols, LiquidatePosition(s)
  PROVE  /\ pos'[s].qty = 0
         /\ \A r \in Symbols \ {s} : pos'[r] = pos[r]
         /\ market' = market
<1> DEFINE o == LiquidationOrder(s)
           os == Append(orders, o)
<1>1. orders \in Seq(OrderRecord) /\ o \in OrderRecord
  BY LiquidationOrderType DEF TypeOK
<1>2. /\ o.sym = s /\ o.qty = Abs(pos[s].qty)
      /\ o.side = (IF pos[s].qty > 0 THEN "SELL" ELSE "BUY")
  BY DEF LiquidationOrder
<1>3. Fill(os, Len(orders) + 1, market[s].mark, TakerFee)
  BY FillSteps
<1> HIDE DEF o
<1>4. os[Len(orders) + 1] = o
  BY <1>1
<1>5. PICK f : AppendsFill(o, Len(orders) + 1, f)
  BY <1>3, <1>4, FillAppends
<1>6. pos[s].qty \in Int
  BY SymbolTypes
<1>7. pos'[s].qty = pos[s].qty + Signed(o.side, o.qty)
  BY <1>2, <1>5 DEF AppendsFill
<1>8. pos[s].qty + Signed(o.side, o.qty) = 0
  BY <1>2, <1>6 DEF Signed, Abs
<1>9. market' = market
  BY DEF LiquidatePosition
<1> QED
  BY <1>2, <1>5, <1>7, <1>8, <1>9 DEF AppendsFill

\* A market tick ends with the account above its maintenance margin, or with
\* every position that has a mark price closed.
THEOREM TickEndsSolventCorrect == Spec => TickEndsSolvent
<1> DEFINE Safe == ~LiquidationDue
                   \/ \A s \in Symbols : pos[s].qty # 0 => market[s].mark = 0
           Ends1 == phase \in {"matching", "liquidating"} /\ phase' = "idle"
<1>1. TypeOK /\ [Next]_vars => [Ends1 => Safe']_vars
  <2> SUFFICES ASSUME TypeOK, Next, Ends1
               PROVE  Safe'
    OBVIOUS
  <2>1. CASE EndMatching
    <3>1. CASE LiquidationDue
      <4>1. Closable = {}
        BY <2>1, <3>1 DEF EndMatching
      <4> QED
        BY <2>1, <4>1 DEF EndMatching, Closable, book
    <3>2. CASE ~LiquidationDue
      <4>1. UNCHANGED <<book, money, market>>
        BY <2>1 DEF EndMatching
      <4>2. ~LiquidationDue'
        BY <3>2, <4>1
        DEF LiquidationDue, MaintenanceMargin, Equity, Notional, Unrealized,
            MarkPrice, Mid, Else, Abs, Total, book, money
      <4> QED
        BY <4>2
    <3> QED
      BY <3>1, <3>2
  <2>2. ASSUME NEW s \in Symbols, LiquidatePosition(s)
        PROVE  Safe'
    <3>1. Closable = {s}
      BY <2>2 DEF LiquidatePosition
    <3>2. \A r \in Symbols \ {s} : pos[r].qty = 0 \/ market[r].mark = 0
      BY <3>1 DEF Closable
    <3>3. /\ pos'[s].qty = 0 /\ market' = market
          /\ \A r \in Symbols \ {s} : pos'[r] = pos[r]
      BY <2>2, LiquidationCloses
    <3> QED
      BY <3>2, <3>3
  <2>3. ASSUME NEW i \in DOMAIN orders, MatchOrder(i)
        PROVE  FALSE
    BY <2>3 DEF MatchOrder
  <2>4. LoopStep
    BY DEF Next, SubmitUnfilled, SubmitFilled, Submit, CancelOrder, CancelAllOrders,
           OnMarket, ApplyFunding, AdjustWalletBalance, ResetAccount, GoStale,
           NewUtcDay
  <2> QED
    BY <2>1, <2>2, <2>3, <2>4 DEF LoopStep, FundPosition
<1>2. TypeOK /\ [Next]_vars
      => [(phase \in {"matching", "liquidating"} /\ phase' = "idle")
          => (~LiquidationDue' \/ \A s \in Symbols : pos'[s].qty # 0 => market'[s].mark = 0)]_vars
  BY <1>1
<1> QED
  BY <1>2, TypeCorrect, PTL DEF Spec, TickEndsSolvent
-----------------------------------------------------------------------------
(* Equity *)

\* Decimal.toFixed is at most half a unit off.
LEMMA RoundingError ==
  ASSUME NEW t \in Int, NEW n \in Nat \ {0}
  PROVE  /\ Rounded(t, n) \in Int
         /\ 2 * (n * Rounded(t, n) - t) <= n /\ 2 * (t - n * Rounded(t, n)) <= n
<1> DEFINE a == 2 * t + n
           d == 2 * n
           r == a \div d
<1>1. a \in Int /\ d \in Nat \ {0}
  OBVIOUS
<1>2. Rounded(t, n) = r
  BY DEF Rounded
<1> HIDE DEF a, d
<1>3. r \in Int /\ d * r <= a /\ a < d * r + d
  BY <1>1
<1> HIDE DEF r
<1>4. d * r = 2 * (n * r)
  BY <1>3 DEF d
<1> DEFINE k == n * r
<1>5. k \in Int
  BY <1>3
<1> HIDE DEF k
<1>6. 2 * k <= 2 * t + n /\ 2 * t + n < 2 * k + 2 * n
  BY <1>3, <1>4 DEF a, d, k
<1>7. 2 * (k - t) <= n /\ 2 * (t - k) <= n
  BY <1>5, <1>6
<1> QED
  BY <1>2, <1>3, <1>7 DEF k

\* What a fill realizes and what it leaves to mark add up, in each branch of
\* applyPositionFill: a position of quantity q and entry e is closed at x ...
LEMMA CloseAlgebra ==
  ASSUME NEW m \in Int, NEW q \in Int, NEW e \in Int, NEW x \in Int, NEW M \in Int
  PROVE m * q * (x - e) + m * 0 * (M - 0) - m * q * (M - e) - m * ((-q) * (M - x)) = 0
  OBVIOUS

\* ... flipped by a fill of the signed quantity d ...
LEMMA FlipAlgebra ==
  ASSUME NEW m \in Int, NEW q \in Int, NEW e \in Int, NEW x \in Int, NEW M \in Int, NEW d \in Int
  PROVE m * q * (x - e) + m * (q + d) * (M - x) - m * q * (M - e) - m * (d * (M - x)) = 0
  OBVIOUS

\* ... reduced ...
LEMMA ReduceAlgebra ==
  ASSUME NEW m \in Int, NEW q \in Int, NEW e \in Int, NEW x \in Int, NEW M \in Int, NEW d \in Int
  PROVE m * (-d) * (x - e) + m * (q + d) * (M - e) - m * q * (M - e) - m * (d * (M - x)) = 0
  OBVIOUS

\* ... or added to, where all that is lost is the rounding of the new entry r.
LEMMA AddAlgebra ==
  ASSUME NEW m \in Int, NEW q \in Int, NEW e \in Int, NEW x \in Int, NEW M \in Int, NEW d \in Int,
         NEW r \in Int
  PROVE 0 + m * (q + d) * (M - r) - m * q * (M - e) - m * (d * (M - x))
         = m * (q * e + d * x - (q + d) * r) 
  OBVIOUS

\* The unrealized PnL is a whole number of money units.
LEMMA UnrealizedType ==
  ASSUME TypeOK, NEW s \in Symbols
  PROVE  MarkPrice(s) \in Int /\ Unrealized(s) \in Int
<1>1. /\ MarkPrice(s) \in Int /\ pos[s].qty \in Int /\ pos[s].entry \in Int
  <2>1. pos[s] \in PositionRecord /\ market[s] \in MarketRecord
    BY DEF TypeOK
  <2> QED
    BY <2>1 DEF MarkPrice, Else, Mid, MarketRecord, PositionRecord
<1>2. MarkPrice(s) - pos[s].entry \in Int /\ MoneyScale * pos[s].qty \in Int
  BY <1>1, MoneyAssumption
<1> QED
  BY <1>1, <1>2 DEF Unrealized

\* The unrealized PnL of position p at mark M.
Marked(p, M) == MoneyScale * p.qty * (M - p.entry)

\* What a fill of o at x makes of equity beyond its distance from the mark M.
NettingError(p, o, x, M) ==
  Realized(p, o, x) + Marked(Netted(p, o, x), M) - Marked(p, M)
    - MoneyScale * (Signed(o.side, o.qty) * (M - x))

\* Adding to a position rounds its entry: half a price unit of its quantity.
LEMMA AddingRounds ==
  ASSUME NEW p \in PositionRecord, NEW o \in OrderRecord, NEW x \in Int, NEW M \in Int,
         p.qty # 0, ~Opposes(o.side, p.qty)
  PROVE  /\ NettingError(p, o, x, M) \in Int
         /\ 2 * Abs(NettingError(p, o, x, M)) <= MoneyScale * Abs(p.qty + Signed(o.side, o.qty))
<1> DEFINE q == p.qty
           e == p.entry
           d == Signed(o.side, o.qty)
           n == q + d
           t == Abs(q) * e + o.qty * x
           r == Rounded(t, Abs(n))
           g == q * e + d * x - n * r
           m == MoneyScale
<1>1. q \in Int /\ e \in Int /\ o.qty \in Nat /\ o.side \in Sides /\ q # 0
  BY DEF PositionRecord, OrderRecord
<1>2. d \in Int /\ n \in Int /\ m \in Nat
  BY <1>1, MoneyAssumption DEF Signed
<1>3. \/ q > 0 /\ d = o.qty /\ n > 0 /\ Abs(q) = q /\ Abs(n) = n
      \/ q < 0 /\ d = -o.qty /\ n < 0 /\ Abs(q) = -q /\ Abs(n) = -n
  BY <1>1 DEF Signed, Opposes, Abs, Sides
<1>4. /\ Netted(p, o, x).qty = n /\ Netted(p, o, x).entry = r
      /\ Realized(p, o, x) = 0
  <2>1. ~Ends(p, o)
    BY DEF Ends
  <2> QED
    BY <1>1, <2>1 DEF Netted, Realized
<1>5. NettingError(p, o, x, M) = 0 + m * n * (M - r) - m * q * (M - e) - m * (d * (M - x))
  BY <1>4 DEF NettingError, Marked
<1>6. Abs(n) \in Nat \ {0}
  BY <1>2, <1>3
<1>7. t \in Int
  <2>1. Abs(q) \in Int
    BY <1>1 DEF Abs
  <2> HIDE DEF q, e
  <2> QED
    BY <1>1, <2>1
<1> HIDE DEF t
<1>8. r \in Int /\ 2 * (Abs(n) * r - t) <= Abs(n) /\ 2 * (t - Abs(n) * r) <= Abs(n)
  BY <1>6, <1>7, RoundingError
<1> HIDE DEF q, e, d, n, r, m
<1>9. NettingError(p, o, x, M) = m * g
  <2>1. n = q + d
    BY DEF n, q, d
  <2> QED
    BY <1>1, <1>2, <1>5, <1>8, <2>1, AddAlgebra
<1>10. g \in Int
  BY <1>1, <1>2, <1>8
<1>11. g = t - Abs(n) * r \/ g = Abs(n) * r - t
  <2>1. t = Abs(q) * e + o.qty * x
    BY DEF t, q, e
  <2>2. CASE q > 0 /\ d = o.qty /\ n > 0 /\ Abs(q) = q /\ Abs(n) = n
    BY <1>1, <1>2, <1>8, <2>1, <2>2
  <2>3. CASE q < 0 /\ d = -o.qty /\ n < 0 /\ Abs(q) = -q /\ Abs(n) = -n
    BY <1>1, <1>2, <1>8, <2>1, <2>3
  <2> QED
    BY <1>3, <2>2, <2>3
<1> DEFINE k == Abs(n) * r
<1>12. k \in Int
  BY <1>6, <1>8
<1>13. 2 * (k - t) <= Abs(n) /\ 2 * (t - k) <= Abs(n) /\ (g = t - k \/ g = k - t)
  BY <1>8, <1>11
<1> HIDE DEF k, g
<1>14. 2 * Abs(g) <= Abs(n)
  BY <1>6, <1>7, <1>10, <1>12, <1>13 DEF Abs
<1>15. 2 * Abs(m * g) <= m * Abs(n)
  <2>1. Abs(g) \in Nat /\ Abs(n) \in Nat
    BY <1>6, <1>10 DEF Abs
  <2>2. Abs(m * g) = m * Abs(g)
    BY <1>2, <1>10 DEF Abs
  <2>3. m * (2 * Abs(g)) <= m * Abs(n)
    BY <1>2, <1>14, <2>1
  <2> QED
    BY <1>2, <2>1, <2>2, <2>3
<1>16. m * g \in Int
  BY <1>2, <1>10
<1> QED
  BY <1>9, <1>15, <1>16 DEF m, n, q, d

\* Opening, closing, flipping and reducing are exact.
LEMMA OthersExact ==
  ASSUME NEW p \in PositionRecord, NEW o \in OrderRecord, NEW x \in Int, NEW M \in Int,
         p.qty = 0 \/ Opposes(o.side, p.qty)
  PROVE  NettingError(p, o, x, M) = 0
<1> DEFINE q == p.qty
           e == p.entry
           d == Signed(o.side, o.qty)
           m == MoneyScale
           after == Netted(p, o, x)
<1>1. q \in Int /\ e \in Int /\ o.qty \in Nat /\ o.side \in Sides
  BY DEF PositionRecord, OrderRecord
<1>2. d \in Int /\ m \in Int
  BY <1>1, MoneyAssumption DEF Signed
<1>3. NettingError(p, o, x, M) = Realized(p, o, x) + m * after.qty * (M - after.entry)
                          - m * q * (M - e) - m * (d * (M - x))
  BY DEF NettingError, Marked
<1>4. CASE q = 0
  <2>1. after.qty = d /\ after.entry = x
    <3>1. after = [qty |-> q + d, entry |-> x, lev |-> o.lev]
      <4>1. ~Opposes(o.side, p.qty)
        BY <1>4 DEF Opposes
      <4> QED
        BY <1>4, <4>1 DEF Netted
    <3>2. q + d = d
      BY <1>2, <1>4
    <3> QED
      BY <3>1, <3>2
  <2>2. Realized(p, o, x) = 0
    BY <1>1, <1>4 DEF Realized, Opposes
  <2> HIDE DEF after, q, e, d, m
  <2> QED
    BY <1>1, <1>2, <1>3, <1>4, <2>1, <2>2
<1>5. CASE q # 0 /\ Ends(p, o) /\ q + d = 0
  <2>1. after.qty = 0 /\ after.entry = 0
    BY <1>5 DEF Netted, PositionRecord
  <2>2. o.qty = Abs(q)
    BY <1>1, <1>5 DEF Ends, Opposes, Signed, Abs
  <2>3. Least(o.qty, Abs(q)) = Abs(q)
    BY <2>2 DEF Least
  <2>4. Realized(p, o, x) = m * Abs(q) * (x - e) * Sign(q)
    BY <1>5, <2>3 DEF Realized, Ends
  <2>5. d = -q /\ Abs(q) \in Int /\ Sign(q) \in Int /\ Abs(q) * Sign(q) = q
    BY <1>1, <1>2, <1>5 DEF Abs, Sign
  <2> DEFINE a == Abs(q)
             g == Sign(q)
  <2>6. a \in Int /\ g \in Int /\ a * g = q
    BY <2>5
  <2> HIDE DEF after, q, e, d, m, a, g
  <2>7. m * a * (x - e) * g = m * (a * g) * (x - e)
    BY <1>1, <1>2, <2>6
  <2>8. Realized(p, o, x) = m * q * (x - e)
    BY <2>4, <2>6, <2>7 DEF a, g
  <2> QED
    BY <1>1, <1>2, <1>3, <2>1, <2>5, <2>8, CloseAlgebra
<1>6. CASE q # 0 /\ Ends(p, o) /\ q + d # 0
  <2>1. after.qty = q + d /\ after.entry = x
    BY <1>6 DEF Netted, PositionRecord
  <2>3. Least(o.qty, Abs(q)) = Abs(q)
    BY <1>1, <1>6 DEF Least, Ends, Abs
  <2>4. Realized(p, o, x) = m * Abs(q) * (x - e) * Sign(q)
    BY <1>6, <2>3 DEF Realized, Ends
  <2>5. Abs(q) \in Int /\ Sign(q) \in Int /\ Abs(q) * Sign(q) = q
    BY <1>1, <1>2, <1>6 DEF Abs, Sign
  <2> DEFINE a == Abs(q)
             g == Sign(q)
  <2>6. a \in Int /\ g \in Int /\ a * g = q
    BY <2>5
  <2> HIDE DEF after, q, e, d, m, a, g
  <2>7. m * a * (x - e) * g = m * (a * g) * (x - e)
    BY <1>1, <1>2, <2>6
  <2>8. Realized(p, o, x) = m * q * (x - e)
    BY <2>4, <2>6, <2>7 DEF a, g
  <2> QED
    BY <1>1, <1>2, <1>3, <2>1, <2>8, FlipAlgebra
<1>7. CASE q # 0 /\ Opposes(o.side, q) /\ ~Ends(p, o)
  <2>1. after.qty = q + d /\ after.entry = e
    BY <1>7 DEF Netted, PositionRecord
  <2>3. Least(o.qty, Abs(q)) = o.qty
    BY <1>1, <1>7 DEF Least, Ends, Abs
  <2>4. Realized(p, o, x) = m * o.qty * (x - e) * Sign(q)
    BY <1>7, <2>3 DEF Realized
  <2>5. Sign(q) \in Int /\ o.qty * Sign(q) = -d
    BY <1>1, <1>2, <1>7 DEF Sign, Signed, Opposes
  <2> DEFINE a == o.qty
             g == Sign(q)
  <2>6. a \in Int /\ g \in Int /\ a * g = -d
    BY <1>1, <2>5
  <2> HIDE DEF after, q, e, d, m, a, g
  <2>7. m * a * (x - e) * g = m * (a * g) * (x - e)
    BY <1>1, <1>2, <2>6
  <2>8. Realized(p, o, x) = m * (-d) * (x - e)
    BY <2>4, <2>6, <2>7 DEF a, g
  <2> QED
    BY <1>1, <1>2, <1>3, <2>1, <2>8, ReduceAlgebra
<1> QED
  BY <1>4, <1>5, <1>6, <1>7

\* Whatever branch a fill takes, it creates no more than the rounding.
LEMMA NettingConserves ==
  ASSUME NEW p \in PositionRecord, NEW o \in OrderRecord, NEW x \in Int, NEW M \in Int
  PROVE  /\ NettingError(p, o, x, M) \in Int
         /\ 2 * Abs(NettingError(p, o, x, M)) <= MoneyScale * Abs(Netted(p, o, x).qty)
<1>1. p.qty \in Int
  BY DEF PositionRecord
<1>2. Netted(p, o, x).qty = p.qty + Signed(o.side, o.qty)
  BY NettedType
<1>3. Netted(p, o, x).qty \in Int
  BY NettedType DEF PositionRecord
<1>4. CASE p.qty # 0 /\ ~Opposes(o.side, p.qty)
  BY <1>2, <1>4, AddingRounds
<1>5. CASE p.qty = 0 \/ Opposes(o.side, p.qty)
  <2>1. NettingError(p, o, x, M) = 0
    BY <1>5, OthersExact
  <2>2. Abs(Netted(p, o, x).qty) \in Nat
    BY <1>3 DEF Abs
  <2>3. MoneyScale * Abs(Netted(p, o, x).qty) \in Nat
    BY <2>2, MoneyAssumption
  <2> QED
    BY <2>1, <2>3 DEF Abs
<1> QED
  BY <1>4, <1>5

\* Equity is what the instrument s adds to the rest.
LEMMA EquityOf ==
  ASSUME TypeOK, NEW s \in Symbols, NEW f,
         \A r \in Symbols \ {s} : f[r] = Unrealized(r)
  PROVE  /\ SumFunctionOnSet(f, Symbols \ {s}) \in Int
         /\ Equity = wallet + (SumFunctionOnSet(f, Symbols \ {s}) + Unrealized(s))
<1> DEFINE u == [r \in Symbols |-> Unrealized(r)]
           J == Symbols \ {s}
<1>1. \A r \in Symbols : u[r] \in Int
  BY UnrealizedType
<1>2. \A r \in J : f[r] = u[r]
  OBVIOUS
<1>3. u[s] = Unrealized(s) /\ Equity = wallet + SumFunctionOnSet(u, Symbols)
  BY DEF Equity, Total
<1>4. J = Symbols \ {s}
  OBVIOUS
<1> HIDE DEF u, J
<1>5. /\ SumFunctionOnSet(f, J) \in Int
      /\ SumFunctionOnSet(u, Symbols) = SumFunctionOnSet(f, J) + u[s]
  BY <1>1, <1>2, <1>4, SumOfOneMore, SymbolsAssumption
<1> QED
  BY <1>3, <1>4, <1>5

\* What FillConservesEquity says of one step.
Conserves ==
  LET f == fills'[Len(fills')]
      slippage == Signed(f.side, f.qty) * (MarkPrice(f.sym) - f.price)
  IN  market[f.sym].mark + market[f.sym].last # 0 =>
        2 * Abs(Equity' - Equity + f.fee - MoneyScale * slippage)
          <= MoneyScale * Abs(f.after)

\* The state has an integer value, instrument by instrument.
Valued ==
  /\ \A s \in Symbols : MarkPrice(s) \in Int /\ Unrealized(s) \in Int
  /\ \A s \in Symbols : \A f :
       (\A r \in Symbols \ {s} : f[r] = Unrealized(r))
       => /\ SumFunctionOnSet(f, Symbols \ {s}) \in Int
          /\ Equity = wallet + (SumFunctionOnSet(f, Symbols \ {s}) + Unrealized(s))

\* A state of the declared shape has ...
LEMMA ValuedAlways == TypeOK => Valued
  BY UnrealizedType, EquityOf DEF Valued

\* ... and so has the next.
LEMMA ValuedNext == TypeOK' => Valued'
  BY ValuedAlways, PTL

\* executeFill moves equity by the fee and the distance of its price from the
\* mark: the other instruments keep their value, its own is netted.
LEMMA FillIsConservative ==
  ASSUME TypeOK, TypeOK', NEW os, NEW i, NEW price, NEW rate, Fill(os, i, price, rate),
         UNCHANGED market
  PROVE  Conserves
<1> DEFINE o == os[i]
           s == o.sym
           p == pos[s]
           M == MarkPrice(s)
           fee == o.qty * price * rate
           pnl == Realized(p, o, price)
           after == Netted(p, o, price)
           f == [order |-> i, sym |-> o.sym, side |-> o.side, qty |-> o.qty,
                 price |-> price, fee |-> fee, pnl |-> pnl, before |-> p.qty,
                 after |-> after.qty]
           slippage == Signed(o.side, o.qty) * (M - price)
           J == Symbols \ {s}
           u == [r \in Symbols |-> Unrealized(r)]
           rest == SumFunctionOnSet(u, J)
<1>1. o \in OrderRecord /\ price \in Int /\ rate \in Int
  BY DEF Fill
<1>2. o.sym \in Symbols /\ p \in PositionRecord /\ o.qty \in Nat /\ o.side \in Sides
  BY <1>1 DEF OrderRecord, TypeOK
<1>3. /\ fills' = Append(fills, f) /\ pos' = [pos EXCEPT ![o.sym] = after]
      /\ Booked(fee, pnl)
  BY DEF Fill, FillOrder
<1>4. /\ f.sym = s /\ f.side = o.side /\ f.qty = o.qty /\ f.price = price
      /\ f.fee = fee /\ f.after = after.qty
  OBVIOUS
<1> HIDE DEF f
<1>5. fills \in Seq(FillRecord \union {f}) /\ f \in FillRecord \union {f}
      /\ pos \in [Symbols -> PositionRecord]
  <2>1. fills \in Seq(FillRecord) /\ pos \in [Symbols -> PositionRecord]
    BY DEF TypeOK
  <2> QED
    BY <2>1
<1>6. fills'[Len(fills')] = f
  BY <1>3, <1>5
<1>7. SUFFICES ASSUME market[s].mark + market[s].last # 0
               PROVE  2 * Abs(Equity' - Equity + fee - MoneyScale * slippage)
                        <= MoneyScale * Abs(after.qty)
  BY <1>4, <1>6 DEF Conserves
<1>8. pos'[s] = after /\ \A r \in J : pos'[r] = pos[r]
  BY <1>2, <1>3, <1>5
<1>9. \A r \in J : Unrealized(r)' = Unrealized(r)
  BY <1>8 DEF Unrealized, MarkPrice, Mid, Else
<1>10. MarkPrice(s)' = M
  <2>1. market[s].mark \in Nat /\ market[s].last \in Nat
    BY <1>2 DEF TypeOK, MarketRecord
  <2>2. market[s].mark # 0 \/ market[s].last # 0
    BY <1>7, <2>1
  <2> QED
    BY <2>2 DEF MarkPrice, Else
<1>11. Unrealized(s) = Marked(p, M) /\ Unrealized(s)' = Marked(after, M)
  <2>1. Unrealized(s) = Marked(p, M)
    BY DEF Unrealized, Marked
  <2>2. Unrealized(s)' = MoneyScale * pos'[s].qty * (MarkPrice(s)' - pos'[s].entry)
    BY DEF Unrealized
  <2> QED
    BY <1>8, <1>10, <2>1, <2>2 DEF Marked
<1>12. Unrealized(s) \in Int /\ Unrealized(s)' \in Int /\ M \in Int
  BY <1>2, ValuedAlways, ValuedNext DEF Valued
<1>13. (\A r \in J : u[r] = Unrealized(r)) /\ (\A r \in J : u[r] = Unrealized(r)')
  BY <1>9
<1> HIDE DEF u
<1>14. rest \in Int /\ Equity = wallet + (rest + Unrealized(s))
  BY <1>2, <1>13, ValuedAlways DEF Valued
<1>15. Equity' = wallet' + (rest + Unrealized(s)')
  BY <1>2, <1>13, ValuedNext DEF Valued
<1>16. wallet' = wallet - fee + pnl /\ wallet \in Int /\ fee \in Int /\ pnl \in Int
  <2>1. fee \in Int
    BY <1>1, <1>2
  <2>2. pnl \in Int
    BY <1>1, <1>2, RealizedType
  <2> HIDE DEF fee, pnl
  <2> QED
    BY <1>3, <2>1, <2>2 DEF Booked, TypeOK
<1>17. MoneyScale * slippage \in Int
  BY <1>1, <1>2, <1>12, MoneyAssumption DEF Signed
<1> DEFINE k == MoneyScale * slippage
           w == Unrealized(s)
           v == Unrealized(s)'
<1>18. NettingError(p, o, price, M) = pnl + v - w - k
  BY <1>11 DEF NettingError
<1>19. k \in Int /\ v \in Int /\ w \in Int
  BY <1>12, <1>17
<1>20. /\ Equity = wallet + (rest + w) /\ Equity' = wallet' + (rest + v)
  BY <1>14, <1>15
<1> HIDE DEF k, w, v, fee, pnl, rest, slippage
<1>21. Equity' - Equity + fee - k = pnl + v - w - k
  BY <1>14, <1>16, <1>19, <1>20
<1>22. 2 * Abs(NettingError(p, o, price, M)) <= MoneyScale * Abs(after.qty)
  BY <1>1, <1>2, <1>12, NettingConserves
<1> QED
  BY <1>18, <1>21, <1>22 DEF k

\* No submission, match or liquidation creates money: equity moves by the fee
\* and the slippage, up to the rounding of an added-to entry price.
THEOREM FillsConserveEquity == Spec => FillConservesEquity
<1>1. TypeOK /\ TypeOK' /\ [Next]_vars => [fills' # fills /\ fills' # <<>> => Conserves]_vars
  <2> SUFFICES ASSUME TypeOK, TypeOK', Next, fills' # fills, fills' # <<>>
               PROVE  Conserves
    OBVIOUS
  <2>1. ASSUME NEW c \in Commands, SubmitFilled(c) PROVE Conserves
    BY <2>1, FillSteps, FillIsConservative DEF SubmitFilled, Submit
  <2>2. ASSUME NEW i \in DOMAIN orders, MatchOrder(i) PROVE Conserves
    BY <2>2, FillSteps, FillIsConservative DEF MatchOrder
  <2>3. ASSUME NEW s \in Symbols, LiquidatePosition(s) PROVE Conserves
    BY <2>3, FillSteps, FillIsConservative DEF LiquidatePosition
  <2> QED
    BY <2>1, <2>2, <2>3 DEF Next, LoopStep, SubmitUnfilled, CancelOrder,
        CancelAllOrders, OnMarket,
      EndMatching, ApplyFunding, FundPosition, AdjustWalletBalance, ResetAccount,
          GoStale, NewUtcDay, book
<1>2. TypeOK /\ TypeOK' /\ [Next]_vars =>
  [fills' # fills /\ fills' # <<>> =>
       LET f == fills'[Len(fills')]
           slippage == Signed(f.side, f.qty) * (MarkPrice(f.sym) - f.price)
       IN  market[f.sym].mark + market[f.sym].last # 0 =>
             2 * Abs(Equity' - Equity + f.fee - MoneyScale * slippage)
               <= MoneyScale * Abs(f.after)]_vars
  BY <1>1 DEF Conserves
<1> QED
  BY <1>2, TypeCorrect, PTL DEF Spec, FillConservesEquity
-----------------------------------------------------------------------------
(* The account the broker implements *)

\* The account and the broker net a trade with the same module.
LEMMA SameNetting ==
  ASSUME NEW p, NEW o, NEW price
  PROVE  /\ Ledger!Netted(p, o, price) = Netted(p, o, price)
         /\ Ledger!Realized(p, o, price) = Realized(p, o, price)
<1>1. Ledger!Netted(p, o, price) = Netted(p, o, price)
  BY DEF Netted, Ends, Opposes, Signed, Rounded, Abs, Ledger!Netted, Ledger!Ends,
         Ledger!Opposes, Ledger!Signed, Ledger!Rounded, Ledger!Abs
<1>2. Ledger!Realized(p, o, price) = Realized(p, o, price)
  BY DEF Realized, Opposes, Least, Sign, Abs, Ledger!Realized, Ledger!Opposes,
         Ledger!Least, Ledger!Sign, Ledger!Abs
<1> QED
  BY <1>1, <1>2

\* ... and sum over the instruments alike.
LEMMA SameTotal ==
  ASSUME NEW f
  PROVE  Ledger!Total(f) = Total(f)
  BY DEF Total, Ledger!Total, SumFunctionOnSet, Ledger!SumFunctionOnSet,
         FoldFunctionOnSet, Ledger!FoldFunctionOnSet, MapThenFoldSet, Ledger!MapThenFoldSet

\* The positions the account may settle or close are those with a mark price.
LEMMA SamePriced == Ledger!Priced = Closable /\ (Ledger!Priced)' = Closable'
  BY DEF Ledger!Priced, Closable

\* The price the account values a position at is the one calculateAccountState
\* takes.
LEMMA SamePrice ==
  ASSUME NEW s \in Symbols
  PROVE  Ledger!Price(s) = MarkPrice(s) /\ Ledger!Worth(s) = Notional(s)
<1>1. Ledger!Price(s) = MarkPrice(s)
  BY DEF Ledger!Price, MarkPrice, Else
<1> QED
  BY <1>1 DEF Ledger!Worth, Notional, Ledger!Abs, Abs

\* Equity, initial and maintenance margin are the account's.
LEMMA SameSums ==
  /\ Ledger!Equity = Equity
  /\ Ledger!Pledged = InitialMargin
  /\ Ledger!Maintenance = MaintenanceMargin
<1>1. [s \in Symbols |-> MoneyScale * pos[s].qty * (Ledger!Price(s) - pos[s].entry)]
      = [s \in Symbols |-> Unrealized(s)]
  BY SamePrice DEF Unrealized
<1>2. [s \in Symbols |-> (MoneyScale * Ledger!Worth(s)) \div pos[s].lev]
      = [s \in Symbols |-> (MoneyScale * Notional(s)) \div pos[s].lev]
  BY SamePrice
<1>3. [s \in Symbols |-> MaintRate * Ledger!Worth(s)]
      = [s \in Symbols |-> MaintRate * Notional(s)]
  BY SamePrice
<1>4. Ledger!Equity = Equity
  BY <1>1, SameTotal DEF Ledger!Equity, Equity
<1>5. Ledger!Pledged = InitialMargin
  BY <1>2, SameTotal DEF Ledger!Pledged, InitialMargin
<1>6. Ledger!Maintenance = MaintenanceMargin
  BY <1>3, SameTotal DEF Ledger!Maintenance, MaintenanceMargin
<1> QED
  BY <1>4, <1>5, <1>6

\* A fill nets alike whether the order's leverage is known or read off the
\* position it leaves: the statement of trades need not record it.
LEMMA LeverageIsThePositions ==
  ASSUME NEW p \in PositionRecord, NEW o \in OrderRecord, NEW price \in Int,
         NEW t, t.side = o.side, t.qty = o.qty, t.lev = Netted(p, o, price).lev
  PROVE  /\ Netted(p, t, price) = Netted(p, o, price)
         /\ Realized(p, t, price) = Realized(p, o, price)
<1>1. Ends(p, t) = Ends(p, o)
  BY DEF Ends
<1>2. Netted(p, t, price) = Netted(p, o, price)
  <2>1. CASE Opposes(o.side, p.qty) /\ ~Ends(p, o)
    BY <1>1, <2>1 DEF Netted, Opposes, PositionRecord, Signed
  <2>2. CASE p.qty # 0 /\ Ends(p, o) /\ p.qty + Signed(o.side, o.qty) = 0
    BY <1>1, <2>2 DEF Netted
  <2>3. CASE p.qty # 0 /\ ~Opposes(o.side, p.qty)
    <3>1. ~Ends(p, o)
      BY <2>3 DEF Ends
    <3>2. Netted(p, o, price).lev = o.lev
      BY <2>3, <3>1 DEF Netted
    <3> QED
      BY <1>1, <2>3, <3>1, <3>2 DEF Netted
  <2>4. CASE p.qty = 0
    BY <1>1, <2>4 DEF Netted
  <2>5. CASE p.qty # 0 /\ Ends(p, o) /\ p.qty + Signed(o.side, o.qty) # 0
    BY <1>1, <2>5 DEF Netted
  <2> QED
    BY <2>1, <2>2, <2>3, <2>4, <2>5
<1>3. Realized(p, t, price) = Realized(p, o, price)
  BY DEF Realized
<1> QED
  BY <1>2, <1>3

\* executeFill is one trade of the account: the record it appends tells how the
\* position, the wallet and the totals moved.
LEMMA FillIsTraded ==
  ASSUME TypeOK, NEW os, NEW i, NEW price, NEW rate, Fill(os, i, price, rate),
         UNCHANGED <<market, unpaid>>
  PROVE  /\ Ledger!Traded
         /\ fills'[Len(fills')].sym = os[i].sym
         /\ fills'[Len(fills')].price = price
         /\ fills'[Len(fills')].qty = os[i].qty
         /\ fills'[Len(fills')].side = os[i].side
<1> DEFINE o == os[i]
           p == pos[o.sym]
           after == Netted(p, o, price)
           fee == o.qty * price * rate
           pnl == Realized(p, o, price)
           f == [order |-> i, sym |-> o.sym, side |-> o.side, qty |-> o.qty,
                 price |-> price, fee |-> fee, pnl |-> pnl, before |-> p.qty,
                 after |-> after.qty]
           t == fills'[Len(fills')]
           trade == [side |-> t.side, qty |-> t.qty, lev |-> pos'[t.sym].lev]
<1>1. o \in OrderRecord /\ price \in Int
  BY DEF Fill
<1>2. o.sym \in Symbols /\ p \in PositionRecord
  BY <1>1 DEF OrderRecord, TypeOK
<1>3. /\ fills' = Append(fills, f) /\ pos' = [pos EXCEPT ![o.sym] = after]
      /\ Booked(fee, pnl)
  BY DEF Fill, FillOrder
<1>4. fills \in Seq(FillRecord) /\ pos \in [Symbols -> PositionRecord]
  BY DEF TypeOK
<1>5. /\ f.sym = o.sym /\ f.side = o.side /\ f.qty = o.qty /\ f.price = price
      /\ f.fee = fee
  OBVIOUS
<1> HIDE DEF o, p, fee, pnl, after, f
<1>6. t = f /\ fills' # <<>>
  <2>1. fills \in Seq(FillRecord \union {f}) /\ f \in FillRecord \union {f}
    BY <1>4
  <2> QED
    BY <1>3, <2>1
<1>7. trade.side = o.side /\ trade.qty = o.qty /\ trade.lev = after.lev
  BY <1>2, <1>3, <1>4, <1>5, <1>6
<1> HIDE DEF trade, t
<1>8. Netted(p, trade, price) = after /\ Realized(p, trade, price) = pnl
  BY <1>1, <1>2, <1>7, LeverageIsThePositions DEF after, pnl
<1>9. Ledger!Netted(p, trade, price) = after /\ Ledger!Realized(p, trade, price) = pnl
  BY <1>8, SameNetting
<1>10. /\ pos' = [pos EXCEPT ![t.sym] = Ledger!Netted(pos[t.sym], trade, t.price)]
       /\ Ledger!Realized(pos[t.sym], trade, t.price) = pnl
  BY <1>3, <1>5, <1>6, <1>9 DEF p
<1>11. /\ fills' = Append(fills, t) /\ fills' # <<>>
       /\ wallet' = wallet - t.fee + pnl
       /\ totalFees' = totalFees + t.fee /\ totalRealized' = totalRealized + pnl
       /\ totalFunding' = totalFunding
  BY <1>3, <1>5, <1>6 DEF Booked
<1>12. Ledger!Traded
  BY <1>10, <1>11 DEF Ledger!Traded, Ledger!feed, trade, t
<1> QED
  BY <1>5, <1>6, <1>12 DEF o, t

\* Only the funding loop has positions left to settle.
LoopsApart == phase # "funding" => unpaid = {}

\* No other method starts or runs while a sweep has positions left.
LEMMA LoopsStep == LoopsApart /\ [Next]_vars => LoopsApart'
<1> SUFFICES ASSUME LoopsApart, [Next]_vars PROVE LoopsApart'
  OBVIOUS
<1>1. ASSUME UNCHANGED loop PROVE LoopsApart'
  BY <1>1 DEF LoopsApart, loop
<1>2. ASSUME LoopStep PROVE LoopsApart'
  BY <1>2 DEF LoopsApart, LoopStep, MatchOrder, EndMatching, LiquidatePosition, FundPosition
<1>3. ASSUME (\E t \in Ticks : OnMarket(t)) \/ ApplyFunding PROVE LoopsApart'
  BY <1>3 DEF LoopsApart, OnMarket, ApplyFunding
<1> QED
  BY <1>1, <1>2, <1>3 DEF Next, SubmitUnfilled, SubmitFilled, Submit, CancelOrder,
     CancelAllOrders, AdjustWalletBalance, ResetAccount, GoStale, NewUtcDay, vars

\* calculateAccountState adds up to whole numbers of money units.
LEMMA SumsAreInts ==
  ASSUME TypeOK
  PROVE  Equity \in Int /\ InitialMargin \in Int
<1>1. ASSUME NEW s \in Symbols
      PROVE  MarkPrice(s) \in Int /\ pos[s].qty \in Int /\ pos[s].lev \in Nat \ {0}
  BY UnrealizedType, SymbolTypes
<1>2. ASSUME NEW s \in Symbols PROVE Unrealized(s) \in Int
  BY UnrealizedType
<1>3. ASSUME NEW s \in Symbols
      PROVE  (MoneyScale * Notional(s)) \div pos[s].lev \in Int
  <2>1. Abs(pos[s].qty) \in Int
    BY <1>1 DEF Abs
  <2>2. Notional(s) \in Int
    BY <1>1, <2>1 DEF Notional
  <2>3. MoneyScale * Notional(s) \in Int
    BY <2>2, MoneyAssumption
  <2> QED
    BY <1>1, <2>3
<1> DEFINE u == [s \in Symbols |-> Unrealized(s)]
           m == [s \in Symbols |-> (MoneyScale * Notional(s)) \div pos[s].lev]
<1>4. (\A s \in Symbols : u[s] \in Int) /\ (\A s \in Symbols : m[s] \in Int)
  BY <1>2, <1>3
<1>5. Equity = wallet + SumFunctionOnSet(u, Symbols) /\ InitialMargin = SumFunctionOnSet(m, Symbols)
  BY DEF Equity, InitialMargin, Total
<1> HIDE DEF u, m
<1>6. SumFunctionOnSet(u, Symbols) \in Int /\ SumFunctionOnSet(m, Symbols) \in Int
  BY <1>4, SumIsInt, SymbolsAssumption
<1> QED
  BY <1>5, <1>6 DEF TypeOK

\* What each method, and each iteration of a loop, is to the account: submitOrder
\* and evaluateOpenOrders trade, checkLiquidation freezes and closes out,
\* applyFunding starts a sweep and settles, and the rest quote, transfer, reset or
\* change nothing an account has.
LEMMA StepIsLedgerStep ==
  ASSUME TypeOK, LoopsApart, [Next]_vars
  PROVE  [Ledger!Next]_(Ledger!vars)
<1>0. UNCHANGED <<fills, pos, money, market, unpaid, phase>> => UNCHANGED Ledger!vars
  BY DEF Ledger!vars, Ledger!totals, Ledger!feed, money
<1>1. ASSUME NEW c \in Commands, SubmitUnfilled(c) PROVE UNCHANGED Ledger!vars
  BY <1>0, <1>1 DEF SubmitUnfilled, Submit, loop
<1>2. ASSUME NEW os, NEW i, NEW price, NEW rate, Fill(os, i, price, rate),
             UNCHANGED <<market, unpaid, phase>>, phase \in {"idle", "matching"}
      PROVE  Ledger!Trade
  BY <1>2, FillIsTraded DEF Ledger!Trade, Ledger!Open, LoopsApart
<1>3. ASSUME NEW c \in Commands, SubmitFilled(c) PROVE Ledger!Trade
  BY <1>2, <1>3, FillSteps DEF SubmitFilled, Submit, loop
<1>4. ASSUME NEW i \in DOMAIN orders, MatchOrder(i) PROVE Ledger!Trade
  BY <1>2, <1>4, FillSteps DEF MatchOrder
<1>5. ASSUME (\E i \in DOMAIN orders : CancelOrder(i)) \/ (\E syms : CancelAllOrders(syms))
             \/ NewUtcDay
      PROVE  UNCHANGED Ledger!vars
  BY <1>0, <1>5 DEF CancelOrder, CancelAllOrders, NewUtcDay, loop, book
<1>6. ASSUME (\E t \in Ticks : OnMarket(t)) \/ (\E s \in Symbols : GoStale(s))
      PROVE  Ledger!Quote
  BY <1>6 DEF OnMarket, GoStale, Ledger!Quote, Ledger!Open, Ledger!totals, LoopsApart,
     book, money, loop
<1>7. ASSUME EndMatching, LiquidationDue, Closable # {} PROVE Ledger!Freeze
  BY <1>7, SameSums, SamePriced
  DEF EndMatching, LiquidationDue, Ledger!Freeze, Ledger!Open, Ledger!totals,
      Ledger!feed, LoopsApart,
     book, money
<1>8. ASSUME EndMatching, ~(LiquidationDue /\ Closable # {}) PROVE Ledger!Quote
  BY <1>8 DEF EndMatching, Ledger!Quote, Ledger!Open, Ledger!totals, LoopsApart, book, money
<1>9. ASSUME NEW s \in Symbols, LiquidatePosition(s) PROVE Ledger!CloseOut
  <2> DEFINE o == LiquidationOrder(s)
             os == Append(orders, o)
             t == fills'[Len(fills')]
  <2>1. Fill(os, Len(orders) + 1, market[s].mark, TakerFee)
    BY <1>9, FillSteps
  <2>2. os[Len(orders) + 1] = o
    BY LiquidationOrderType DEF TypeOK
  <2>3. /\ o.sym = s /\ o.qty = Abs(pos[s].qty)
        /\ o.side = (IF pos[s].qty > 0 THEN "SELL" ELSE "BUY")
    BY DEF LiquidationOrder
  <2>4. UNCHANGED <<market, unpaid>> /\ phase = "liquidating" /\ s \in Closable
        /\ phase' = IF Closable = {s} THEN "idle" ELSE "liquidating"
    BY <1>9 DEF LiquidatePosition
  <2>5. /\ pos'[s].qty = 0 /\ \A r \in Symbols \ {s} : pos'[r] = pos[r]
    BY <1>9, LiquidationCloses
  <2>6. Closable' = Closable \ {s}
    BY <2>4, <2>5 DEF Closable
  <2> HIDE DEF o, os
  <2>7. Ledger!Traded /\ t.sym = s /\ t.price = market[s].mark
        /\ t.qty = o.qty /\ t.side = o.side
    BY <2>1, <2>2, <2>3, <2>4, FillIsTraded
  <2> HIDE DEF t
  <2>8. t.qty = Ledger!Abs(pos[s].qty) /\ Ledger!Opposes(t.side, pos[s].qty)
    <3>1. pos[s].qty # 0 /\ pos[s].qty \in Int
      BY <2>4, SymbolTypes DEF Closable
    <3> QED
      BY <2>3, <2>7, <3>1 DEF Ledger!Abs, Abs, Ledger!Opposes
  <2>9. (phase = "liquidating")' = ((Ledger!Priced)' # {})
    BY <2>4, <2>6, SamePriced
  <2> QED
    BY <2>4, <2>7, <2>8, <2>9, SamePriced DEF Ledger!CloseOut, t
<1>10. ASSUME ApplyFunding PROVE Ledger!StartFunding
  BY <1>10, SamePriced DEF ApplyFunding, Closable, Ledger!StartFunding, Ledger!Open,
      Ledger!totals,
     Ledger!feed, LoopsApart, book, money
<1>11. ASSUME NEW s \in Symbols, FundPosition(s) PROVE Ledger!Settle(s)
  BY <1>11 DEF FundPosition, Ledger!Settle, Ledger!feed, book
<1>12. ASSUME NEW delta \in Transfers, AdjustWalletBalance(delta) PROVE Ledger!Transfer
  <2>1. delta \in Int /\ wallet \in Int /\ Equity \in Int /\ InitialMargin \in Int
    BY TransfersAssumption, SumsAreInts DEF TypeOK
  <2>2. wallet' = wallet + delta /\ AvailableBalance >= -delta
    BY <1>12 DEF AdjustWalletBalance
  <2>3. wallet' < wallet => Equity + (wallet' - wallet) >= InitialMargin
    BY <2>1, <2>2 DEF AvailableBalance
  <2> QED
    BY <1>12, <2>3, SameSums
    DEF AdjustWalletBalance, Ledger!Transfer, Ledger!Open, Ledger!feed, LoopsApart,
        book, loop
<1>13. ASSUME NEW balance, ResetAccount(balance) PROVE Ledger!Reset
  BY <1>13 DEF ResetAccount, Ledger!Reset, Ledger!Open, Ledger!feed, LoopsApart, loop,
      Flat, Ledger!Flat
<1>14. ASSUME UNCHANGED vars PROVE UNCHANGED Ledger!vars
  BY <1>0, <1>14 DEF vars, book, loop
<1> QED
  BY <1>1, <1>3, <1>4, <1>5, <1>6, <1>7, <1>8, <1>9, <1>10, <1>11, <1>12, <1>13, <1>14
  DEF Next, LoopStep, Ledger!Next

\* The broker is an account: however its orders, its matching, its liquidation
\* and its funding loops interleave, an observer of the fills, the positions and
\* the wallet sees only trades, sweeps, close-outs, transfers and resets, each
\* where an account allows it.
THEOREM LedgerImplemented == Spec => ImplementsLedger
<1>1. Init => Ledger!Init
  BY DEF Init, Ledger!Init, NoMarket, Flat, Ledger!Flat, Else, Mid
<1>2. Init => LoopsApart
  BY DEF Init, LoopsApart
<1>3. TypeOK /\ LoopsApart /\ [Next]_vars => [Ledger!Next]_(Ledger!vars)
  BY StepIsLedgerStep
<1> QED
  BY <1>1, <1>2, <1>3, LoopsStep, TypeCorrect, PTL DEF Spec, ImplementsLedger, Ledger!Spec
=============================================================================
