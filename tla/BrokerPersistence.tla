------------------------- MODULE BrokerPersistence -------------------------
(***************************************************************************)
(* What PaperBroker keeps in SQLite, and what a restart makes of it.       *)
(*                                                                         *)
(* A broker method changes memory and, on its way, runs its persister's    *)
(* statements one by one; no transaction groups them.  An action is a      *)
(* whole method: it changes memory and queues in "writes", in code order,  *)
(* the statements it runs.  Write runs the next one.  Restart may fall     *)
(* between any two: the process dies, and the constructor rebuilds the     *)
(* broker from the rows there are.  A method is synchronous, so no other   *)
(* starts before its last statement.                                       *)
(*                                                                         *)
(* Of PaperBroker this keeps one instrument and leaves prices, risk limits *)
(* and order types to chance: an order may be accepted or not, trade at    *)
(* once or rest, and a position may be liquidated at any moment.  Rows     *)
(* nothing reads back into the broker (events, ledger_entries,             *)
(* transactions) are left out.  Statements commit in order (WAL), so the   *)
(* store after a crash is the one a prefix of them made.                   *)
(*                                                                         *)
(* As in PaperBroker, a name with an underscore is a plausible slip in the *)
(* definition it is named after, which no action uses.                     *)
(***************************************************************************)
EXTENDS Netting, Integers, Sequences, FiniteSets, FiniteSetsExt, Functions

CONSTANTS
  Commands,        \* the order commands its callers may submit
  Prices,          \* per side, the prices an order may trade at
  FeeRate,         \* fee per price unit x step, in money units
  FundingRates,    \* the payments of one funding sweep, per unit of quantity
  TransferAmounts, \* amounts moved between the FUTURES and the SPOT wallet
  ResetBalances,   \* the starting balances of resetAccount
  StartingUsdt,    \* env.PAPER_STARTING_USDT, the same at every start
  MaxOrders,       \* bound: orders ever created
  MaxFundings,     \* bound: funding payments since a reset
  MaxSpot,         \* bound: what the SPOT wallet may hold
  MaxRestarts      \* bound: restarts

OrderTypes == {"MARKET", "LIMIT", "STOP_MARKET"}
Command == [side: Sides, type: OrderTypes, qty: Nat \ {0}, reduceOnly: BOOLEAN]

ASSUME CommandsAssumption == Commands \subseteq Command
ASSUME PricesAssumption == Prices \in [Sides -> SUBSET (Nat \ {0})]
ASSUME MoneyAssumption ==
  /\ MoneyScale \in Nat \ {0} /\ FeeRate \in Nat /\ FundingRates \subseteq Int
  /\ TransferAmounts \subseteq Nat \ {0}
  /\ ResetBalances \subseteq Int /\ StartingUsdt \in Int
ASSUME BoundsAssumption == {MaxOrders, MaxFundings, MaxSpot, MaxRestarts} \subseteq Nat

VARIABLES
  orders,      \* this.orders: order id -> order
  pos,         \* this.positions of the instrument
  fills,       \* this.fills
  funding,     \* the funding payments this.totalFunding is the sum of
  wallet,      \* this.walletBalance
  rows,        \* the tables: orders, position, fills, funding, spot
  writes,      \* the statements the running method has yet to run
  created,     \* orders ever created; an order's id is its number
  cleared,     \* orders created before the last reset
  unsaved,     \* change of wallet since the last start that no row accounts for
  restarts,    \* restarts so far
  torn         \* those that cut a method short

memory == <<orders, pos, fills, funding, wallet>>
vars == <<memory, rows, writes, created, cleared, unsaved, restarts, torn>>
-----------------------------------------------------------------------------
(* The statements of SQLiteBrokerPersister *)

SaveOrder(i, o)  == [table |-> "orders", id |-> i, row |-> o]
SavePosition(p)  == [table |-> "positions", id |-> 0, row |-> p]
SaveFill(f)      == [table |-> "fills", id |-> 0, row |-> f]
SaveFunding(x)   == [table |-> "funding_payments", id |-> 0, row |-> x]
MoveSpot(x)      == [table |-> "wallets", id |-> 0, row |-> x]
Flat == [qty |-> 0, entry |-> 0, lev |-> 1]
Resting(o) == o.status = "NEW"
Canceled(o) == IF Resting(o) THEN [o EXCEPT !.status = "CANCELED"] ELSE o

NoRows == [orders |-> <<>>, position |-> Flat, fills |-> <<>>, funding |-> <<>>,
           spot |-> 0]

\* A Map or a table f after x is stored under i.
With(f, i, x) == [j \in DOMAIN f \union {i} |-> IF j = i THEN x ELSE f[j]]

\* The ids of a set in the order of the Map, which is that of their creation.
InOrder(ids) ==
  LET n == Cardinality(ids) IN
  CHOOSE s \in [1..n -> ids] : Range(s) = ids /\ \A j, k \in 1..n : j < k => s[j] < s[k]

\* resetAccountData deletes the rows of a table, but keeps the orders.
ResetRows == [k \in 1..4 |->
  [table |-> "reset", id |-> 0,
   row |-> <<"position", "orders", "fills", "funding">>[k]]]

AfterReset_KeepsFunding(r, table) ==
  IF table \in {"orders", "funding"}
  THEN [r EXCEPT !.orders = [i \in DOMAIN @ |-> Canceled(@[i])]]
  ELSE [r EXCEPT ![table] = NoRows[table]]
AfterReset(r, table) ==
  IF table = "orders"
  THEN [r EXCEPT !.orders = [i \in DOMAIN @ |-> Canceled(@[i])]]
  ELSE [r EXCEPT ![table] = NoRows[table]]

\* The tables after statement w.
After(r, w) ==
  CASE w.table = "orders"    -> [r EXCEPT !.orders = With(@, w.id, w.row)]
    [] w.table = "positions" -> [r EXCEPT !.position = w.row]
    [] w.table = "fills"     -> [r EXCEPT !.fills = Append(@, w.row)]
    [] w.table = "funding_payments" -> [r EXCEPT !.funding = Append(@, w.row)]
    [] w.table = "wallets"   -> [r EXCEPT !.spot = @ + w.row]
    [] w.table = "reset"     -> AfterReset(r, w.row)
-----------------------------------------------------------------------------
(* What the constructor rebuilds *)

Sum(seq) == SumFunctionOnSet(seq, DOMAIN seq)

\* loadOpenOrders
RestoredOrders(r) ==
  [i \in {j \in DOMAIN r.orders : Resting(r.orders[j])} |-> r.orders[i]]

RestoredPosition_LongOnly(r) == IF r.position.qty > 0 THEN r.position ELSE Flat
\* loadOpenPositions
RestoredPosition(r) == IF r.position.qty # 0 THEN r.position ELSE Flat

\* startingUsdt + realized PnL - fees - funding
RestoredWallet(r) ==
  StartingUsdt + Sum([k \in DOMAIN r.fills |-> r.fills[k].pnl - r.fills[k].fee])
               - Sum(r.funding)
-----------------------------------------------------------------------------
Init ==
  /\ orders = <<>> /\ pos = Flat /\ fills = <<>> /\ funding = <<>>
  /\ wallet = StartingUsdt
  /\ rows = NoRows /\ writes = <<>>
  /\ created = 0 /\ cleared = 0
  /\ unsaved = 0
  /\ restarts = 0 /\ torn = 0
-----------------------------------------------------------------------------
(* Fills: executeFill and the end of fillOrder or of checkLiquidation *)

FillOf(i, o, price) ==
  [order |-> i, fee |-> o.qty * price * FeeRate, pnl |-> Realized(pos, o, price),
   before |-> pos.qty, after |-> pos.qty + Signed(o.side, o.qty)]

\* The brackets cancelStaleBracketOrders cancels, in the order of the Map.
Bracket(o) == o.reduceOnly /\ o.type = "STOP_MARKET"
StaleBrackets(os, o) ==
  IF Ends(pos, o)
  THEN InOrder({j \in DOMAIN os : Resting(os[j]) /\ Bracket(os[j])})
  ELSE <<>>

CancelRows_MemoryOnly(os, ids) == <<>>
CancelRows(os, ids) == [k \in DOMAIN ids |-> SaveOrder(ids[k], Canceled(os[ids[k]]))]
Filled(o) == [o EXCEPT !.status = "FILLED"]

FillRows_FilledFirst(os, i, price) ==
  LET after == Netted(pos, os[i], price) IN
  <<SavePosition(after)>> \o CancelRows(os, StaleBrackets(os, os[i]))
  \o <<SavePosition(after), SaveOrder(i, Filled(os[i])),
       SaveFill(FillOf(i, os[i], price))>>

\* emitPositionEvent saves the position; the stale brackets are canceled; then
\* executeFill saves the position again and the fill, emitOrderEvent the order.
FillRows(os, i, price) ==
  LET after == Netted(pos, os[i], price) IN
  <<SavePosition(after)>> \o CancelRows(os, StaleBrackets(os, os[i]))
  \o <<SavePosition(after), SaveFill(FillOf(i, os[i], price)),
       SaveOrder(i, Filled(os[i]))>>

\* Order i of os fills, after the statements "first" of the same method.
FillOrder(os, i, price, first) ==
  LET f == FillOf(i, os[i], price)
      stale == Range(StaleBrackets(os, os[i]))
  IN  /\ orders' = [j \in DOMAIN os |->
                      IF j = i THEN Filled(os[j])
                      ELSE IF j \in stale THEN Canceled(os[j]) ELSE os[j]]
      /\ pos' = Netted(pos, os[i], price)
      /\ fills' = Append(fills, f)
      /\ wallet' = wallet - f.fee + f.pnl
      /\ writes' = first \o FillRows(os, i, price)
      /\ UNCHANGED <<funding, rows, cleared, unsaved, restarts, torn>>
-----------------------------------------------------------------------------
(* Methods of the broker *)

\* The last method has run all its statements.
Idle == writes = <<>>

NewOrder_SignedClamp(c) ==
  [side |-> c.side, type |-> c.type, reduceOnly |-> c.reduceOnly, lev |-> 1,
   qty |-> IF c.reduceOnly THEN Least(c.qty, pos.qty) ELSE c.qty,
   status |-> "NEW"]
NewOrder(c) ==
  [side |-> c.side, type |-> c.type, reduceOnly |-> c.reduceOnly, lev |-> 1,
   qty |-> IF c.reduceOnly THEN Least(c.qty, Abs(pos.qty)) ELSE c.qty,
   status |-> "NEW"]

\* checkOrderRisk may accept the order: only what every acceptance needs.
Acceptable(o) == o.qty > 0 /\ (o.reduceOnly => Opposes(o.side, pos.qty))

\* The statuses other than FILLED in which submitOrder may leave the order.
Outcomes(o) ==
  {"REJECTED"} \union
  (IF ~Acceptable(o) \/ o.type = "MARKET" THEN {}
   ELSE IF o.type = "LIMIT" THEN {"NEW", "CANCELED"} ELSE {"NEW"})

SubmitUnfilled(c) ==
  LET i == created + 1
      o == NewOrder(c)
  IN  /\ Idle /\ created < MaxOrders
      /\ \E status \in Outcomes(o) :
           LET left == [o EXCEPT !.status = status] IN
           /\ orders' = With(orders, i, left)
           /\ writes' = <<SaveOrder(i, o)>>
                        \o (IF status = "NEW" THEN <<>> ELSE <<SaveOrder(i, left)>>)
      /\ created' = i
      /\ UNCHANGED <<pos, fills, funding, wallet, rows, cleared, unsaved,
                     restarts, torn>>

SubmitFilled(c) ==
  LET i == created + 1
      o == NewOrder(c)
  IN  /\ Idle /\ created < MaxOrders /\ Acceptable(o)
      /\ \E price \in Prices[o.side] :
           FillOrder(With(orders, i, o), i, price, <<SaveOrder(i, o)>>)
      /\ created' = i

\* evaluateOpenOrders reaches order i, and the market meets its price.
Matchable(i) == Idle /\ Resting(orders[i]) /\ orders[i].type # "MARKET"

MatchOrder(i) ==
  /\ Matchable(i) /\ orders[i].qty > 0
  /\ \E price \in Prices[orders[i].side] : FillOrder(orders, i, price, <<>>)
  /\ UNCHANGED created

\* fillOrder has nothing to fill: it marks the order and saves nothing.  Only a
\* restart before its rejection was saved makes such an order rest.
MatchEmptyOrder(i) ==
  /\ Matchable(i) /\ orders[i].qty = 0
  /\ orders' = [orders EXCEPT ![i] = Filled(@)]
  /\ UNCHANGED <<pos, fills, funding, wallet, rows, writes, created, cleared,
                 unsaved, restarts, torn>>

\* checkLiquidation: its order has no row until it is FILLED.
Liquidate ==
  LET i == created + 1
      o == [side |-> IF pos.qty > 0 THEN "SELL" ELSE "BUY", type |-> "MARKET",
            reduceOnly |-> TRUE, lev |-> pos.lev, qty |-> Abs(pos.qty),
            status |-> "NEW"]
  IN  /\ Idle /\ created < MaxOrders /\ pos.qty # 0
      /\ \E price \in Prices[o.side] :
           FillOrder(With(orders, i, o), i, price, <<>>)
      /\ created' = i

CancelOrder(i) ==
  /\ Idle /\ Resting(orders[i])
  /\ orders' = [orders EXCEPT ![i] = Canceled(@)]
  /\ writes' = <<SaveOrder(i, Canceled(orders[i]))>>
  /\ UNCHANGED <<pos, fills, funding, wallet, rows, created, cleared,
                 unsaved, restarts, torn>>

ApplyFunding ==
  /\ Idle /\ pos.qty # 0 /\ Len(funding) < MaxFundings
  /\ \E rate \in FundingRates :
       LET payment == pos.qty * rate IN
       /\ wallet' = wallet - payment
       /\ funding' = Append(funding, payment)
       /\ writes' = <<SaveFunding(payment), SavePosition(pos), SavePosition(pos)>>
  /\ UNCHANGED <<orders, pos, fills, rows, created, cleared, unsaved,
                 restarts, torn>>

\* POST /transfers: the SPOT wallet is a row, the FUTURES wallet a variable.
TransferOut(amount) ==
  /\ Idle /\ rows.spot + amount <= MaxSpot
  /\ wallet' = wallet - amount /\ unsaved' = unsaved - amount
  /\ writes' = <<MoveSpot(amount)>>
  /\ UNCHANGED <<orders, pos, fills, funding, rows, created, cleared,
                 restarts, torn>>

\* The row is debited before the variable is credited.
TransferIn(amount) ==
  /\ Idle
  /\ rows.spot >= amount
  /\ wallet' = wallet + amount /\ unsaved' = unsaved + amount
  /\ writes' = <<MoveSpot(-amount)>>
  /\ UNCHANGED <<orders, pos, fills, funding, rows, created, cleared,
                 restarts, torn>>

\* cancelAllOrders, then memory is cleared, then resetAccountData.
ResetAccount(balance) ==
  LET resting == InOrder({i \in DOMAIN orders : Resting(orders[i])}) IN
  /\ Idle
  /\ orders' = <<>> /\ pos' = Flat /\ fills' = <<>> /\ funding' = <<>>
  /\ wallet' = balance
  /\ writes' = CancelRows(orders, resting) \o ResetRows
  /\ cleared' = created
  /\ unsaved' = balance - StartingUsdt
  /\ UNCHANGED <<rows, created, restarts, torn>>
-----------------------------------------------------------------------------
(* The store, and the process *)

Write ==
  /\ writes # <<>>
  /\ rows' = After(rows, Head(writes)) /\ writes' = Tail(writes)
  /\ UNCHANGED <<memory, created, cleared, unsaved, restarts, torn>>

\* The process stops, in the middle of a method or not, and a new one starts.
Restart ==
  /\ restarts < MaxRestarts
  /\ orders' = RestoredOrders(rows) /\ pos' = RestoredPosition(rows)
  /\ fills' = rows.fills /\ funding' = rows.funding
  /\ wallet' = RestoredWallet(rows)
  /\ writes' = <<>> /\ unsaved' = 0
  /\ restarts' = restarts + 1
  /\ torn' = IF Idle THEN torn ELSE torn + 1
  /\ UNCHANGED <<rows, created, cleared>>

Next ==
  \/ \E c \in Commands : SubmitUnfilled(c) \/ SubmitFilled(c)
  \/ \E i \in DOMAIN orders :
       MatchOrder(i) \/ MatchEmptyOrder(i) \/ CancelOrder(i)
  \/ Liquidate
  \/ ApplyFunding
  \/ \E amount \in TransferAmounts : TransferOut(amount) \/ TransferIn(amount)
  \/ \E balance \in ResetBalances : ResetAccount(balance)
  \/ Write
  \/ Restart

Spec == Init /\ [][Next]_vars
-----------------------------------------------------------------------------
(* Properties *)

OrderRecord == [side: Sides, type: OrderTypes, reduceOnly: BOOLEAN, lev: {1},
                qty: Nat, status: {"NEW", "FILLED", "CANCELED", "REJECTED"}]
PositionRecord == [qty: Int, entry: Nat, lev: {1}]
FillRecord == [order: 1..created, fee: Nat, pnl: Int, before: Int, after: Int]

\* The shape of memory and of the tables.
TypeOK ==
  /\ created \in 0..MaxOrders /\ cleared \in 0..created
  /\ DOMAIN orders \subseteq 1..created /\ DOMAIN rows.orders \subseteq 1..created
  /\ \A i \in DOMAIN orders : orders[i] \in OrderRecord
  /\ \A i \in DOMAIN rows.orders : rows.orders[i] \in OrderRecord
  /\ {pos, rows.position} \subseteq PositionRecord
  /\ {fills, rows.fills} \subseteq Seq(FillRecord)
  /\ {funding, rows.funding} \subseteq Seq(Int)
  /\ {wallet, unsaved} \subseteq Int /\ rows.spot \in Nat
  /\ torn \in 0..restarts /\ restarts \in 0..MaxRestarts

\* The orders that rest and have a quantity to trade.
Live(os) == [i \in {j \in DOMAIN os : Resting(os[j]) /\ os[j].qty > 0} |-> os[i]]

\* Between two methods the tables hold all the broker would need to restart as
\* it is, but for the money moved by transfers and resets: the resting orders,
\* the position, the fills and the funding payments, after any number of
\* restarts, even one that cut a reset or a fill short.
RestartIsFaithful ==
  Idle =>
    /\ Live(rows.orders) = Live(orders)
    /\ RestoredPosition(rows) = pos
    /\ rows.fills = fills /\ rows.funding = funding
    /\ RestoredWallet(rows) + unsaved = wallet

\* Where the fill rows do not add up to the position: a fill that does not start
\* where the one before it ended, or a position that is not where the last ended.
Gaps(fs, qty) ==
  LET end(k) == IF k = 0 THEN 0 ELSE fs[k].after IN
  {k \in 1..Len(fs) + 1 :
     (IF k = Len(fs) + 1 THEN qty ELSE fs[k].before) # end(k - 1)}

\* The audit trail explains the position but for one gap per interrupted method,
\* however many statements the method had left.
GapsOnlyFromTornWrites == Idle => Cardinality(Gaps(rows.fills, rows.position.qty)) <= torn

\* Unless a method was cut short, every order in the book can still trade, and
\* every bracket protects the open position, after any number of restarts.
RestartKeepsProtection ==
  torn = 0 =>
    \A i \in DOMAIN orders : Resting(orders[i]) =>
      /\ orders[i].type # "MARKET" /\ orders[i].qty > 0
      /\ Bracket(orders[i]) => Opposes(orders[i].side, pos.qty)

\* docs/paper-broker/09, 1.2: order placement is one transaction, so that no
\* order trades twice.
OneFillPerOrder ==
  \A j, k \in DOMAIN fills : fills[j].order = fills[k].order => j = k

\* docs/paper-broker/06, section 3: a start reconstructs the complete runtime
\* state, so that what the two wallets hold is the money put in and earned.
TransfersConserveMoney ==
  Idle => wallet + rows.spot =
            StartingUsdt + Sum([k \in DOMAIN fills |-> fills[k].pnl - fills[k].fee])
                    - Sum(funding)
=============================================================================
