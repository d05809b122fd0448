--------------------------- MODULE AccountLedger ---------------------------
(***************************************************************************)
(* What the paper broker promises of a margin account, without its orders, *)
(* its book, its risk checks and its loops: a statement of trades, a netted *)
(* position per instrument, and a wallet that only trades, funding, a      *)
(* withdrawal of unpledged money or a reset may move.  PaperBroker         *)
(* implements it (PaperBroker!ImplementsLedger).                           *)
(***************************************************************************)
EXTENDS Netting, Sequences, Functions

CONSTANTS
  Symbols,
  StartingUsdt,
  MaintRate             \* maintenance margin per MoneyScale of notional

VARIABLES
  trades,               \* the statement, oldest first
  pos, wallet,
  fees, funding, realized,
  mark,                 \* the mark price, 0 if there is none yet
  value,                \* the price a position is valued at, 0 for its entry
  rate,                 \* the funding rate
  due,                  \* positions a funding sweep has yet to settle
  frozen                \* the account is being liquidated

totals == <<wallet, fees, funding, realized>>
feed   == <<mark, value, rate>>
vars   == <<trades, pos, totals, feed, due, frozen>>

Price(s) == IF value[s] # 0 THEN value[s] ELSE pos[s].entry
Worth(s) == Abs(pos[s].qty) * Price(s)

Total(f) == SumFunctionOnSet(f, Symbols)
Equity ==
  wallet + Total([s \in Symbols |-> MoneyScale * pos[s].qty * (Price(s) - pos[s].entry)])
Pledged == Total([s \in Symbols |-> (MoneyScale * Worth(s)) \div pos[s].lev])
Maintenance == Total([s \in Symbols |-> MaintRate * Worth(s)])

\* The open positions that have a price to be settled at.
Priced == {s \in Symbols : pos[s].qty # 0 /\ mark[s] # 0}

Flat == [qty |-> 0, entry |-> 0, lev |-> 1]
-----------------------------------------------------------------------------
Init ==
  /\ trades = <<>>
  /\ pos = [s \in Symbols |-> Flat]
  /\ wallet = StartingUsdt /\ fees = 0 /\ funding = 0 /\ realized = 0
  /\ mark = [s \in Symbols |-> 0] /\ value = mark /\ rate = mark
  /\ due = {} /\ frozen = FALSE

Open == ~frozen /\ due = {}

\* One trade is added to the statement, and the position, the wallet and the
\* totals move with it.
Traded ==
  LET t == trades'[Len(trades')]
      o == [side |-> t.side, qty |-> t.qty, lev |-> pos'[t.sym].lev]
      pnl == Realized(pos[t.sym], o, t.price)
  IN  /\ trades' # <<>> /\ trades' = Append(trades, t)
      /\ pos' = [pos EXCEPT ![t.sym] = Netted(@, o, t.price)]
      /\ wallet' = wallet - t.fee + pnl
      /\ fees' = fees + t.fee /\ realized' = realized + pnl
      /\ UNCHANGED <<funding, feed, due>>

Trade == Open /\ Traded /\ UNCHANGED frozen

\* An account is frozen only when its equity no longer covers the maintenance
\* margin, and then trades only to close what can be closed, at the mark.
Freeze ==
  /\ Open /\ Priced # {}
  /\ Maintenance > 0 /\ Equity <= Maintenance
  /\ frozen' = TRUE
  /\ UNCHANGED <<trades, pos, totals, feed, due>>

CloseOut ==
  /\ frozen
  /\ Traded
  /\ LET t == trades'[Len(trades')] IN
     /\ t.sym \in Priced /\ t.price = mark[t.sym]
     /\ t.qty = Abs(pos[t.sym].qty) /\ Opposes(t.side, pos[t.sym].qty)
  /\ frozen' = (Priced' # {})

\* A sweep settles every open position that has a rate, each once.
StartFunding ==
  /\ Open
  /\ due' = {s \in Priced : rate[s] # 0} /\ due' # {}
  /\ UNCHANGED <<trades, pos, totals, feed, frozen>>

Settle(s) ==
  LET payment == pos[s].qty * mark[s] * rate[s] IN
  /\ s \in due
  /\ due' = due \ {s}
  /\ wallet' = wallet - payment /\ funding' = funding + payment
  /\ UNCHANGED <<trades, pos, fees, realized, feed, frozen>>

\* Only what is not pledged as margin leaves the wallet.
Transfer ==
  /\ Open
  /\ wallet' < wallet => Equity + (wallet' - wallet) >= Pledged
  /\ UNCHANGED <<trades, pos, fees, funding, realized, feed, due, frozen>>

Reset ==
  /\ Open
  /\ trades' = <<>>
  /\ pos' = [s \in Symbols |-> Flat]
  /\ fees' = 0 /\ funding' = 0 /\ realized' = 0
  /\ UNCHANGED <<feed, due, frozen>>

Quote == Open /\ UNCHANGED <<trades, pos, totals, due, frozen>>

Next ==
  \/ Trade \/ Freeze \/ CloseOut
  \/ StartFunding \/ \E s \in Symbols : Settle(s)
  \/ Transfer \/ Reset \/ Quote

Spec == Init /\ [][Next]_vars

\* A sweep settles and a liquidation ends.
Live == (due # {} ~> due = {}) /\ (frozen ~> ~frozen)
=============================================================================
