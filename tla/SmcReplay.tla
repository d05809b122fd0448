------------------------------- MODULE SmcReplay -------------------------------
(***************************************************************************)
(* SmcPaperBroker (src/broker/paper), the candle-driven broker of the      *)
(* replay: limit entries, a stop and three partial take profits for each,  *)
(* the move to break even, isolated liquidation, funding, and the ledger   *)
(* of trades, as ReplayEngine drives them over one symbol.                 *)
(*                                                                         *)
(* Longs only: a short is the same with prices negated.  Prices are whole  *)
(* steps; money counts 1/(Leverage * Scale), in which margin, PnL and fees *)
(* are exact.  Quantities are lots of 0.001, what toFixed(3) keeps.        *)
(*                                                                         *)
(* A definition with an underscore in its name is a plausible slip in the  *)
(* definition it is named after: no action uses it.                        *)
(***************************************************************************)
EXTENDS Integers, Sequences, SequencesExt, FiniteSetsExt

CONSTANTS
  Signals,              \* keys of the signals the replay comes up with
  Plan,                 \* of a signal: lots, entry, stop, targets
  ReplayCandles,        \* open, high, low, close, volume
  FundingRates,         \* in the unit of Fee
  Leverage, Scale, Fee, \* a fee is Fee of price times lots
  Maintenance,          \* maintenance margin, per mille
  BreakevenOffset,      \* of the stop from the entry, in steps
  MaxFundings           \* bound: funding payments since a reset

ASSUME ReplayAssumption ==
  /\ Leverage \in Nat \ {0} /\ Scale \in Nat \ {0} /\ Fee \in Nat
  /\ Maintenance \in 0..999 /\ BreakevenOffset \in Nat /\ MaxFundings \in Nat
  /\ Plan \in [Signals -> [lots: Nat, entry: Nat, stop: Nat, targets: [1..3 -> Nat]]]
  /\ ReplayCandles \subseteq [open: Nat, high: Nat, low: Nat, close: Nat, volume: Nat]
  /\ FundingRates \subseteq Int

VARIABLE
  replay                \* orders (entries, in order of submission), pos, by the
                        \* signal each came from; used: keys submitted; now: the
                        \* symbol's entry of the positions map; balance, from 0;
                        \* ledger, by signal; fundings: bound

Levels == 1..3
NoPosition == "none"
SmcFresh == [orders |-> <<>>, used |-> {}, pos |-> <<>>, now |-> NoPosition,
             balance |-> 0, ledger |-> <<>>, fundings |-> 0]

Tracks(b) == DOMAIN b.pos
Live(b) == b.now # NoPosition /\ b.pos[b.now].open
With(f, s, v) == [x \in DOMAIN f \union {s} |-> IF x = s THEN v ELSE f[x]]

FeeOf(price, lots) == Fee * price * lots
Gain(p, price, lots) == Leverage * Scale * (price - p.entry) * lots
UsedMargin(p) == Scale * p.entry * p.left
-----------------------------------------------------------------------------
(* PaperFillEngine: the lots a candle fills, at its open when it gaps *)

FillLots(lots, c) == IF c.volume > 0 THEN Min({lots, c.volume}) ELSE lots
LimitHit(price, c) == c.low <= price
StopHit(price, c) == c.low <= price
TargetHit(price, c) == c.high >= price
BuyPrice(price, c) == Min({price, c.open})
StopPrice(price, c) == Min({price, c.open})
TargetPrice(price, c) == Max({price, c.open})
-----------------------------------------------------------------------------
(* Exits of the open position, PaperPositionManager and PaperLedger *)

\* Thirds, as buildAllocations splits and toFixed(3) rounds them.
TargetLots(lots, level) == (lots * (IF level = 3 THEN 34 ELSE 33) + 50) \div 100

\* updateTradeProgress and finalizeTrade copy the position to its record.
Booked(b, s) ==
  LET p == b.pos[s]
  IN  [b EXCEPT !.ledger = With(@, s, [open |-> p.open, gross |-> p.realized, fees |-> p.fees])]

\* applyPartialClose, with the fee and the profit taken to the account.
PartialClose(b, s, price, lots) ==
  LET p == b.pos[s]
      closed == Min({p.left, lots})
  IN  [b EXCEPT !.balance = @ + Gain(p, price, closed) - FeeOf(price, lots),
                !.pos = With(@, s, [p EXCEPT !.left = @ - closed,
                   !.realized = @ + Gain(p, price, closed),
                   !.fees = @ + FeeOf(price, lots),
                   !.open = p.left > closed])]

\* margin + PnL - fees = maintenance, solved for the price at the opening.
LiquidationPriceReached(p, price) ==
  price * Leverage * Scale * p.initial * (1000 - Maintenance) <=
    1000 * (Leverage * Scale * p.entry * p.initial + p.entryFee - Scale * p.entry * p.initial)

Liquidate_Overwrites(b, s) ==
  LET p == b.pos[s]
  IN  Booked([b EXCEPT !.balance = @ - UsedMargin(p),
                !.pos = With(@, s, [p EXCEPT !.open = FALSE, !.realized = -UsedMargin(p),
                                             !.targets = {}])], s)
\* The margin still used is a realized loss, on top of what partial closes made.
Liquidate(b, s) ==
  LET p == b.pos[s]
  IN  Booked([b EXCEPT !.balance = @ - UsedMargin(p),
                !.pos = With(@, s, [p EXCEPT !.open = FALSE, !.realized = @ - UsedMargin(p),
                                             !.targets = {}])], s)

\* The stop closes the trade whatever is left of it.
StopOut(b, s, c) ==
  LET p == b.pos[s]
      after == PartialClose(b, s, StopPrice(p.stop, c), FillLots(p.stopLots, c))
      q == [after.pos[s] EXCEPT !.open = FALSE, !.stopLots = 0, !.targets = {}]
  IN  Booked([after EXCEPT !.pos = With(@, s, q)], s)

\* The target is gone; the stop is resized to what is left, and moved to break
\* even by the first.
AfterTarget(p, l) ==
  LET resized == IF ~p.open THEN p
                 ELSE [p EXCEPT !.stopLots = p.left,
                                !.stop = IF l = 1 THEN Max({@, p.entry + BreakevenOffset}) ELSE @]
  IN  [resized EXCEPT !.targets = @ \ {l}]

\* A target of level l, if it still rests and the candle reaches it.
TakeProfit(b, s, l, c) ==
  LET p == b.pos[s]
      want == TargetLots(p.initial, l)
      after == PartialClose(b, s, TargetPrice(Plan[s].targets[l], c), FillLots(want, c))
      q == AfterTarget(after.pos[s], l)
      done == [after EXCEPT !.pos = With(@, s, q)]
  IN  IF l \notin p.targets \/ want = 0 \/ ~TargetHit(Plan[s].targets[l], c) THEN b
      ELSE IF q.open THEN done ELSE Booked(done, s)

\* processOpenPosition: the close decides on liquidation, before the stop.
Exits(b, c) ==
  LET s == b.now
      m == [b EXCEPT !.pos = With(@, s, [b.pos[s] EXCEPT !.mark = c.close])]
  IN  IF ~Live(b) THEN b
      ELSE IF LiquidationPriceReached(m.pos[s], c.close) THEN Liquidate(m, s)
      ELSE IF StopHit(m.pos[s].stop, c) THEN StopOut(m, s, c)
      ELSE LET first == TakeProfit(m, s, 1, c)
               second == TakeProfit(first, s, 2, c)
           IN  Booked(TakeProfit(second, s, 3, c), s)
-----------------------------------------------------------------------------
(* Entries *)

\* executeEntryFill: the fill makes a position and its exits, and the positions
\* map holds it in place of the one that was there.
Enter(b, s, c) ==
  LET price == BuyPrice(Plan[s].entry, c)
      lots == FillLots(Plan[s].lots, c)
      p == [open |-> TRUE, mark |-> price, entry |-> price, initial |-> lots, left |-> lots,
            entryFee |-> FeeOf(price, lots), fees |-> FeeOf(price, lots), realized |-> 0,
            stop |-> Plan[s].stop, stopLots |-> lots, targets |-> Levels]
  IN  Booked([b EXCEPT !.orders = RemoveFirst(@, s),
                       !.pos = With(@, s, p), !.now = s,
                       !.balance = @ - FeeOf(price, lots)], s)

\* Those the candle reaches, in the order of their submission.
Entries(b, c) ==
  LET after[n \in 0..Len(b.orders)] ==
        IF n = 0 THEN b
        ELSE IF LimitHit(Plan[b.orders[n]].entry, c) THEN Enter(after[n - 1], b.orders[n], c)
        ELSE after[n - 1]
  IN  after[Len(b.orders)]
-----------------------------------------------------------------------------
(* The operations *)

SmcInit == replay = SmcFresh

\* submitTradeSignal; the replay's intents and this check let a key through once.
SubmitTradeSignal(s) ==
  /\ s \notin replay.used
  /\ replay' = [replay EXCEPT !.orders = Append(@, s), !.used = @ \union {s}]

\* cancelSignalOrder
CancelSignalOrder(s) ==
  /\ s \in ToSet(replay.orders)
  /\ replay' = [replay EXCEPT !.orders = RemoveFirst(@, s)]

\* processCandle, of any interval: exits of the position, then pending entries.
ProcessCandle(c) == replay' = Entries(Exits(replay, c), c)

\* processFunding: a long pays a positive rate, on its mark.
ProcessFunding(rate) ==
  /\ Live(replay) /\ replay.fundings < MaxFundings
  /\ LET p == replay.pos[replay.now]
         due == -rate * p.mark * p.left
     IN  replay' = [replay EXCEPT !.balance = @ + due,
                      !.pos = With(@, replay.now, [p EXCEPT !.realized = @ + due]),
                      !.fundings = @ + 1]

SmcReset == replay' = SmcFresh

SmcNext ==
  \/ \E s \in Signals : SubmitTradeSignal(s) \/ CancelSignalOrder(s)
  \/ \E c \in ReplayCandles : ProcessCandle(c)
  \/ \E rate \in FundingRates : ProcessFunding(rate)
  \/ SmcReset

SmcSpec == SmcInit /\ [][SmcNext]_replay
-----------------------------------------------------------------------------
(* Properties *)

\* The state has its type; what is tracked was submitted, and is in the ledger.
SmcTypeOK ==
  /\ replay.used \subseteq Signals /\ ToSet(replay.orders) \subseteq replay.used
  /\ Tracks(replay) \subseteq replay.used \ ToSet(replay.orders)
  /\ DOMAIN replay.ledger = Tracks(replay)
  /\ replay.now \in Tracks(replay) \union {NoPosition}
  /\ replay.balance \in Int
  /\ \A s \in Tracks(replay) : replay.pos[s].left \in 0..replay.pos[s].initial

SumOver(S, value(_)) == FoldSet(LAMBDA s, sum : sum + value(s), 0, S)

\* Over partial fills, gaps, three targets and a stop in one candle, liquidation of
\* what is left, funding, and positions that a later entry has pushed out of the
\* map: the account holds exactly what the positions realized less their fees, a
\* closed trade's record is its position's, and the stop of the live position is
\* for all that is left of it and no more.
ReplayBooksAgree ==
  /\ replay.balance = SumOver(Tracks(replay),
       LAMBDA s : replay.pos[s].realized - replay.pos[s].fees)
  /\ \A s \in Tracks(replay) : ~replay.pos[s].open =>
       replay.ledger[s] = [open |-> FALSE, gross |-> replay.pos[s].realized,
                           fees |-> replay.pos[s].fees]
  /\ Live(replay) => replay.pos[replay.now].stopLots = replay.pos[replay.now].left
=============================================================================
