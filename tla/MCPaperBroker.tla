--------------------------- MODULE MCPaperBroker ---------------------------
(* Instances of PaperBroker for TLC.                                        *)
EXTENDS PaperBroker

CONSTANTS btc, eth

MarketOrder(s, side, q, reduceOnly) ==
  [sym |-> s, side |-> side, type |-> "MARKET", tif |-> "GTC", postOnly |-> FALSE,
   qty |-> q, price |-> 0, reduceOnly |-> reduceOnly, lev |-> 5]

LimitOrder(s, side, q, price) ==
  [MarketOrder(s, side, q, FALSE) EXCEPT !.type = "LIMIT", !.price = price]

Bracket(s, side, type, q, price) ==
  [MarketOrder(s, side, q, TRUE) EXCEPT !.type = type, !.price = price]

\* Two books, 10/20 and 20/30, as MarketState reports a book tick (last is the
\* mid), and mark ticks with their funding rate.
BookTick(s, bid) ==
  [sym |-> s, bid |-> bid, ask |-> bid + 10, last |-> bid + 5, mark |-> 0, rate |-> 0]
MarkTick(s, mark, rate) ==
  [sym |-> s, bid |-> 0, ask |-> 0, last |-> 0, mark |-> mark, rate |-> rate]

-----------------------------------------------------------------------------
(* One instrument: every order type, closes, reductions, flips and brackets *)

CoreCommands ==
  { MarketOrder(btc, "BUY", 2, FALSE),
    MarketOrder(btc, "SELL", 3, FALSE),
    [MarketOrder(btc, "SELL", 1, TRUE) EXCEPT !.lev = 2],
    LimitOrder(btc, "BUY", 1, 20),
    [LimitOrder(btc, "SELL", 2, 20) EXCEPT !.reduceOnly = TRUE],
    [LimitOrder(btc, "BUY", 1, 20) EXCEPT !.tif = "IOC"],
    [LimitOrder(btc, "BUY", 1, 20) EXCEPT !.tif = "FOK", !.postOnly = TRUE],
    Bracket(btc, "SELL", "STOP_MARKET", 2, 10),
    Bracket(btc, "BUY", "TAKE_PROFIT_MARKET", 2, 10) }

CoreTicks == { BookTick(btc, 10), BookTick(btc, 20),
               MarkTick(btc, 10, 1), MarkTick(btc, 30, -1) }
CoreTransfers == {}
CoreResets == {}
CoreSymbols == {btc}
-----------------------------------------------------------------------------
(* Two instruments margined together, one of which may have no mark price *)

CrossCommands ==
  { MarketOrder(btc, "BUY", 2, FALSE),
    MarketOrder(eth, "SELL", 2, FALSE),
    LimitOrder(eth, "BUY", 1, 20) }

CrossTicks == { [BookTick(btc, 20) EXCEPT !.mark = 10, !.rate = 1],
                BookTick(eth, 10), MarkTick(eth, 30, -1) }
CrossTransfers == {-3000}
CrossResets == {4000}
CrossSymbols == {btc, eth}
=============================================================================
