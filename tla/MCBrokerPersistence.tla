------------------------ MODULE MCBrokerPersistence ------------------------
(* Instances of BrokerPersistence for TLC.                                  *)
EXTENDS BrokerPersistence

Order(side, type, q, reduceOnly) ==
  [side |-> side, type |-> type, qty |-> q, reduceOnly |-> reduceOnly]

\* Opens, reduces, flips and protects a position.
AllCommands ==
  { Order("BUY", "MARKET", 1, FALSE),
    Order("SELL", "LIMIT", 2, FALSE),
    Order("SELL", "STOP_MARKET", 1, TRUE),
    Order("BUY", "STOP_MARKET", 1, TRUE) }

\* Without the short side's bracket, for the longest runs.
SomeCommands == AllCommands \ {Order("BUY", "STOP_MARKET", 1, TRUE)}
\* An order crosses the spread.
Spread == [side \in Sides |-> IF side = "BUY" THEN {12} ELSE {10}]

Payments == {-3}
=============================================================================
