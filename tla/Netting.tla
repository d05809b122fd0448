------------------------------ MODULE Netting ------------------------------
(* What a fill makes of a netted position: applyPositionFill of              *)
(* src/broker/PaperBroker.ts.  A position has a signed quantity, an entry     *)
(* price and a leverage; an order a side, a quantity and a leverage.          *)
EXTENDS Integers

CONSTANT MoneyScale   \* money units per price unit x quantity step

Sides == {"BUY", "SELL"}

Abs(n)  == IF n < 0 THEN -n ELSE n
Sign(n) == IF n < 0 THEN -1 ELSE IF n = 0 THEN 0 ELSE 1
Least(a, b) == IF a < b THEN a ELSE b

Signed(side, q) == IF side = "BUY" THEN q ELSE -q
Opposes(side, q) == IF side = "BUY" THEN q < 0 ELSE q > 0

\* A quotient of naturals rounded half up, as Decimal.toFixed does.
Rounded(n, d) == (2 * n + d) \div (2 * d)

\* The fill ends the exposure the position had: it closes or flips it.
Ends(p, o) == Opposes(o.side, p.qty) /\ o.qty >= Abs(p.qty)

Netted_KeepsEntry(p, o, price) ==
  [qty |-> p.qty + Signed(o.side, o.qty), lev |-> o.lev,
   entry |-> IF p.qty = 0 THEN price ELSE p.entry]

\* applyPositionFill: what a fill of o at price makes of position p.
Netted(p, o, price) ==
  LET new == p.qty + Signed(o.side, o.qty)
      fresh == [qty |-> new, entry |-> price, lev |-> o.lev]
  IN  CASE p.qty = 0                               -> fresh
        [] p.qty # 0 /\ Ends(p, o) /\ new = 0      -> [p EXCEPT !.qty = 0, !.entry = 0]
        [] p.qty # 0 /\ Ends(p, o) /\ new # 0      -> fresh
        [] Opposes(o.side, p.qty) /\ ~Ends(p, o)   -> [p EXCEPT !.qty = new]
        [] p.qty # 0 /\ ~Opposes(o.side, p.qty)    ->
             [fresh EXCEPT !.entry =
                Rounded(Abs(p.qty) * p.entry + o.qty * price, Abs(new))]

Realized_WholeOrder(p, o, price) ==
  IF Opposes(o.side, p.qty)
  THEN MoneyScale * o.qty * (price - p.entry) * Sign(p.qty)
  ELSE 0

\* applyPositionFill: the PnL the fill realizes.
Realized(p, o, price) ==
  IF Opposes(o.side, p.qty)
  THEN MoneyScale * Least(o.qty, Abs(p.qty)) * (price - p.entry) * Sign(p.qty)
  ELSE 0
=============================================================================
