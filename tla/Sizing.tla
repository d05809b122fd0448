------------------------------- MODULE Sizing -------------------------------
(***************************************************************************)
(* The two ways an entry gets its size: SizingEngine, for signals that     *)
(* carry none (src/strategy/SizingEngine.ts), and PositionSizer, for the   *)
(* plans of the SMC agent (src/trading/risk/PositionSizer.ts).             *)
(*                                                                         *)
(* Quantities are whole units of the smallest quantity, prices whole       *)
(* ticks; fractions of equity are per Unit.  0 stands for no quantity: an  *)
(* exception of the first, a failureReason of the second.                  *)
(***************************************************************************)
EXTENDS Integers

CONSTANTS
  Unit,                 \* the denominator of the fractions
  RiskPerTrade,         \* riskPerTrade, with a stop
  FallbackRisk,         \* fallbackRiskPerTrade, without one
  MaxNotional,
  StepSize, MinQty, MaxQty, MinNotional

ASSUME SizingAssumption ==
  /\ Unit \in Nat \ {0} /\ StepSize \in Nat \ {0}
  /\ RiskPerTrade \in Nat /\ FallbackRisk \in Nat /\ MaxNotional \in Nat
  /\ MinQty \in Nat /\ MaxQty \in Nat /\ MinNotional \in Nat

Lesser(a, b) == IF a < b THEN a ELSE b
Distance(a, b) == IF a < b THEN b - a ELSE a - b

\* roundStep: down to a multiple of the step.
RoundStep(q) == (q \div StepSize) * StepSize

\* The quantity whose loss at the stop is the risked fraction of the equity.
AtRisk(equity, fraction, price, stop) ==
  IF price = stop THEN 0
  ELSE (fraction * equity) \div (Unit * Distance(price, stop))

\* SizingEngine.sizePosition; stop 0 for none.
SizePosition(equity, price, stop) ==
  LET wanted == IF stop = 0 THEN (FallbackRisk * equity) \div (Unit * price)
                            ELSE AtRisk(equity, RiskPerTrade, price, stop)
      rounded == RoundStep(Lesser(wanted, MaxNotional \div price))
      qty == IF rounded < MinQty THEN RoundStep(MinQty) ELSE rounded
  IN  IF qty <= 0 \/ qty * price < MinNotional THEN 0 ELSE qty

PositionSize_NoMarginCap(equity, fraction, price, stop, lev) ==
  RoundStep(AtRisk(equity, fraction, price, stop))
\* PositionSizer.calculatePositionSize.
PositionSize(equity, fraction, price, stop, lev) ==
  LET qty == RoundStep(Lesser(AtRisk(equity, fraction, price, stop),
                              (equity * lev) \div price))
  IN  IF \/ equity <= 0 \/ fraction <= 0 \/ fraction > Unit \/ price = stop
         \/ qty < MinQty \/ qty > MaxQty \/ qty * price < MinNotional
      THEN 0 ELSE qty

\* SizingEngine.sizeClose: never more than the position.
SizeClose(held, reduce) == Lesser(Distance(held, 0), reduce)
-----------------------------------------------------------------------------
\* SizingEngine finds the largest multiple of the step that risks no more than
\* its fraction of the equity and costs no more than maxNotional; below the
\* minimum quantity it takes the minimum, whatever that risks.
SizeIsLargestSafe(equity, price, stop) ==
  LET q == SizePosition(equity, price, stop)
      safe(n) == /\ n * price <= MaxNotional
                 /\ IF stop = 0 THEN n * price * Unit <= FallbackRisk * equity
                    ELSE n * Distance(price, stop) * Unit <= RiskPerTrade * equity
                         /\ price # stop
  IN  q # 0 =>
        /\ q % StepSize = 0 /\ q * price >= MinNotional
        /\ ~safe(q + StepSize)
        /\ safe(q) \/ q = RoundStep(MinQty)

\* PositionSizer never sizes a plan beyond its risk or beyond what the equity
\* can margin, and never below the venue's minima.
PositionSizeWithinMeans(equity, fraction, price, stop, lev) ==
  LET q == PositionSize(equity, fraction, price, stop, lev) IN
  q # 0 => /\ q \in MinQty..MaxQty /\ q % StepSize = 0
           /\ q * Distance(price, stop) * Unit <= fraction * equity
           /\ q * price <= equity * lev
=============================================================================
