------------------------- MODULE SignalPipeline_proof -------------------------
(***************************************************************************)
(* Proofs about SignalPipeline: the sizes of entries, for every equity,    *)
(* price and stop, and what concurrent submissions can never do, for every *)
(* set of callers, strategies, plans and offers.                           *)
(***************************************************************************)
EXTENDS SignalPipeline, SequenceTheorems, TLAPS
-----------------------------------------------------------------------------
(* Sizing *)

\* Division of naturals rounds down.
LEMMA DivRoundsDown ==
  ASSUME NEW a \in Nat, NEW d \in Nat \ {0}
  PROVE  a \div d \in Nat /\ (a \div d) * d <= a /\ a < (a \div d) * d + d
OBVIOUS

\* Products of naturals grow with their factors.
LEMMA ProductsGrow ==
  ASSUME NEW m \in Nat, NEW n \in Nat, NEW d \in Nat, m <= n
  PROVE  m * d \in Nat /\ m * d <= n * d
OBVIOUS

\* A natural fits a quotient exactly if its product fits the dividend.
LEMMA FitsQuotient ==
  ASSUME NEW a \in Nat, NEW d \in Nat \ {0}, NEW n \in Nat
  PROVE  n <= a \div d <=> n * d <= a
<1> DEFINE q == a \div d
<1>1. q \in Nat /\ q * d <= a /\ a < q * d + d
  BY DivRoundsDown
<1> HIDE DEF q
<1>2. ASSUME n <= q PROVE n * d <= a
  BY <1>1, <1>2, ProductsGrow
<1>3. ASSUME ~(n <= q) PROVE ~(n * d <= a)
  <2>1. q + 1 <= n /\ (q + 1) * d <= n * d
    BY <1>1, <1>3, ProductsGrow
  <2>2. (q + 1) * d = q * d + d
    BY <1>1
  <2> QED
    BY <1>1, <2>1, <2>2, ProductsGrow
<1> QED
  BY <1>2, <1>3 DEF q

\* roundStep gives the largest multiple of the step that is not above.
LEMMA RoundStepDown ==
  ASSUME NEW q \in Nat
  PROVE  /\ RoundStep(q) \in Nat /\ RoundStep(q) <= q /\ q < RoundStep(q) + StepSize
         /\ RoundStep(q) % StepSize = 0
<1>1. StepSize \in Nat \ {0}
  BY SizingAssumption
<1>2. q \div StepSize \in Nat /\ (q \div StepSize) * StepSize <= q
      /\ q < (q \div StepSize) * StepSize + StepSize
  BY <1>1, DivRoundsDown
<1>3. ((q \div StepSize) * StepSize) % StepSize = 0
  BY <1>1, <1>2
<1> QED
  BY <1>1, <1>2, <1>3, ProductsGrow DEF RoundStep

\* A larger quantity is not rounded to a smaller one.
LEMMA RoundStepMonotone ==
  ASSUME NEW m \in Nat, NEW n \in Nat, m <= n
  PROVE  RoundStep(m) <= RoundStep(n)
<1>1. StepSize \in Nat \ {0}
  BY SizingAssumption
<1>2. m \div StepSize \in Nat /\ n \div StepSize \in Nat /\ m \div StepSize <= n \div StepSize
  <2>1. m \div StepSize \in Nat /\ n \div StepSize \in Nat /\ (m \div StepSize) * StepSize <= m
        /\ (m \div StepSize) * StepSize \in Nat
    BY <1>1, DivRoundsDown, ProductsGrow
  <2>2. (m \div StepSize) * StepSize <= n
    BY <2>1
  <2> QED
    BY <1>1, <2>1, <2>2, FitsQuotient
<1> QED
  BY <1>1, <1>2, ProductsGrow DEF RoundStep
\* A multiple of the step is not rounded any further.
LEMMA RoundStepOnce ==
  ASSUME NEW q \in Nat
  PROVE  RoundStep(RoundStep(q)) = RoundStep(q)
<1>1. StepSize \in Nat \ {0}
  BY SizingAssumption
<1> DEFINE k == q \div StepSize
<1>2. k \in Nat
  BY <1>1, DivRoundsDown
<1> HIDE DEF k
<1>3. (k * StepSize) \div StepSize = k
  BY <1>1, <1>2
<1>4. RoundStep(q) = k * StepSize
  BY DEF RoundStep, k
<1>5. RoundStep(k * StepSize) = k * StepSize
  BY <1>3 DEF RoundStep
<1> QED
  BY <1>4, <1>5

\* The distance of two prices, and the smaller of two quantities.
LEMMA DistanceTyped ==
  ASSUME NEW a \in Int, NEW b \in Int
  PROVE  Distance(a, b) \in Nat /\ (a # b => Distance(a, b) # 0)
BY DEF Distance

LEMMA LesserTyped ==
  ASSUME NEW a \in Nat, NEW b \in Nat
  PROVE  Lesser(a, b) \in Nat /\ \A n \in Nat : n <= Lesser(a, b) <=> n <= a /\ n <= b
BY DEF Lesser

\* What n units lose or cost, written in the order in which the code divides.
LEMMA ProductsCommute ==
  ASSUME NEW n \in Nat, NEW d \in Nat, NEW u \in Nat
  PROVE  n * d * u = n * (u * d) /\ n * (u * d) \in Nat
OBVIOUS

\* A quantity is within its risk exactly if it is at most AtRisk.
LEMMA AtRiskIsLargest ==
  ASSUME NEW equity \in Nat, NEW fraction \in Nat, NEW price \in Nat, NEW stop \in Nat
  PROVE  /\ AtRisk(equity, fraction, price, stop) \in Nat
         /\ price = stop => AtRisk(equity, fraction, price, stop) = 0
         /\ price # stop => \A n \in Nat :
              n <= AtRisk(equity, fraction, price, stop)
                <=> n * Distance(price, stop) * Unit <= fraction * equity
<1>1. CASE price = stop
  BY <1>1 DEF AtRisk
<1>2. CASE price # stop
  <2> DEFINE d == Distance(price, stop)
             risked == fraction * equity
  <2>1. d \in Nat \ {0} /\ Unit \in Nat \ {0} /\ risked \in Nat
    BY <1>2, DistanceTyped, SizingAssumption, ProductsGrow
  <2>2. AtRisk(equity, fraction, price, stop) = risked \div (Unit * d)
    BY <1>2 DEF AtRisk
  <2> HIDE DEF d, risked
  <2>3. Unit * d \in Nat \ {0}
    BY <2>1
  <2>4. risked \div (Unit * d) \in Nat
    BY <2>1, <2>3, DivRoundsDown
  <2>5. ASSUME NEW n \in Nat
        PROVE  n <= risked \div (Unit * d) <=> n * d * Unit <= risked
    BY <2>1, <2>3, FitsQuotient, ProductsCommute
  <2> QED
    BY <1>2, <2>2, <2>4, <2>5 DEF d, risked
<1> QED
  BY <1>1, <1>2

\* SizingEngine.sizePosition gives the largest safe multiple of the step, for every
\* equity, price and stop.
LEMMA LargestSafe ==
  ASSUME NEW equity \in Nat, NEW price \in Nat \ {0}, NEW stop \in Nat
  PROVE  SizePosition(equity, price, stop) \in Nat /\ SizeIsLargestSafe(equity, price, stop)
<1> DEFINE wanted == IF stop = 0 THEN (FallbackRisk * equity) \div (Unit * price)
                     ELSE AtRisk(equity, RiskPerTrade, price, stop)
           lim == Lesser(wanted, MaxNotional \div price)
           r == RoundStep(lim)
           least == RoundStep(MinQty)
           qty == IF r < MinQty THEN least ELSE r
           risky(n) == IF stop = 0 THEN n * price * Unit <= FallbackRisk * equity
                       ELSE n * Distance(price, stop) * Unit <= RiskPerTrade * equity
           safe(n) == n * price <= MaxNotional
                      /\ IF stop = 0 THEN n * price * Unit <= FallbackRisk * equity
                         ELSE n * Distance(price, stop) * Unit <= RiskPerTrade * equity
                              /\ price # stop
<1>1. /\ Unit \in Nat \ {0} /\ StepSize \in Nat \ {0} /\ MinQty \in Nat /\ MinNotional \in Nat
      /\ RiskPerTrade \in Nat /\ FallbackRisk \in Nat /\ MaxNotional \in Nat
  BY SizingAssumption
<1>2. /\ wanted \in Nat
      /\ price = stop => wanted = 0
      /\ price # stop => \A n \in Nat : n <= wanted <=> risky(n)
  <2>1. CASE stop = 0
    <3>1. Unit * price \in Nat \ {0} /\ FallbackRisk * equity \in Nat
      BY <1>1
    <3>2. wanted \in Nat
      BY <2>1, <3>1, DivRoundsDown
    <3>3. \A n \in Nat : n <= wanted <=> n * price * Unit <= FallbackRisk * equity
      BY <1>1, <2>1, <3>1, FitsQuotient, ProductsCommute
    <3> QED
      BY <2>1, <3>2, <3>3
  <2>2. CASE stop # 0
    BY <1>1, <2>2, AtRiskIsLargest
  <2> QED
    BY <2>1, <2>2
<1>3. /\ MaxNotional \div price \in Nat
      /\ \A n \in Nat : n <= MaxNotional \div price <=> n * price <= MaxNotional
  BY <1>1, DivRoundsDown, FitsQuotient
<1> HIDE DEF wanted
<1>4. lim \in Nat /\ \A n \in Nat : n <= lim <=> n <= wanted /\ n <= MaxNotional \div price
  BY <1>2, <1>3, LesserTyped
<1> HIDE DEF lim
<1>5. /\ r \in Nat /\ r <= lim /\ lim < r + StepSize /\ r % StepSize = 0
      /\ least \in Nat /\ least % StepSize = 0
      /\ r < MinQty => r <= least
  <2>1. r \in Nat /\ r <= lim /\ lim < r + StepSize /\ r % StepSize = 0
    BY <1>4, RoundStepDown
  <2>2. least \in Nat /\ least % StepSize = 0
    BY <1>1, RoundStepDown
  <2>3. RoundStep(r) = r
    BY <1>4, RoundStepOnce
  <2>4. r < MinQty => RoundStep(r) <= least
    <3> HIDE DEF r
    <3> QED
      BY <1>1, <2>1, RoundStepMonotone
  <2> QED
    BY <2>1, <2>2, <2>3, <2>4
<1> HIDE DEF r, least
<1>6. qty \in Nat /\ qty % StepSize = 0 /\ lim < qty + StepSize /\ (qty = least \/ qty <= lim)
  BY <1>1, <1>4, <1>5
<1> HIDE DEF qty
<1>7. \A n \in Nat : safe(n) => n <= lim
  <2> SUFFICES ASSUME NEW n \in Nat, safe(n) PROVE n <= lim
    OBVIOUS
  <2>1. price # stop /\ risky(n) /\ n * price <= MaxNotional
    OBVIOUS
  <2> HIDE DEF risky, safe
  <2> QED
    BY <1>2, <1>3, <1>4, <2>1
<1>8. qty <= lim /\ qty # 0 => safe(qty)
  <2> SUFFICES ASSUME qty <= lim, qty # 0 PROVE safe(qty)
    OBVIOUS
  <2>1. price # stop
    BY <1>2, <1>4, <1>6
  <2>2. risky(qty) /\ qty * price <= MaxNotional
    <3> HIDE DEF risky
    <3> QED
      BY <1>2, <1>3, <1>4, <1>6, <2>1
  <2> QED
    BY <2>1, <2>2
<1>9. /\ SizePosition(equity, price, stop) = IF qty <= 0 \/ qty * price < MinNotional THEN 0 ELSE qty
      /\ least = RoundStep(MinQty)
  BY DEF SizePosition, wanted, lim, r, least, qty
<1>10. ~safe(qty + StepSize)
  <2>1. qty + StepSize \in Nat /\ ~(qty + StepSize <= lim)
    BY <1>1, <1>4, <1>6
  <2> HIDE DEF safe
  <2> QED
    BY <1>7, <2>1
<1>11. SizePosition(equity, price, stop) # 0 =>
         /\ SizePosition(equity, price, stop) = qty /\ qty # 0 /\ qty * price >= MinNotional
  BY <1>1, <1>6, <1>9
<1>12. SizeIsLargestSafe(equity, price, stop)
  BY <1>6, <1>8, <1>9, <1>10, <1>11 DEF SizeIsLargestSafe
<1> QED
  BY <1>6, <1>9, <1>12

\* PositionSizer never sizes a plan beyond its means, for every equity, price and stop.
LEMMA WithinMeans ==
  ASSUME NEW equity \in Nat, NEW fraction \in Nat, NEW price \in Nat \ {0}, NEW stop \in Nat,
         NEW lev \in Nat
  PROVE  /\ PositionSize(equity, fraction, price, stop, lev) \in Nat
         /\ PositionSizeWithinMeans(equity, fraction, price, stop, lev)
<1> DEFINE risk == AtRisk(equity, fraction, price, stop)
           lim == Lesser(risk, (equity * lev) \div price)
           qty == RoundStep(lim)
           size == PositionSize(equity, fraction, price, stop, lev)
<1>1. /\ risk \in Nat /\ equity * lev \in Nat
      /\ price # stop => \A n \in Nat : n <= risk <=> n * Distance(price, stop) * Unit <= fraction * equity
  BY AtRiskIsLargest, ProductsGrow
<1>2. /\ (equity * lev) \div price \in Nat
      /\ \A n \in Nat : n <= (equity * lev) \div price <=> n * price <= equity * lev
  BY <1>1, DivRoundsDown, FitsQuotient
<1> HIDE DEF risk
<1>3. lim \in Nat /\ \A n \in Nat : n <= lim <=> n <= risk /\ n <= (equity * lev) \div price
  BY <1>1, <1>2, LesserTyped
<1> HIDE DEF lim
<1>4. qty \in Nat /\ qty <= lim /\ qty % StepSize = 0
  BY <1>3, RoundStepDown
<1> HIDE DEF qty
<1>5. /\ size = 0 \/ size = qty
      /\ size # 0 => price # stop /\ ~(qty < MinQty) /\ ~(qty > MaxQty)
  BY DEF PositionSize, risk, lim, qty
<1>6. MinQty \in Nat /\ MaxQty \in Nat
  BY SizingAssumption
<1> HIDE DEF size
<1>7. size # 0 => /\ size \in MinQty..MaxQty /\ size % StepSize = 0
                  /\ size * Distance(price, stop) * Unit <= fraction * equity
                  /\ size * price <= equity * lev
  BY <1>1, <1>2, <1>3, <1>4, <1>5, <1>6
<1> QED
  BY <1>4, <1>5, <1>7 DEF PositionSizeWithinMeans, size
-----------------------------------------------------------------------------
(* The inductive invariant of the pipeline *)

Flying == {"reading", "submitting", "stopping", "targeting"}

\* What is in flight is its caller's, and its row says how far it is: nothing was
\* ordered yet, or the order was taken and its brackets are awaited.
FlightOf(s, pc, strategy) ==
  /\ s.by = strategy /\ s.failed = FALSE /\ s.status \in {"CREATED", "EXPIRED"}
  /\ pc \in {"reading", "submitting"} => s.row = "CREATED" /\ s.accepted = FALSE
  /\ pc \in {"stopping", "targeting"} => s.row = "EXECUTED" /\ s.accepted = TRUE
FlightsAreOwn == \A c \in Callers : InFlight(c) => FlightOf(Of(c), calls[c].pc, StrategyOf[c])

\* No submission is in flight twice.
FlightsDiffer ==
  \A c, d \in Callers : c # d /\ InFlight(c) /\ InFlight(d) => calls[c].id # calls[d].id

\* What RowsTellTrades says of one submission.
Told(s) ==
  /\ s.row = "CREATED" => s.failed /\ ~s.accepted /\ s.status \in {"CREATED", "EXPIRED"}
  /\ ~s.failed => (s.row = "EXECUTED" <=> s.accepted)
  /\ s.row = "REJECTED" => s.status \in {"REJECTED", "EXPIRED"}
  /\ s.row = "EXECUTED" => s.status \in {"CREATED", "EXPIRED"}

\* A plan that reached the executor has its key taken.
PlansAreTaken ==
  \A i \in DOMAIN subs : subs[i].plan \in Plans /\ subs[i].row # "none" => subs[i].plan \in intents

\* The size of an entry: of a plan before it is submitted, of any as it goes out.
Planned(in) ==
  \E equity \in Equities, price \in Prices \ {0} :
    in.qty = PositionSize(equity, RiskPerTrade, price, in.stop, Leverage) /\ in.qty # 0
Owed(s, qty) ==
  \E equity \in Equities, price \in Prices \ {0} :
    IF s.by \in Debating
    THEN /\ qty = PositionSize(equity, RiskPerTrade, price, s.in.stop, Leverage)
         /\ PositionSizeWithinMeans(equity, RiskPerTrade, price, s.in.stop, Leverage)
    ELSE IF s.in.qty > 0 THEN qty = s.in.qty
    ELSE /\ qty = SizePosition(equity, price, s.in.stop)
         /\ SizeIsLargestSafe(equity, price, s.in.stop)
SizesAreOwed ==
  \A c \in Callers :
    /\ calls[c].pc = "debating" => calls[c].qty \in Equities
    /\ InFlight(c) /\ Opening(Of(c).in.action) /\ Of(c).by \in Debating => Planned(Of(c).in)
    /\ calls[c].pc = "submitting" /\ Opening(Of(c).in.action) => Owed(Of(c), calls[c].qty)

\* An entry in flight was offered, holds the symbol's lock, and its key is cooling.
EntriesHold ==
  \A c \in Callers : InFlight(c) /\ Opening(Of(c).in.action) =>
    /\ lock = StrategyOf[c] /\ Key(c, Of(c).in) \in recent

\* The parts of TypeOK: submissions with those who refer to them, and the rest.
SubsTyped ==
  /\ subs \in Seq(Signal)
  /\ calls \in [Callers -> [pc: Pcs, id: 0..Len(subs), qty: Nat]]
  /\ \A c \in Callers : calls[c].pc \notin {"idle", "debating"} => calls[c].id # 0
  /\ last \in [Keys -> 0..Len(subs)]
  /\ \A k \in Keys : last[k] # 0 =>
       subs[last[k]].status # "EXPIRED" /\ <<subs[last[k]].by, subs[last[k]].in.action>> = k
RestTyped ==
  /\ recent \subseteq Keys /\ lock \in Strategies \union {NoOne}
  /\ streak \in [LoopKeys -> [count: 0..MaxRepeats, reason: Reasons]]
  /\ intents \subseteq Plans
  /\ llm \in [failures: 0..MaxFailures, open: BOOLEAN]
  /\ pos \in Int

PipeInv == /\ SubsTyped /\ RestTyped /\ FlightsAreOwn /\ FlightsDiffer /\ RowsTellTrades
           /\ PlansAreTaken /\ PlansTradeOnce /\ SizesAreOwed
\* The invariant has the type invariant, and what goes out has the size it is owed.
LEMMA PipeInvGives == PipeInv => TypeOK /\ RowsTellTrades /\ PlansTradeOnce /\ SizesAreSafe
<1>1. PipeInv => TypeOK
  BY DEF PipeInv, SubsTyped, RestTyped, TypeOK
<1>2. PipeInv => SizesAreSafe
  BY DEF PipeInv, SizesAreOwed, SizesAreSafe, Owed
<1> QED
  BY <1>1, <1>2 DEF PipeInv

\* A submission in flight is one of the table, and its caller is typed.
LEMMA FlightsTyped ==
  ASSUME SubsTyped, NEW c \in Callers
  PROVE  /\ calls[c].pc \in Pcs /\ calls[c].id \in 0..Len(subs) /\ calls[c].qty \in Nat
         /\ Len(subs) \in Nat /\ DOMAIN subs = 1..Len(subs)
         /\ InFlight(c) => calls[c].id \in 1..Len(subs) /\ Of(c) \in Signal
<1>1. calls[c] \in [pc: Pcs, id: 0..Len(subs), qty: Nat]
  BY DEF SubsTyped
<1>2. subs \in Seq(Signal) /\ Len(subs) \in Nat /\ DOMAIN subs = 1..Len(subs)
  BY DEF SubsTyped
<1>3. InFlight(c) => calls[c].id # 0
  BY DEF SubsTyped, InFlight
<1> QED
  BY <1>1, <1>2, <1>3, ElementOfSeq DEF Of

\* The key of a submission is one of the keys.
LEMMA KeysTyped ==
  ASSUME NEW c \in Callers, NEW in \in Input
  PROVE  Key(c, in) \in Keys /\ LoopKey(c, in) \in LoopKeys /\ Key(c, in) = <<StrategyOf[c], in.action>>
<1>1. in.action \in Actions /\ in.dedup \in Dedups \union {NoKey} /\ StrategyOf[c] \in Strategies
  BY PipelineAssumption DEF Input
<1> QED
  BY <1>1 DEF Key, LoopKey, Keys, LoopKeys

\* A step that neither adds nor changes a submission, and leaves what is in flight.
LEMMA CalmStep ==
  ASSUME PipeInv, RestTyped', UNCHANGED <<subs, last, intents>>, NEW c \in Callers,
         NEW n \in [pc: Pcs, id: 0..Len(subs), qty: Nat],
         n.pc \notin {"idle", "debating"} => n.id # 0,
         n.pc = "debating" => n.qty \in Equities,
         \/ calls' = calls
         \/ ~InFlight(c) /\ n.pc \notin Flying /\ calls' = [calls EXCEPT ![c] = n]
  PROVE  PipeInv'
<1>1. SubsTyped'
  BY DEF PipeInv, SubsTyped
<1>2. \A d \in Callers : /\ InFlight(d)' => InFlight(d) /\ calls'[d] = calls[d]
                         /\ InFlight(d) => InFlight(d)' /\ calls'[d] = calls[d]
                         /\ calls'[d] = calls[d] \/ calls'[d] = n
  BY DEF PipeInv, SubsTyped, InFlight, Flying
<1>3. \A d \in Callers : InFlight(d) => Of(d)' = Of(d)
  BY <1>2 DEF Of
<1>4. FlightsAreOwn' /\ FlightsDiffer'
  BY <1>2, <1>3 DEF PipeInv, FlightsAreOwn, FlightsDiffer, FlightOf
<1>5. RowsTellTrades'
  BY <1>2 DEF PipeInv, RowsTellTrades
<1>6. PlansAreTaken' /\ PlansTradeOnce'
  BY DEF PipeInv, PlansAreTaken, PlansTradeOnce
<1>7. SizesAreOwed'
  <2> SUFFICES ASSUME NEW d \in Callers
               PROVE  /\ calls'[d].pc = "debating" => calls'[d].qty \in Equities
                      /\ InFlight(d)' /\ Opening(Of(d).in.action)' /\ Of(d).by' \in Debating
                           => Planned(Of(d).in)'
                      /\ calls'[d].pc = "submitting" /\ Opening(Of(d).in.action)'
                           => Owed(Of(d)', calls'[d].qty)
    BY DEF SizesAreOwed, Planned, Owed
  <2>1. calls'[d].pc = "debating" => calls'[d].qty \in Equities
    BY <1>2 DEF PipeInv, SizesAreOwed
  <2>2. CASE InFlight(d)
    BY <1>2, <1>3, <2>1, <2>2 DEF PipeInv, SizesAreOwed, Planned, Opening
  <2>3. CASE ~InFlight(d)
    BY <1>2, <2>1, <2>3 DEF InFlight
  <2> QED
    BY <2>2, <2>3
<1> QED
  BY <1>1, <1>4, <1>5, <1>6, <1>7 DEF PipeInv
\* A step of the executor: the submission of a caller in flight is revised, and its
\* caller goes on in flight, or returns with a row that tells what became of it.
LEMMA RevisedStep ==
  ASSUME PipeInv, RestTyped', UNCHANGED <<last, intents>>, NEW c \in Callers, InFlight(c),
         NEW s \in Signal, s.in = Of(c).in, s.by = Of(c).by, s.plan = Of(c).plan,
         s.row # "none", s.status \in {Of(c).status, "REJECTED"},
         NEW n \in [pc: Pcs, id: 0..Len(subs), qty: Nat],
         n.pc \notin {"idle", "debating"} => n.id # 0, n.pc # "debating",
         n.pc \in Flying => n.id = calls[c].id /\ FlightOf(s, n.pc, StrategyOf[c]),
         n.pc = "submitting" /\ Opening(s.in.action) => Owed(s, n.qty),
         n.pc \notin Flying => Told(s),
         subs' = [subs EXCEPT ![calls[c].id] = s], calls' = [calls EXCEPT ![c] = n]
  PROVE  PipeInv'
<1> DEFINE id == calls[c].id
<1>1. /\ id \in 1..Len(subs) /\ Len(subs) \in Nat /\ subs[id] = Of(c) /\ Of(c) \in Signal
      /\ DOMAIN subs = 1..Len(subs)
  BY FlightsTyped DEF PipeInv, Of
<1>2. /\ subs' \in Seq(Signal) /\ Len(subs') = Len(subs) /\ DOMAIN subs' = 1..Len(subs)
      /\ subs'[id] = s /\ \A i \in 1..Len(subs) : i # id => subs'[i] = subs[i]
  <2>1. subs \in Seq(Signal)
    BY DEF PipeInv, SubsTyped
  <2> HIDE DEF id
  <2> QED
    BY <1>1, <2>1 DEF id
<1>3. calls'[c] = n /\ \A d \in Callers : d # c => calls'[d] = calls[d]
  BY DEF PipeInv, SubsTyped
<1>4. \A d \in Callers : d # c /\ InFlight(d) => calls[d].id # id
  BY DEF PipeInv, FlightsDiffer
<1>5. \A d \in Callers : /\ d # c => (InFlight(d)' <=> InFlight(d))
                         /\ d # c /\ InFlight(d) => Of(d)' = Of(d)
  BY <1>2, <1>3, <1>4, FlightsTyped DEF PipeInv, InFlight, Of
<1>6. InFlight(c)' => n.pc \in Flying /\ n.id = id /\ Of(c)' = s
  BY <1>2, <1>3 DEF InFlight, Flying, Of
<1> HIDE DEF id
<1>7. SubsTyped'
  <2>1. calls' \in [Callers -> [pc: Pcs, id: 0..Len(subs'), qty: Nat]]
    BY <1>2 DEF PipeInv, SubsTyped
  <2>2. \A d \in Callers : calls'[d].pc \notin {"idle", "debating"} => calls'[d].id # 0
    BY <1>3 DEF PipeInv, SubsTyped
  <2>3. ASSUME NEW k \in Keys, last[k] # 0
        PROVE  subs'[last[k]].status # "EXPIRED"
               /\ <<subs'[last[k]].by, subs'[last[k]].in.action>> = k
    <3>1. /\ last[k] \in 1..Len(subs) /\ subs[last[k]].status # "EXPIRED"
          /\ <<subs[last[k]].by, subs[last[k]].in.action>> = k
      BY <1>1, <2>3 DEF PipeInv, SubsTyped
    <3>2. CASE last[k] = id
      BY <1>1, <1>2, <3>1, <3>2
    <3>3. CASE last[k] # id
      BY <1>2, <3>1, <3>3
    <3> QED
      BY <3>2, <3>3
  <2>4. last' = last /\ last' \in [Keys -> 0..Len(subs')]
    BY <1>2 DEF PipeInv, SubsTyped
  <2> QED
    BY <1>2, <2>1, <2>2, <2>3, <2>4 DEF SubsTyped
<1>8. FlightsAreOwn' /\ FlightsDiffer'
  <2>1. FlightsAreOwn'
    <3> SUFFICES ASSUME NEW d \in Callers, InFlight(d)'
                 PROVE  FlightOf(Of(d)', calls'[d].pc, StrategyOf[d])
      BY DEF FlightsAreOwn, FlightOf
    <3> QED
      BY <1>3, <1>5, <1>6 DEF PipeInv, FlightsAreOwn, id
  <2>2. FlightsDiffer'
    BY <1>3, <1>4, <1>5, <1>6 DEF PipeInv, FlightsDiffer, id
  <2> QED
    BY <2>1, <2>2
<1>9. RowsTellTrades'
  <2> SUFFICES ASSUME NEW i \in DOMAIN subs', \A d \in Callers : InFlight(d)' => calls'[d].id # i
               PROVE  Told(subs'[i])
    BY DEF RowsTellTrades, Told
  <2>1. CASE i = id
    <3>1. ~InFlight(c)'
      BY <1>3, <1>6, <2>1 DEF id
    <3>2. n.pc \notin Flying
      BY <1>3, <3>1 DEF InFlight, Flying
    <3> QED
      BY <1>2, <2>1, <3>2
  <2>2. CASE i # id
    <3>1. \A d \in Callers : InFlight(d) => calls[d].id # i
      BY <1>3, <1>5, <2>2 DEF id
    <3>2. i \in DOMAIN subs /\ subs'[i] = subs[i]
      BY <1>1, <1>2, <2>2
    <3> QED
      BY <3>1, <3>2 DEF PipeInv, RowsTellTrades, Told
  <2> QED
    BY <2>1, <2>2
<1>10. \A i \in DOMAIN subs' : /\ i \in DOMAIN subs /\ subs'[i].plan = subs[i].plan
                               /\ subs[i].row = "none" => subs'[i].row = "none"
  <2>1. subs[id].row # "none"
    BY <1>1 DEF PipeInv, FlightsAreOwn, FlightOf, InFlight
  <2> QED
    BY <1>1, <1>2, <2>1
<1>11. PlansAreTaken' /\ PlansTradeOnce'
  BY <1>10 DEF PipeInv, PlansAreTaken, PlansTradeOnce
<1>12. SizesAreOwed'
  <2> SUFFICES ASSUME NEW d \in Callers
               PROVE  /\ calls'[d].pc = "debating" => calls'[d].qty \in Equities
                      /\ InFlight(d)' /\ Opening(Of(d).in.action)' /\ Of(d).by' \in Debating
                           => Planned(Of(d).in)'
                      /\ calls'[d].pc = "submitting" /\ Opening(Of(d).in.action)'
                           => Owed(Of(d)', calls'[d].qty)
    BY DEF SizesAreOwed, Planned, Owed
  <2>1. CASE d = c
    <3>1. /\ calls'[d].pc # "debating"
          /\ calls'[d].pc = "submitting" => InFlight(d)'
          /\ InFlight(d)' => Of(d)' = s
      BY <1>3, <1>6, <2>1 DEF InFlight
    <3>2. Opening(s.in.action) /\ s.by \in Debating => Planned(s.in)
      BY DEF PipeInv, SizesAreOwed
    <3> QED
      BY <1>3, <2>1, <3>1, <3>2 DEF Opening, Planned
  <2>2. CASE d # c
    <3>1. calls'[d] = calls[d] /\ (InFlight(d)' <=> InFlight(d)) /\ (InFlight(d) => Of(d)' = Of(d))
      BY <1>3, <1>5, <2>2
    <3>2. calls[d].pc = "submitting" => InFlight(d)
      BY DEF InFlight
    <3> QED
      BY <3>1, <3>2 DEF PipeInv, SizesAreOwed, Opening, Planned
  <2> QED
    BY <2>1, <2>2
<1> QED
  BY <1>7, <1>8, <1>9, <1>11, <1>12 DEF PipeInv
\* A step of the gate: a submission is added, which its caller brings to the executor
\* with a plan nobody brought there before, or which has no row and is not executed.
LEMMA AppendedStep ==
  ASSUME PipeInv, RestTyped', NEW c \in Callers, ~InFlight(c),
         NEW s \in Signal, s.by = StrategyOf[c], s.failed = FALSE, s.accepted = FALSE,
         s.status # "EXPIRED", intents \subseteq intents',
         NEW n \in [pc: Pcs, id: 0..(Len(subs) + 1), qty: Nat],
         n.pc \notin {"idle", "debating"} => n.id # 0,
         n.pc = "debating" => n.qty \in Equities,
         \/ /\ n.pc = "reading" /\ n.id = Len(subs) + 1
            /\ s.row = "CREATED" /\ s.status = "CREATED"
            /\ s.plan \in Plans => s.plan \notin intents /\ s.plan \in intents'
            /\ Opening(s.in.action) /\ s.by \in Debating => Planned(s.in)
         \/ n.pc \notin Flying /\ s.row = "none",
         subs' = Append(subs, s), calls' = [calls EXCEPT ![c] = n],
         last' \in {last, [last EXCEPT ![<<s.by, s.in.action>>] = Len(subs) + 1]}
  PROVE  PipeInv'
<1> DEFINE id == Len(subs) + 1
<1>1. /\ subs \in Seq(Signal) /\ Len(subs) \in Nat /\ DOMAIN subs = 1..Len(subs)
      /\ id \in Nat /\ id # 0
  BY DEF PipeInv, SubsTyped
<1>2. /\ subs' \in Seq(Signal) /\ Len(subs') = id /\ DOMAIN subs' = 1..id
      /\ subs'[id] = s /\ \A i \in 1..Len(subs) : subs'[i] = subs[i]
      /\ 1..id = 1..Len(subs) \union {id} /\ id \notin 1..Len(subs)
  BY <1>1
<1> HIDE DEF id
<1>3. calls'[c] = n /\ \A d \in Callers : d # c => calls'[d] = calls[d]
  BY DEF PipeInv, SubsTyped
<1>4. \A d \in Callers : InFlight(d) => calls[d].id \in 1..Len(subs)
  BY FlightsTyped DEF PipeInv
<1>5. \A d \in Callers : /\ d # c => (InFlight(d)' <=> InFlight(d))
                         /\ d # c /\ InFlight(d) => Of(d)' = Of(d)
  BY <1>2, <1>3, <1>4 DEF InFlight, Of
<1>6. InFlight(c)' => /\ n.pc = "reading" /\ n.id = id /\ Of(c)' = s
                      /\ s.row = "CREATED" /\ s.status = "CREATED"
                      /\ Opening(s.in.action) /\ s.by \in Debating => Planned(s.in)
  BY <1>2, <1>3 DEF InFlight, Flying, Of, id
<1>7. SubsTyped'
  <2>1. calls' \in [Callers -> [pc: Pcs, id: 0..Len(subs'), qty: Nat]]
    <3>1. \A d \in Callers : calls[d] \in [pc: Pcs, id: 0..Len(subs), qty: Nat]
      BY DEF PipeInv, SubsTyped
    <3>2. \A d \in Callers : calls[d] \in [pc: Pcs, id: 0..Len(subs'), qty: Nat]
      BY <1>1, <1>2, <3>1 DEF id
    <3>3. n \in [pc: Pcs, id: 0..Len(subs'), qty: Nat]
      BY <1>2 DEF id
    <3>4. calls \in [Callers -> [pc: Pcs, id: 0..Len(subs'), qty: Nat]]
      BY <3>2 DEF PipeInv, SubsTyped
    <3> QED
      BY <3>3, <3>4
  <2>2. \A d \in Callers : calls'[d].pc \notin {"idle", "debating"} => calls'[d].id # 0
    BY <1>3 DEF PipeInv, SubsTyped
  <2>3. <<s.by, s.in.action>> \in Keys
    BY DEF Signal, Input, Keys
  <2>4. /\ last \in [Keys -> 0..Len(subs)] /\ last' \in [Keys -> 0..id]
        /\ \A k \in Keys : last'[k] = last[k] \/ (last'[k] = id /\ k = <<s.by, s.in.action>>)
    <3>1. last \in [Keys -> 0..Len(subs)] /\ last \in [Keys -> 0..id] /\ id \in 0..id
      BY <1>1 DEF PipeInv, SubsTyped, id
    <3> QED
      BY <2>3, <3>1 DEF id
  <2>5. ASSUME NEW k \in Keys, last'[k] # 0
        PROVE  subs'[last'[k]].status # "EXPIRED"
               /\ <<subs'[last'[k]].by, subs'[last'[k]].in.action>> = k
    <3>1. CASE last'[k] = id /\ k = <<s.by, s.in.action>>
      BY <1>2, <3>1
    <3>2. CASE last'[k] = last[k]
      <4>1. /\ last[k] \in 1..Len(subs) /\ subs[last[k]].status # "EXPIRED"
            /\ <<subs[last[k]].by, subs[last[k]].in.action>> = k
        BY <1>1, <2>4, <2>5, <3>2 DEF PipeInv, SubsTyped
      <4> QED
        BY <1>2, <3>2, <4>1
    <3> QED
      BY <2>4, <3>1, <3>2
  <2> QED
    BY <1>2, <2>1, <2>2, <2>4, <2>5 DEF SubsTyped
<1>8. FlightsAreOwn' /\ FlightsDiffer'
  <2>1. FlightsAreOwn'
    <3> SUFFICES ASSUME NEW d \in Callers, InFlight(d)'
                 PROVE  FlightOf(Of(d)', calls'[d].pc, StrategyOf[d])
      BY DEF FlightsAreOwn, FlightOf
    <3>1. CASE d = c
      BY <1>3, <1>6, <3>1 DEF FlightOf
    <3>2. CASE d # c
      BY <1>3, <1>5, <3>2 DEF PipeInv, FlightsAreOwn
    <3> QED
      BY <3>1, <3>2
  <2>2. FlightsDiffer'
    BY <1>2, <1>3, <1>4, <1>5, <1>6 DEF PipeInv, FlightsDiffer
  <2> QED
    BY <2>1, <2>2
<1>9. RowsTellTrades'
  <2> SUFFICES ASSUME NEW i \in DOMAIN subs', \A d \in Callers : InFlight(d)' => calls'[d].id # i
               PROVE  Told(subs'[i])
    BY DEF RowsTellTrades, Told
  <2>1. CASE i = id
    <3>1. n.pc # "reading" \/ n.id # id
      BY <1>3, <2>1 DEF InFlight
    <3>2. s.row = "none"
      BY <3>1 DEF id
    <3> QED
      BY <1>2, <2>1, <3>2 DEF Told
  <2>2. CASE i # id
    <3>1. \A d \in Callers : InFlight(d) => calls[d].id # i
      BY <1>3, <1>5, <2>2
    <3>2. i \in DOMAIN subs /\ subs'[i] = subs[i]
      BY <1>1, <1>2, <2>2
    <3> QED
      BY <3>1, <3>2 DEF PipeInv, RowsTellTrades, Told
  <2> QED
    BY <2>1, <2>2
<1>10. s.plan \in Plans /\ s.row # "none" => s.plan \notin intents /\ s.plan \in intents'
  OBVIOUS
<1>11. PlansAreTaken' /\ PlansTradeOnce'
  BY <1>1, <1>2, <1>10 DEF PipeInv, PlansAreTaken, PlansTradeOnce
<1>12. SizesAreOwed'
  <2> SUFFICES ASSUME NEW d \in Callers
               PROVE  /\ calls'[d].pc = "debating" => calls'[d].qty \in Equities
                      /\ InFlight(d)' /\ Opening(Of(d).in.action)' /\ Of(d).by' \in Debating
                           => Planned(Of(d).in)'
                      /\ calls'[d].pc = "submitting" /\ Opening(Of(d).in.action)'
                           => Owed(Of(d)', calls'[d].qty)
    BY DEF SizesAreOwed, Planned, Owed
  <2>1. CASE d = c
    <3>1. calls'[d].pc = "submitting" => InFlight(d)'
      BY DEF InFlight
    <3> QED
      BY <1>3, <1>6, <2>1, <3>1 DEF Opening, Planned
  <2>2. CASE d # c
    <3>1. calls'[d] = calls[d] /\ (InFlight(d)' <=> InFlight(d)) /\ (InFlight(d) => Of(d)' = Of(d))
      BY <1>3, <1>5, <2>2
    <3>2. calls[d].pc = "submitting" => InFlight(d)
      BY DEF InFlight
    <3> QED
      BY <3>1, <3>2 DEF PipeInv, SizesAreOwed, Opening, Planned
  <2> QED
    BY <2>1, <2>2
<1> QED
  BY <1>7, <1>8, <1>9, <1>11, <1>12 DEF PipeInv

\* A submission is one of the table's.
LEMMA SubmissionTyped ==
  ASSUME NEW c \in Callers, NEW in \in Input, NEW plan \in Plans \union {NoPlan},
         NEW status \in {"CREATED", "REJECTED", "EXPIRED", "DROPPED"}, NEW reason \in Reasons,
         NEW row \in {"none", "CREATED", "EXECUTED", "REJECTED"},
         NEW s, s = Submission(c, in, plan, status, reason, row)
  PROVE  s \in Signal
<1> DEFINE leaves == ~Opening(in.action) /\ ~in.cools /\ Conflict(in) = ""
<1>1. s = [in |-> in, by |-> StrategyOf[c], plan |-> plan, status |-> status, reason |-> reason,
           row |-> row, accepted |-> FALSE, failed |-> FALSE, exit |-> leaves]
  BY DEF Submission
<1>2. leaves \in BOOLEAN /\ StrategyOf[c] \in Strategies
  BY PipelineAssumption
<1> HIDE DEF leaves
<1> QED
  BY <1>1, <1>2 DEF Signal

\* The reason of a conflict is one of the reasons.
LEMMA ConflictTyped ==
  ASSUME NEW in \in Input
  PROVE  Conflict(in) \in Reasons
<1>1. Conflict(in) \in {"already open", "not confident", "nothing to close", ""}
  BY DEF Conflict
<1> QED
  BY <1>1 DEF Reasons

\* What a caller returns to after processSignal.
LEMMA ReturnsTyped ==
  ASSUME NEW c \in Callers, NEW id \in Nat \ {0}, Returns(c, id)
  PROVE  \E n \in [pc: Pcs, id: 0..id, qty: Nat] :
           /\ calls' = [calls EXCEPT ![c] = n] /\ n.pc \in {"idle", "answering"}
           /\ n.pc \notin {"idle", "debating"} => n.id # 0
<1>1. CASE StrategyOf[c] \in Agent
  <2> DEFINE n == [pc |-> "answering", id |-> id, qty |-> 0]
  <2>1. n \in [pc: Pcs, id: 0..id, qty: Nat] /\ n.pc = "answering" /\ n.id # 0
    BY DEF Pcs
  <2>2. calls' = [calls EXCEPT ![c] = n]
    BY <1>1 DEF Returns
  <2> HIDE DEF n
  <2> QED
    BY <2>1, <2>2
<1>2. CASE StrategyOf[c] \notin Agent
  <2>1. Idle \in [pc: Pcs, id: 0..id, qty: Nat] /\ Idle.pc = "idle"
    BY DEF Pcs, Idle
  <2>2. calls' = [calls EXCEPT ![c] = Idle]
    BY <1>2 DEF Returns
  <2> QED
    BY <2>1, <2>2
<1> QED
  BY <1>1, <1>2

\* The whole gate, from submitSignal's refusals to the hand-over to the executor.
LEMMA GateStep ==
  ASSUME PipeInv, NEW c \in Callers, ~InFlight(c), NEW in \in Input,
         NEW plan \in Plans \union {NoPlan}, Gate(c, in, plan),
         llm' \in [failures: 0..MaxFailures, open: BOOLEAN],
         intents \subseteq intents', intents' \subseteq Plans,
         plan \in Plans => plan \notin intents /\ plan \in intents',
         Opening(in.action) /\ StrategyOf[c] \in Debating => Planned(in)
  PROVE  PipeInv'
<1>1. /\ calls[c] \in [pc: Pcs, id: 0..Len(subs), qty: Nat] /\ Len(subs) \in Nat
      /\ calls[c].pc \notin {"idle", "debating"} => calls[c].id # 0
      /\ calls[c].pc = "debating" => calls[c].qty \in Equities
      /\ calls[c].pc \notin Flying /\ NoPlan \notin Plans
      /\ calls = [calls EXCEPT ![c] = calls[c]]
  BY PipelineAssumption DEF PipeInv, SubsTyped, SizesAreOwed, InFlight, Flying
<1>2. [pc: Pcs, id: 0..Len(subs), qty: Nat] \subseteq [pc: Pcs, id: 0..(Len(subs) + 1), qty: Nat]
  BY <1>1
<1>3. Key(c, in) \in Keys /\ Key(c, in) = <<StrategyOf[c], in.action>> /\ StrategyOf[c] \in Strategies
  BY KeysTyped, PipelineAssumption
<1>4. RestTyped'
  <2>1. /\ recent' \in {recent, recent \union {Key(c, in)}} /\ lock' \in {lock, StrategyOf[c]}
        /\ UNCHANGED <<streak, pos>>
    BY DEF Gate, RefusedOutright, Dropped, Rejected, Forwarded, gate
  <2> QED
    BY <1>3, <2>1 DEF PipeInv, RestTyped
<1>5. CASE RefusedOutright(c, in)
  <2> DEFINE reason == IF Looping(c, in) THEN "loop" ELSE "locked"
             s == Submission(c, in, NoPlan, "REJECTED", reason, "none")
  <2>1. reason \in Reasons
    BY DEF Reasons
  <2>2. subs' = Append(subs, s) /\ calls' = calls /\ last' = last
    BY <1>5 DEF RefusedOutright, gate
  <2> HIDE DEF reason
  <2>6. s = Submission(c, in, NoPlan, "REJECTED", reason, "none")
    OBVIOUS
  <2> HIDE DEF s
  <2>3. /\ s \in Signal /\ s.in = in /\ s.by = StrategyOf[c] /\ s.plan = NoPlan
        /\ s.status = "REJECTED" /\ s.row = "none" /\ s.failed = FALSE /\ s.accepted = FALSE
    <3>1. s \in Signal
      BY <2>1, <2>6, SubmissionTyped
    <3> QED
      BY <2>6, <3>1 DEF Submission
  <2> QED
    BY <1>1, <1>2, <1>4, <2>2, <2>3, AppendedStep
<1>6. ASSUME NEW status \in {"DROPPED", "REJECTED"}, NEW reason \in Reasons,
             Ended(c, in, plan, status, reason),
             last' \in {last, [last EXCEPT ![Key(c, in)] = Len(subs) + 1]}
      PROVE  PipeInv'
  <2> DEFINE s == Submission(c, in, plan, status, reason, "none")
  <2>1. subs' = Append(subs, s) /\ Returns(c, Len(subs) + 1)
    BY <1>6 DEF Ended
  <2>2. PICK n \in [pc: Pcs, id: 0..(Len(subs) + 1), qty: Nat] :
           /\ calls' = [calls EXCEPT ![c] = n] /\ n.pc \in {"idle", "answering"}
           /\ n.pc \notin {"idle", "debating"} => n.id # 0
    <3>1. Len(subs) + 1 \in Nat \ {0}
      BY <1>1
    <3> QED
      BY <2>1, <3>1, ReturnsTyped
  <2>6. s = Submission(c, in, plan, status, reason, "none")
    OBVIOUS
  <2> HIDE DEF s
  <2>3. /\ s \in Signal /\ s.in = in /\ s.by = StrategyOf[c]
        /\ s.status = status /\ s.row = "none" /\ s.failed = FALSE /\ s.accepted = FALSE
    <3>1. s \in Signal
      BY <2>6, SubmissionTyped
    <3> QED
      BY <2>6, <3>1 DEF Submission
  <2>4. n.pc \notin Flying /\ n.pc # "debating" /\ s.status # "EXPIRED"
    BY <2>2, <2>3 DEF Flying
  <2>5. last' \in {last, [last EXCEPT ![<<s.by, s.in.action>>] = Len(subs) + 1]}
    BY <1>3, <1>6, <2>3
  <2> QED
    BY <1>4, <2>1, <2>2, <2>3, <2>4, <2>5, AppendedStep
<1>7. CASE Dropped(c, in, plan)
  BY <1>6, <1>7 DEF Dropped, Reasons
<1>8. CASE Rejected(c, in, plan)
  <2> DEFINE reason == IF Conflict(in) # "" THEN Conflict(in) ELSE "locked"
  <2>1. reason \in Reasons
    BY ConflictTyped DEF Reasons
  <2>2. Ended(c, in, plan, "REJECTED", reason)
        /\ last' \in {last, [last EXCEPT ![Key(c, in)] = Len(subs) + 1]}
    BY <1>8 DEF Rejected
  <2> HIDE DEF reason
  <2> QED
    BY <1>6, <2>1, <2>2
<1>9. CASE Forwarded(c, in, plan)
  <2> DEFINE s == Submission(c, in, plan, "CREATED", "", "CREATED")
             n == [pc |-> "reading", id |-> Len(subs) + 1, qty |-> 0]
  <2>1. subs' = Append(subs, s) /\ last' = [last EXCEPT ![Key(c, in)] = Len(subs) + 1]
        /\ calls' = [calls EXCEPT ![c] = n]
    BY <1>9 DEF Forwarded
  <2>2. n \in [pc: Pcs, id: 0..(Len(subs) + 1), qty: Nat] /\ n.pc = "reading" /\ n.id = Len(subs) + 1
        /\ n.id # 0
    BY <1>1 DEF Pcs
  <2>5. s = Submission(c, in, plan, "CREATED", "", "CREATED")
    OBVIOUS
  <2>6. "" \in Reasons
    BY DEF Reasons
  <2> HIDE DEF s
  <2>3. /\ s \in Signal /\ s.in = in /\ s.by = StrategyOf[c] /\ s.plan = plan
        /\ s.status = "CREATED" /\ s.row = "CREATED" /\ s.failed = FALSE /\ s.accepted = FALSE
    <3>1. s \in Signal
      BY <2>5, <2>6, SubmissionTyped
    <3> QED
      BY <2>5, <3>1 DEF Submission
  <2> HIDE DEF n
  <2>4. last' \in {last, [last EXCEPT ![<<s.by, s.in.action>>] = Len(subs) + 1]}
    BY <1>3, <2>1, <2>3
  <2> QED
    BY <1>4, <2>1, <2>2, <2>3, <2>4, AppendedStep
<1> QED
  BY <1>5, <1>7, <1>8, <1>9 DEF Gate

\* What is submitted is typed.
LEMMA OffersTyped ==
  ASSUME NEW c \in Callers, NEW in \in Offers[StrategyOf[c]]
  PROVE  in \in Input
BY PipelineAssumption

\* submitSignal, and a candle strategy that does not debate.
LEMMA SubmitStep ==
  ASSUME PipeInv, NEW c \in Callers, NEW in \in Offers[StrategyOf[c]], Submit(c, in)
  PROVE  PipeInv'
<1>1. /\ Gate(c, in, NoPlan) /\ StrategyOf[c] \notin Debating /\ ~InFlight(c)
      /\ UNCHANGED <<intents, llm>> /\ NoPlan \notin Plans
  BY PipelineAssumption DEF Submit, InFlight
<1>2. llm' \in [failures: 0..MaxFailures, open: BOOLEAN] /\ intents' \subseteq Plans
  BY <1>1 DEF PipeInv, RestTyped
<1> QED
  BY <1>1, <1>2, OffersTyped, GateStep

\* What is left of the circuit breaker after an answer.
LEMMA AnswerTyped ==
  ASSUME RestTyped
  PROVE  [llm EXCEPT !.failures = 0] \in [failures: 0..MaxFailures, open: BOOLEAN]
BY PipelineAssumption DEF RestTyped

\* An approved reversal.
LEMMA DebateClosesStep ==
  ASSUME PipeInv, NEW c \in Callers, NEW in \in Offers[StrategyOf[c]], DebateCloses(c, in)
  PROVE  PipeInv'
<1>1. /\ Gate(c, in, NoPlan) /\ ~Opening(in.action) /\ ~InFlight(c)
      /\ UNCHANGED intents /\ llm' = [llm EXCEPT !.failures = 0] /\ NoPlan \notin Plans
  BY PipelineAssumption DEF DebateCloses, InFlight
<1>2. llm' \in [failures: 0..MaxFailures, open: BOOLEAN] /\ intents' \subseteq Plans
  BY <1>1, AnswerTyped DEF PipeInv, RestTyped
<1> QED
  BY <1>1, <1>2, OffersTyped, GateStep

\* An approved plan: its size is that of the equity read before the debate.
LEMMA DebateOpensStep ==
  ASSUME PipeInv, NEW c \in Callers, NEW in \in Offers[StrategyOf[c]], NEW plan \in Plans,
         NEW price \in Prices \ {0}, DebateOpens(c, in, plan, price)
  PROVE  PipeInv'
<1> DEFINE size == PositionSize(calls[c].qty, RiskPerTrade, price, in.stop, Leverage)
           planned == [in EXCEPT !.qty = size]
<1>1. /\ calls[c].pc = "debating" /\ plan \notin intents /\ size > 0
      /\ intents' = intents \union {plan} /\ llm' = [llm EXCEPT !.failures = 0]
      /\ Gate(c, planned, plan)
  BY DEF DebateOpens, Taken
<1>2. calls[c].qty \in Equities /\ calls[c].qty \in Nat /\ in \in Input /\ price \in Nat \ {0}
  BY <1>1, OffersTyped, PipelineAssumption DEF PipeInv, SizesAreOwed
<1>3. size \in Nat
  <2>1. in.stop \in Nat /\ RiskPerTrade \in Nat /\ Leverage \in Nat
    BY <1>2, PipelineAssumption, SizingAssumption DEF Input
  <2> QED
    BY <1>2, <2>1, WithinMeans
<1> HIDE DEF size
<1>4. planned \in Input /\ planned.qty = size /\ planned.stop = in.stop
  BY <1>2, <1>3 DEF Input
<1> HIDE DEF planned
<1>5. Planned(planned)
  BY <1>1, <1>2, <1>3, <1>4 DEF Planned, size
<1>6. /\ llm' \in [failures: 0..MaxFailures, open: BOOLEAN]
      /\ intents \subseteq intents' /\ intents' \subseteq Plans
  BY <1>1, AnswerTyped DEF PipeInv, RestTyped
<1>7. ~InFlight(c)
  BY <1>1 DEF InFlight
<1> QED
  BY <1>1, <1>4, <1>5, <1>6, <1>7, GateStep
\* What the executor leaves alone is typed as before.
LEMMA ExecutorRest ==
  ASSUME RestTyped, UNCHANGED <<gate, streak, intents, llm>>, pos' \in Int
  PROVE  RestTyped' /\ UNCHANGED <<last, intents>>
BY DEF RestTyped, gate

\* An execution that ends: its row tells what became of it.
LEMMA FinishStep ==
  ASSUME PipeInv, RestTyped', UNCHANGED <<last, intents>>, NEW c \in Callers, InFlight(c),
         NEW sub \in Signal, sub.in = Of(c).in, sub.by = Of(c).by, sub.plan = Of(c).plan,
         sub.status = Of(c).status, NEW ok \in BOOLEAN, Finish(c, sub, ok),
         IF ok THEN sub.row = "EXECUTED" /\ sub.accepted = TRUE
         ELSE sub.row = "REJECTED" /\ (sub.failed = TRUE \/ sub.accepted = FALSE)
  PROVE  PipeInv'
<1> DEFINE rejected == [sub EXCEPT !.status = "REJECTED", !.reason = "executor"]
           s == IF ok THEN sub ELSE rejected
<1>1. subs' = [subs EXCEPT ![calls[c].id] = s] /\ Returns(c, calls[c].id)
  BY DEF Finish
<1>2. rejected \in Signal /\ rejected.in = sub.in /\ rejected.by = sub.by /\ rejected.plan = sub.plan
      /\ rejected.row = sub.row /\ rejected.status = "REJECTED" /\ rejected.failed = sub.failed
      /\ rejected.accepted = sub.accepted
  BY DEF Signal, Reasons
<1>3. /\ calls[c].id \in 1..Len(subs) /\ Len(subs) \in Nat
      /\ calls[c].id \in Nat \ {0} /\ Of(c).status \in {"CREATED", "EXPIRED"}
  <2>1. calls[c].id \in 1..Len(subs) /\ Len(subs) \in Nat
    BY FlightsTyped DEF PipeInv
  <2> QED
    BY <2>1 DEF PipeInv, FlightsAreOwn, FlightOf
<1>4. PICK n \in [pc: Pcs, id: 0..calls[c].id, qty: Nat] :
        /\ calls' = [calls EXCEPT ![c] = n] /\ n.pc \in {"idle", "answering"}
        /\ n.pc \notin {"idle", "debating"} => n.id # 0
  BY <1>1, <1>3, ReturnsTyped
<1>5. n \in [pc: Pcs, id: 0..Len(subs), qty: Nat] /\ n.pc \notin Flying /\ n.pc # "debating"
      /\ n.pc # "submitting"
  BY <1>3, <1>4 DEF Flying
<1> HIDE DEF rejected
<1>6. /\ s \in Signal /\ s.in = Of(c).in /\ s.by = Of(c).by /\ s.plan = Of(c).plan
      /\ s.row # "none" /\ s.status \in {Of(c).status, "REJECTED"}
  BY <1>2
<1>7. Told(s)
  <2>1. CASE ok = TRUE
    BY <1>3, <2>1 DEF Told
  <2>2. CASE ok = FALSE
    <3>1. s = rejected /\ s.row = "REJECTED" /\ s.status = "REJECTED"
          /\ (s.failed = TRUE \/ s.accepted = FALSE)
      BY <1>2, <2>2
    <3> HIDE DEF s
    <3> QED
      BY <3>1 DEF Told
  <2> QED
    BY <2>1, <2>2
<1> HIDE DEF s
<1> QED
  BY <1>1, <1>4, <1>5, <1>6, <1>7, RevisedStep

\* What execute reads gives an entry the size it is owed.
LEMMA SizeOwed ==
  ASSUME PipeInv, NEW c \in Callers, InFlight(c), NEW price \in Prices, price # 0,
         NEW equity \in Equities
  PROVE  /\ Size(Of(c).in, price, equity) \in Nat
         /\ Opening(Of(c).in.action) => Owed(Of(c), Size(Of(c).in, price, equity))
<1> DEFINE in == Of(c).in
<1>1. Of(c) \in Signal /\ in \in Input /\ in.qty \in Nat /\ in.stop \in Nat
  <2>1. Of(c) \in Signal
    BY FlightsTyped DEF PipeInv
  <2>2. in \in Input
    BY <2>1 DEF Signal
  <2> QED
    BY <2>1, <2>2 DEF Input
<1>2. /\ price \in Nat \ {0} /\ equity \in Nat /\ pos \in Int
      /\ RiskPerTrade \in Nat /\ Leverage \in Nat
  BY PipelineAssumption, SizingAssumption DEF PipeInv, RestTyped
<1>3. Opening(in.action) /\ Of(c).by \in Debating => Planned(in)
  BY DEF PipeInv, SizesAreOwed
<1> HIDE DEF in
<1>4. CASE ~Opening(in.action)
  <2>1. Distance(pos, 0) \in Nat
    BY <1>2 DEF Distance
  <2>2. (Distance(pos, 0) + 1) \div 2 \in Nat
    <3> DEFINE d == Distance(pos, 0)
    <3>1. d \in Nat
      BY <2>1
    <3> HIDE DEF d
    <3>2. (d + 1) \div 2 \in Nat
      BY <3>1, DivRoundsDown
    <3> QED
      BY <3>2 DEF d
  <2> QED
    BY <1>4, <2>1, <2>2 DEF Size, in
<1>5. CASE Opening(in.action) /\ in.qty > 0
  <2>1. Size(in, price, equity) = in.qty
    BY <1>5 DEF Size
  <2>2. CASE Of(c).by \in Debating
    <3>1. PICK e \in Equities, r \in Prices \ {0} :
            in.qty = PositionSize(e, RiskPerTrade, r, in.stop, Leverage)
      BY <1>3, <1>5, <2>2 DEF Planned
    <3>2. PositionSizeWithinMeans(e, RiskPerTrade, r, in.stop, Leverage)
      <4>1. e \in Nat /\ r \in Nat \ {0}
        BY PipelineAssumption
      <4> QED
        BY <1>1, <1>2, <4>1, WithinMeans
    <3> QED
      BY <1>1, <2>1, <2>2, <3>1, <3>2 DEF Owed, in
  <2>3. CASE Of(c).by \notin Debating
    BY <1>1, <1>5, <2>1, <2>3 DEF Owed, in
  <2> QED
    BY <2>2, <2>3
<1>6. CASE Opening(in.action) /\ ~(in.qty > 0)
  <2>1. Of(c).by \notin Debating
    BY <1>1, <1>3, <1>6 DEF Planned
  <2>2. Size(in, price, equity) = SizePosition(equity, price, in.stop)
    BY <1>6 DEF Size
  <2>3. SizePosition(equity, price, in.stop) \in Nat /\ SizeIsLargestSafe(equity, price, in.stop)
    BY <1>1, <1>2, LargestSafe
  <2> QED
    BY <1>6, <2>1, <2>2, <2>3 DEF Owed, in
<1> QED
  BY <1>4, <1>5, <1>6

\* execute after its first await: the order is sized, or the row is rejected.
LEMMA ReadPositionStep ==
  ASSUME PipeInv, NEW c \in Callers, NEW price \in Prices, NEW equity \in Equities,
         ReadPosition(c, price, equity)
  PROVE  PipeInv'
<1>1. InFlight(c) /\ calls[c].pc = "reading" /\ UNCHANGED <<gate, streak, intents, llm, pos>>
  BY DEF ReadPosition, InFlight
<1>2. RestTyped' /\ UNCHANGED <<last, intents>>
  BY <1>1, ExecutorRest DEF PipeInv, RestTyped
<1>3. /\ Of(c) \in Signal /\ Of(c).row = "CREATED" /\ Of(c).accepted = FALSE
      /\ FlightOf(Of(c), "reading", StrategyOf[c])
  BY <1>1, FlightsTyped DEF PipeInv, FlightsAreOwn, FlightOf
<1>4. CASE price = 0 \/ Size(Of(c).in, price, equity) = 0
  <2> DEFINE sub == [Of(c) EXCEPT !.row = "REJECTED"]
  <2>1. Finish(c, sub, FALSE)
    BY <1>4 DEF ReadPosition
  <2>2. /\ sub \in Signal /\ sub.in = Of(c).in /\ sub.by = Of(c).by /\ sub.plan = Of(c).plan
        /\ sub.status = Of(c).status /\ sub.row = "REJECTED" /\ sub.accepted = FALSE
    BY <1>3 DEF Signal
  <2> HIDE DEF sub
  <2> QED
    BY <1>1, <1>2, <2>1, <2>2, FinishStep
<1>5. CASE ~(price = 0 \/ Size(Of(c).in, price, equity) = 0)
  <2> DEFINE size == Size(Of(c).in, price, equity)
             n == [calls[c] EXCEPT !.pc = "submitting", !.qty = size]
  <2>1. size \in Nat /\ (Opening(Of(c).in.action) => Owed(Of(c), size))
    BY <1>1, <1>5, SizeOwed
  <2>2. /\ calls' = [calls EXCEPT ![c].pc = "submitting", ![c].qty = size] /\ subs' = subs
    BY <1>5 DEF ReadPosition
  <2> HIDE DEF size
  <2>3. /\ calls[c] \in [pc: Pcs, id: 0..Len(subs), qty: Nat] /\ calls[c].id # 0
        /\ calls \in [Callers -> [pc: Pcs, id: 0..Len(subs), qty: Nat]]
    BY <1>1 DEF PipeInv, SubsTyped
  <2>4. /\ n \in [pc: Pcs, id: 0..Len(subs), qty: Nat] /\ n.id = calls[c].id
        /\ n.pc = "submitting" /\ n.qty = size
    BY <2>1, <2>3 DEF Pcs
  <2>5. calls' = [calls EXCEPT ![c] = n]
    BY <2>2, <2>3
  <2>6. subs' = [subs EXCEPT ![calls[c].id] = Of(c)]
    <3>1. subs \in Seq(Signal)
      BY DEF PipeInv, SubsTyped
    <3> QED
      BY <2>2, <3>1 DEF Of
  <2>7. FlightOf(Of(c), "submitting", StrategyOf[c]) /\ n.pc \in Flying
    BY <1>3, <2>4 DEF FlightOf, Flying
  <2> HIDE DEF n
  <2> QED
    BY <1>1, <1>2, <1>3, <2>1, <2>3, <2>4, <2>5, <2>6, <2>7, RevisedStep
<1> QED
  BY <1>4, <1>5
\* An order leaves a whole position.
LEMMA ExecutedTyped ==
  ASSUME NEW in, NEW qty \in Nat, pos \in Int
  PROVE  Executed(in, qty) \in Int
BY DEF Executed, SizeClose, Distance, Lesser

\* Where the executor is, while it awaits the broker.
LEMMA AwaitsOrder ==
  ASSUME PipeInv, NEW c \in Callers, InFlight(c)
  PROVE  /\ Of(c) \in Signal /\ calls[c].qty \in Nat /\ pos \in Int
         /\ FlightOf(Of(c), calls[c].pc, StrategyOf[c])
BY FlightsTyped DEF PipeInv, FlightsAreOwn, RestTyped

\* The order is in, or a bracket is: the next bracket is submitted, or execute is done.
LEMMA GoOnStep ==
  ASSUME PipeInv, RestTyped', UNCHANGED <<last, intents>>, NEW c \in Callers, InFlight(c),
         NEW sub \in Signal, sub.in = Of(c).in, sub.by = Of(c).by, sub.plan = Of(c).plan,
         sub.status = Of(c).status, sub.row = "EXECUTED", sub.accepted = TRUE,
         sub.failed = FALSE,
         NEW next \in {"stopping", "targeting", "done"}, GoOn(c, sub, next)
  PROVE  PipeInv'
<1>1. CASE next = "done"
  BY <1>1, FinishStep DEF GoOn
<1>2. CASE next # "done"
  <2> DEFINE n == [calls[c] EXCEPT !.pc = next]
  <2>1. subs' = [subs EXCEPT ![calls[c].id] = sub] /\ calls' = [calls EXCEPT ![c].pc = next]
    BY <1>2 DEF GoOn
  <2>2. /\ calls[c] \in [pc: Pcs, id: 0..Len(subs), qty: Nat] /\ calls[c].id # 0
        /\ calls \in [Callers -> [pc: Pcs, id: 0..Len(subs), qty: Nat]]
    BY DEF PipeInv, SubsTyped, InFlight
  <2>3. /\ n \in [pc: Pcs, id: 0..Len(subs), qty: Nat] /\ n.id = calls[c].id /\ n.pc = next
    BY <1>2, <2>2 DEF Pcs
  <2>4. calls' = [calls EXCEPT ![c] = n]
    BY <2>1, <2>2
  <2> HIDE DEF n
  <2>5. n.pc \in Flying /\ n.pc \notin {"idle", "debating", "submitting"}
    BY <1>2, <2>3 DEF Flying
  <2>6. FlightOf(sub, n.pc, StrategyOf[c])
    <3>1. FlightOf(Of(c), calls[c].pc, StrategyOf[c])
      BY AwaitsOrder
    <3> QED
      BY <1>2, <2>3, <3>1 DEF FlightOf
  <2> QED
    BY <2>1, <2>2, <2>3, <2>4, <2>5, <2>6, RevisedStep
<1> QED
  BY <1>1, <1>2

\* The broker takes the order.
LEMMA OrderAcceptedStep ==
  ASSUME PipeInv, NEW c \in Callers, OrderAccepted(c)
  PROVE  PipeInv'
<1> DEFINE sub == [Of(c) EXCEPT !.row = "EXECUTED", !.accepted = TRUE]
<1>1. /\ InFlight(c) /\ UNCHANGED <<gate, streak, intents, llm>>
      /\ pos' = Executed(Of(c).in, calls[c].qty) /\ GoOn(c, sub, AfterEntry(Of(c).in))
  BY DEF OrderAccepted, InFlight
<1>2. /\ Of(c) \in Signal /\ calls[c].qty \in Nat /\ pos \in Int
      /\ FlightOf(Of(c), calls[c].pc, StrategyOf[c])
  BY <1>1, AwaitsOrder
<1>3. RestTyped' /\ UNCHANGED <<last, intents>>
  BY <1>1, <1>2, ExecutedTyped, ExecutorRest DEF PipeInv
<1>4. /\ sub \in Signal /\ sub.in = Of(c).in /\ sub.by = Of(c).by /\ sub.plan = Of(c).plan
      /\ sub.status = Of(c).status /\ sub.row = "EXECUTED" /\ sub.accepted = TRUE
      /\ sub.failed = FALSE
  BY <1>2 DEF Signal, FlightOf
<1>5. AfterEntry(Of(c).in) \in {"stopping", "targeting", "done"}
  BY DEF AfterEntry
<1> HIDE DEF sub
<1> QED
  BY <1>1, <1>3, <1>4, <1>5, GoOnStep

\* The broker rejects the order.
LEMMA OrderRejectedStep ==
  ASSUME PipeInv, NEW c \in Callers, OrderRejected(c)
  PROVE  PipeInv'
<1> DEFINE sub == [Of(c) EXCEPT !.row = "REJECTED"]
<1>1. /\ InFlight(c) /\ UNCHANGED <<gate, streak, intents, llm, pos>> /\ calls[c].pc = "submitting"
      /\ Finish(c, sub, FALSE)
  BY DEF OrderRejected, InFlight
<1>2. /\ Of(c) \in Signal /\ pos \in Int /\ FlightOf(Of(c), calls[c].pc, StrategyOf[c])
  BY <1>1, AwaitsOrder
<1>3. RestTyped' /\ UNCHANGED <<last, intents>>
  BY <1>1, <1>2, ExecutorRest DEF PipeInv
<1>4. /\ sub \in Signal /\ sub.in = Of(c).in /\ sub.by = Of(c).by /\ sub.plan = Of(c).plan
      /\ sub.status = Of(c).status /\ sub.row = "REJECTED" /\ sub.accepted = FALSE
  BY <1>1, <1>2 DEF Signal, FlightOf
<1> HIDE DEF sub
<1> QED
  BY <1>1, <1>3, <1>4, FinishStep

\* The order throws, executed or not.
LEMMA OrderThrowsStep ==
  ASSUME PipeInv, NEW c \in Callers, NEW executed \in BOOLEAN, OrderThrows(c, executed)
  PROVE  PipeInv'
<1> DEFINE sub == [Of(c) EXCEPT !.row = "REJECTED", !.failed = TRUE, !.accepted = executed]
<1>1. /\ InFlight(c) /\ UNCHANGED <<gate, streak, intents, llm>>
      /\ pos' \in {pos, Executed(Of(c).in, calls[c].qty)} /\ Finish(c, sub, FALSE)
  BY DEF OrderThrows, InFlight
<1>2. /\ Of(c) \in Signal /\ calls[c].qty \in Nat /\ pos \in Int
  BY <1>1, AwaitsOrder
<1>3. RestTyped' /\ UNCHANGED <<last, intents>>
  BY <1>1, <1>2, ExecutedTyped, ExecutorRest DEF PipeInv
<1>4. /\ sub \in Signal /\ sub.in = Of(c).in /\ sub.by = Of(c).by /\ sub.plan = Of(c).plan
      /\ sub.status = Of(c).status /\ sub.row = "REJECTED" /\ sub.failed = TRUE
  BY <1>2 DEF Signal
<1> HIDE DEF sub
<1> QED
  BY <1>1, <1>3, <1>4, FinishStep

\* The stop or the target is answered.
LEMMA BracketAnsweredStep ==
  ASSUME PipeInv, NEW c \in Callers, BracketAnswered(c)
  PROVE  PipeInv'
<1> DEFINE next == IF calls[c].pc = "stopping" /\ Of(c).in.target THEN "targeting" ELSE "done"
<1>1. /\ InFlight(c) /\ UNCHANGED <<gate, streak, intents, llm, pos>>
      /\ calls[c].pc \in {"stopping", "targeting"} /\ GoOn(c, Of(c), next)
  BY DEF BracketAnswered, InFlight
<1>2. next \in {"stopping", "targeting", "done"}
  OBVIOUS
<1> HIDE DEF next
<1>3. /\ Of(c) \in Signal /\ pos \in Int /\ FlightOf(Of(c), calls[c].pc, StrategyOf[c])
  BY <1>1, AwaitsOrder
<1>4. RestTyped' /\ UNCHANGED <<last, intents>>
  BY <1>1, <1>3, ExecutorRest DEF PipeInv
<1>5. Of(c).row = "EXECUTED" /\ Of(c).accepted = TRUE /\ Of(c).failed = FALSE
  BY <1>1, <1>3 DEF FlightOf
<1> QED
  BY <1>1, <1>2, <1>3, <1>4, <1>5, GoOnStep

\* The stop or the target throws.
LEMMA BracketThrowsStep ==
  ASSUME PipeInv, NEW c \in Callers, BracketThrows(c)
  PROVE  PipeInv'
<1> DEFINE sub == [Of(c) EXCEPT !.row = "REJECTED", !.failed = TRUE]
<1>1. /\ InFlight(c) /\ UNCHANGED <<gate, streak, intents, llm, pos>> /\ Finish(c, sub, FALSE)
  BY DEF BracketThrows, InFlight
<1>2. Of(c) \in Signal /\ pos \in Int
  BY <1>1, AwaitsOrder
<1>3. RestTyped' /\ UNCHANGED <<last, intents>>
  BY <1>1, <1>2, ExecutorRest DEF PipeInv
<1>4. /\ sub \in Signal /\ sub.in = Of(c).in /\ sub.by = Of(c).by /\ sub.plan = Of(c).plan
      /\ sub.status = Of(c).status /\ sub.row = "REJECTED" /\ sub.failed = TRUE
  BY <1>2 DEF Signal
<1> HIDE DEF sub
<1> QED
  BY <1>1, <1>3, <1>4, FinishStep
\* An idle caller is typed.
LEMMA IdleTyped ==
  ASSUME SubsTyped
  PROVE  Idle \in [pc: Pcs, id: 0..Len(subs), qty: Nat] /\ Idle.pc = "idle"
<1>1. Len(subs) \in Nat
  BY DEF SubsTyped
<1> QED
  BY <1>1 DEF Idle, Pcs

\* The position could not be read: the row is left as it was inserted.
LEMMA PositionThrowsStep ==
  ASSUME PipeInv, NEW c \in Callers, PositionThrows(c)
  PROVE  PipeInv'
<1> DEFINE sub == [Of(c) EXCEPT !.failed = TRUE]
<1>1. /\ InFlight(c) /\ calls[c].pc = "reading" /\ UNCHANGED <<gate, streak, intents, llm, pos>>
      /\ calls' = [calls EXCEPT ![c] = Idle]
      /\ subs' = [subs EXCEPT ![calls[c].id].failed = TRUE]
  BY DEF PositionThrows, InFlight
<1>2. Of(c) \in Signal /\ pos \in Int
  BY <1>1, FlightsTyped DEF PipeInv, RestTyped
<1>3. RestTyped' /\ UNCHANGED <<last, intents>>
  BY <1>1, <1>2, ExecutorRest DEF PipeInv
<1>4. FlightOf(Of(c), "reading", StrategyOf[c])
  BY <1>1 DEF PipeInv, FlightsAreOwn
<1>5. /\ sub \in Signal /\ sub.in = Of(c).in /\ sub.by = Of(c).by /\ sub.plan = Of(c).plan
      /\ sub.status = Of(c).status /\ sub.row = "CREATED" /\ sub.failed = TRUE
      /\ sub.accepted = FALSE
  BY <1>2, <1>4 DEF Signal, FlightOf
<1>6. subs' = [subs EXCEPT ![calls[c].id] = sub]
  BY <1>1 DEF Of
<1> HIDE DEF sub
<1>7. Told(sub) /\ sub.row # "none"
  BY <1>4, <1>5 DEF Told, FlightOf
<1>8. /\ Idle \in [pc: Pcs, id: 0..Len(subs), qty: Nat] /\ Idle.pc = "idle"
      /\ Idle.pc \notin Flying
  BY IdleTyped DEF PipeInv, Flying
<1> QED
  BY <1>1, <1>3, <1>5, <1>6, <1>7, <1>8, RevisedStep

\* The debate of a plan, until it is decided.
LEMMA DebateStep ==
  ASSUME PipeInv, NEW c \in Callers,
         DebateFails(c) \/ DebateAbstains(c) \/ \E equity \in Equities : StartDebate(c, equity)
  PROVE  PipeInv'
<1>1. /\ UNCHANGED <<subs, last, recent, lock, streak, intents, pos>> /\ ~InFlight(c)
  BY DEF DebateFails, DebateAbstains, StartDebate, gate, InFlight
<1>2. CASE DebateFails(c) \/ DebateAbstains(c)
  <2>1. llm' \in [failures: 0..MaxFailures, open: BOOLEAN]
    <3>1. CASE DebateFails(c)
      <4> DEFINE n == Lesser(llm.failures + 1, MaxFailures)
                 opens == llm.open \/ n = MaxFailures
      <4>1. n \in 0..MaxFailures
        BY PipelineAssumption DEF Lesser, PipeInv, RestTyped
      <4>2. opens \in BOOLEAN
        OBVIOUS
      <4>3. llm' = [failures |-> n, open |-> opens]
        BY <3>1 DEF DebateFails
      <4> HIDE DEF n, opens
      <4> QED
        BY <4>1, <4>2, <4>3
    <3>2. CASE DebateAbstains(c)
      BY <3>2, AnswerTyped DEF DebateAbstains, PipeInv
    <3> QED
      BY <1>2, <3>1, <3>2
  <2>2. calls' = [calls EXCEPT ![c] = Idle]
    BY <1>2 DEF DebateFails, DebateAbstains
  <2>3. RestTyped'
    BY <1>1, <2>1 DEF PipeInv, RestTyped
  <2>4. Idle.pc \notin Flying /\ Idle \in [pc: Pcs, id: 0..Len(subs), qty: Nat] /\ Idle.pc = "idle"
    BY IdleTyped DEF PipeInv, Flying
  <2> QED
    BY <1>1, <2>2, <2>3, <2>4, CalmStep
<1>3. ASSUME NEW equity \in Equities, StartDebate(c, equity)
      PROVE  PipeInv'
  <2> DEFINE n == [calls[c] EXCEPT !.pc = "debating", !.qty = equity]
  <2>1. calls' = [calls EXCEPT ![c].pc = "debating", ![c].qty = equity] /\ llm' = llm
    BY <1>3 DEF StartDebate
  <2>2. /\ calls[c] \in [pc: Pcs, id: 0..Len(subs), qty: Nat] /\ equity \in Nat
        /\ calls \in [Callers -> [pc: Pcs, id: 0..Len(subs), qty: Nat]]
    BY PipelineAssumption DEF PipeInv, SubsTyped
  <2>3. /\ n \in [pc: Pcs, id: 0..Len(subs), qty: Nat] /\ n.pc = "debating" /\ n.qty = equity
        /\ calls' = [calls EXCEPT ![c] = n]
    BY <2>1, <2>2 DEF Pcs
  <2> HIDE DEF n
  <2>4. n.pc \notin Flying
    BY <2>3 DEF Flying
  <2>5. RestTyped'
    BY <1>1, <2>1 DEF PipeInv, RestTyped
  <2> QED
    BY <1>1, <2>3, <2>4, <2>5, CalmStep
<1> QED
  BY <1>2, <1>3

\* The end of submitSignal: the detector's streak is moved.
LEMMA AnswerStep ==
  ASSUME PipeInv, NEW c \in Callers, Answer(c)
  PROVE  PipeInv'
<1> DEFINE in == subs[calls[c].id].in
           stored == last[Key(c, in)]
           status == IF stored = 0 THEN "null" ELSE subs[stored].status
           reason == IF status = "REJECTED" THEN subs[stored].reason ELSE ""
           k == LoopKey(c, in)
           new == Recorded(streak[k], reason)
<1>1. /\ UNCHANGED <<subs, last, recent, lock, intents, llm, pos>> /\ ~InFlight(c)
      /\ calls[c].pc = "answering" /\ calls' = [calls EXCEPT ![c] = Idle]
      /\ streak' = [streak EXCEPT ![k] = new]
  BY DEF Answer, gate, InFlight
<1>2. in \in Input
  <2>1. calls[c].id \in 1..Len(subs) /\ subs \in Seq(Signal)
    <3>1. calls[c].id \in 0..Len(subs) /\ Len(subs) \in Nat
      BY FlightsTyped DEF PipeInv
    <3>2. calls[c].id # 0 /\ subs \in Seq(Signal)
      BY <1>1 DEF PipeInv, SubsTyped
    <3> QED
      BY <3>1, <3>2
  <2>2. subs[calls[c].id] \in Signal
    BY <2>1, ElementOfSeq
  <2> QED
    BY <2>2 DEF Signal
<1> HIDE DEF in
<1>3. reason \in Reasons
  <2>1. stored \in 0..Len(subs) /\ subs \in Seq(Signal) /\ Len(subs) \in Nat
    BY <1>2, KeysTyped DEF PipeInv, SubsTyped
  <2> HIDE DEF stored
  <2>2. stored # 0 => subs[stored].reason \in Reasons
    <3>1. stored # 0 => subs[stored] \in Signal
      BY <2>1, ElementOfSeq
    <3> QED
      BY <3>1 DEF Signal
  <2>3. CASE stored = 0
    BY <2>3 DEF Reasons
  <2>4. CASE stored # 0
    BY <2>2, <2>4 DEF Reasons
  <2> QED
    BY <2>3, <2>4
<1> HIDE DEF reason
<1>4. k \in LoopKeys
  BY <1>2, KeysTyped
<1> HIDE DEF k
<1>5. streak \in [LoopKeys -> [count: 0..MaxRepeats, reason: Reasons]]
      /\ streak[k] \in [count: 0..MaxRepeats, reason: Reasons]
  BY <1>4 DEF PipeInv, RestTyped
<1>6. new \in [count: 0..MaxRepeats, reason: Reasons]
  <2>1. MaxRepeats \in Nat \ {0}
    BY PipelineAssumption
  <2> DEFINE s == streak[k]
             count == IF s.reason = reason THEN Lesser(s.count + 1, MaxRepeats) ELSE 1
  <2>2. count \in 0..MaxRepeats
    BY <1>5, <2>1 DEF Lesser
  <2>3. new = IF reason = "" THEN NoStreak ELSE [count |-> count, reason |-> reason]
    BY DEF Recorded
  <2>4. NoStreak \in [count: 0..MaxRepeats, reason: Reasons]
    BY <2>1 DEF NoStreak, Reasons
  <2> HIDE DEF count, new
  <2>5. [count |-> count, reason |-> reason] \in [count: 0..MaxRepeats, reason: Reasons]
    BY <1>3, <2>2
  <2> QED
    BY <2>3, <2>4, <2>5
<1> HIDE DEF new
<1>7. RestTyped'
  BY <1>1, <1>5, <1>6 DEF PipeInv, RestTyped
<1>8. Idle.pc \notin Flying /\ Idle \in [pc: Pcs, id: 0..Len(subs), qty: Nat] /\ Idle.pc = "idle"
  BY IdleTyped DEF PipeInv, Flying
<1> QED
  BY <1>1, <1>7, <1>8, CalmStep

\* A step that leaves the submissions and the callers alone.
LEMMA QuietStep ==
  ASSUME PipeInv, RestTyped', UNCHANGED <<subs, last, intents, calls>>
  PROVE  PipeInv'
<1>1. SubsTyped'
  BY DEF PipeInv, SubsTyped
<1>2. \A c \in Callers : (InFlight(c)' <=> InFlight(c)) /\ Of(c)' = Of(c)
  BY DEF InFlight, Of
<1>3. FlightsAreOwn' /\ FlightsDiffer'
  BY <1>2 DEF PipeInv, FlightsAreOwn, FlightsDiffer, FlightOf
<1>4. RowsTellTrades' /\ PlansAreTaken' /\ PlansTradeOnce'
  BY <1>2 DEF PipeInv, RowsTellTrades, PlansAreTaken, PlansTradeOnce
<1>5. SizesAreOwed'
  BY <1>2 DEF PipeInv, SizesAreOwed, Planned, Owed
<1> QED
  BY <1>1, <1>3, <1>4, <1>5 DEF PipeInv

\* Timers that touch no submission, and positions that others leave.
LEMMA TimerStep ==
  ASSUME PipeInv,
         \/ \E k \in Keys : CooldownOver(k)
         \/ \E k \in LoopKeys : ForgetStreak(k)
         \/ LockExpires \/ CircuitCloses
         \/ \E p \in OutsideMoves : OutsideMove(p)
  PROVE  PipeInv'
<1>1. UNCHANGED <<subs, last, intents, calls>>
  BY DEF CooldownOver, ForgetStreak, LockExpires, CircuitCloses, OutsideMove, gate
<1>2. RestTyped'
  <2>1. ASSUME NEW k \in Keys, CooldownOver(k) PROVE RestTyped'
    BY <2>1 DEF CooldownOver, PipeInv, RestTyped
  <2>2. ASSUME NEW k \in LoopKeys, ForgetStreak(k) PROVE RestTyped'
    <3>1. NoStreak \in [count: 0..MaxRepeats, reason: Reasons]
      BY PipelineAssumption DEF NoStreak, Reasons
    <3> QED
      BY <2>2, <3>1 DEF ForgetStreak, PipeInv, RestTyped, gate
  <2>3. CASE LockExpires
    BY <2>3 DEF LockExpires, PipeInv, RestTyped
  <2>4. CASE CircuitCloses
    BY <2>4 DEF CircuitCloses, PipeInv, RestTyped, gate
  <2>5. ASSUME NEW p \in OutsideMoves, OutsideMove(p) PROVE RestTyped'
    BY <2>5, PipelineAssumption DEF OutsideMove, PipeInv, RestTyped, gate
  <2> QED
    BY <2>1, <2>2, <2>3, <2>4, <2>5
<1> QED
  BY <1>1, <1>2, QuietStep

\* expireSignals: the signal expires in memory, and is nobody's last one any more.
LEMMA ExpireSignalsStep ==
  ASSUME PipeInv, NEW k \in Keys, ExpireSignals(k)
  PROVE  PipeInv'
<1> DEFINE id == last[k]
           s == [subs[id] EXCEPT !.status = "EXPIRED"]
<1>1. /\ id # 0 /\ subs[id].status = "CREATED" /\ subs' = [subs EXCEPT ![id].status = "EXPIRED"]
      /\ last' = [last EXCEPT ![k] = 0]
      /\ UNCHANGED <<calls, recent, lock, streak, intents, llm, pos>>
  BY DEF ExpireSignals
<1>2. /\ subs \in Seq(Signal) /\ last \in [Keys -> 0..Len(subs)]
      /\ Len(subs) \in Nat /\ DOMAIN subs = 1..Len(subs)
  BY DEF PipeInv, SubsTyped
<1>3. id \in 1..Len(subs) /\ subs[id] \in Signal
  <2>1. id \in 0..Len(subs)
    BY <1>2
  <2> HIDE DEF id
  <2>2. id \in 1..Len(subs)
    BY <1>1, <1>2, <2>1
  <2> QED
    BY <1>2, <2>2, ElementOfSeq
<1>4. /\ s \in Signal /\ s.in = subs[id].in /\ s.by = subs[id].by /\ s.plan = subs[id].plan
      /\ s.status = "EXPIRED" /\ s.row = subs[id].row /\ s.accepted = subs[id].accepted
      /\ s.failed = subs[id].failed
  <2> HIDE DEF id
  <2> QED
    BY <1>3 DEF Signal
<1>5. /\ subs' \in Seq(Signal) /\ Len(subs') = Len(subs) /\ DOMAIN subs' = 1..Len(subs)
      /\ subs'[id] = s /\ \A i \in 1..Len(subs) : i # id => subs'[i] = subs[i]
  <2>1. subs' = [subs EXCEPT ![id] = s]
    BY <1>1, <1>2, <1>3
  <2> HIDE DEF id, s
  <2> QED
    BY <1>2, <1>3, <1>4, <2>1
<1>6. /\ last' \in [Keys -> 0..Len(subs)] /\ last'[k] = 0
      /\ \A j \in Keys : last'[j] # 0 => last[j] # 0 /\ last'[j] = last[j] /\ last[j] # id
  <2>1. \A j \in Keys : j # k /\ last[j] # 0 => last[j] # last[k]
    BY <1>1 DEF PipeInv, SubsTyped
  <2> QED
    BY <1>1, <1>2, <2>1
<1> HIDE DEF id, s
<1>7. SubsTyped'
  <2>1. ASSUME NEW j \in Keys, last'[j] # 0
        PROVE  subs'[last'[j]].status # "EXPIRED"
               /\ <<subs'[last'[j]].by, subs'[last'[j]].in.action>> = j
    <3>1. last[j] # 0 /\ last'[j] = last[j] /\ last[j] # id /\ last[j] \in 1..Len(subs)
      BY <1>2, <1>6, <2>1
    <3>2. subs'[last'[j]] = subs[last[j]]
      BY <1>5, <3>1
    <3> QED
      BY <3>1, <3>2 DEF PipeInv, SubsTyped
  <2>2. /\ calls' \in [Callers -> [pc: Pcs, id: 0..Len(subs'), qty: Nat]]
        /\ \A c \in Callers : calls'[c].pc \notin {"idle", "debating"} => calls'[c].id # 0
    BY <1>1, <1>5 DEF PipeInv, SubsTyped
  <2> QED
    BY <1>5, <1>6, <2>1, <2>2 DEF SubsTyped
<1>8. \A c \in Callers :
        /\ InFlight(c)' <=> InFlight(c)
        /\ InFlight(c) => Of(c)' = IF calls[c].id = id THEN s ELSE Of(c)
        /\ InFlight(c) /\ calls[c].id = id => Of(c) = subs[id]
        /\ InFlight(c) => /\ Of(c)'.in = Of(c).in /\ Of(c)'.by = Of(c).by
                         /\ Of(c)'.row = Of(c).row /\ Of(c)'.accepted = Of(c).accepted
                         /\ Of(c)'.failed = Of(c).failed
                         /\ Of(c)'.status \in {Of(c).status, "EXPIRED"}
  <2> SUFFICES ASSUME NEW c \in Callers
               PROVE  /\ InFlight(c)' <=> InFlight(c)
                      /\ InFlight(c) => Of(c)' = IF calls[c].id = id THEN s ELSE Of(c)
                      /\ InFlight(c) /\ calls[c].id = id => Of(c) = subs[id]
    BY <1>4
  <2>1. InFlight(c)' <=> InFlight(c)
    BY <1>1 DEF InFlight
  <2>2. InFlight(c) => calls[c].id \in 1..Len(subs)
    BY FlightsTyped DEF PipeInv
  <2> QED
    BY <1>1, <1>5, <2>1, <2>2 DEF Of
<1>9. FlightsAreOwn' /\ FlightsDiffer'
  <2>1. FlightsAreOwn'
    <3> SUFFICES ASSUME NEW c \in Callers, InFlight(c)'
                 PROVE  FlightOf(Of(c)', calls'[c].pc, StrategyOf[c])
      BY DEF FlightsAreOwn, FlightOf
    <3>1. FlightOf(Of(c), calls[c].pc, StrategyOf[c])
      BY <1>8 DEF PipeInv, FlightsAreOwn
    <3> QED
      BY <1>1, <1>8, <3>1 DEF FlightOf
  <2>2. FlightsDiffer'
    BY <1>1, <1>8 DEF PipeInv, FlightsDiffer
  <2> QED
    BY <2>1, <2>2
<1>10. RowsTellTrades'
  <2> SUFFICES ASSUME NEW i \in DOMAIN subs', \A c \in Callers : InFlight(c)' => calls'[c].id # i
               PROVE  Told(subs'[i])
    BY DEF RowsTellTrades, Told
  <2>1. i \in DOMAIN subs /\ \A c \in Callers : InFlight(c) => calls[c].id # i
    BY <1>1, <1>2, <1>5, <1>8
  <2>2. Told(subs[i])
    BY <2>1 DEF PipeInv, RowsTellTrades, Told
  <2>3. CASE i = id
    BY <1>4, <1>5, <2>2, <2>3 DEF Told
  <2>4. CASE i # id
    BY <1>2, <1>5, <2>1, <2>2, <2>4
  <2> QED
    BY <2>3, <2>4
<1>11. PlansAreTaken' /\ PlansTradeOnce'
  <2>1. \A i \in DOMAIN subs : subs'[i].plan = subs[i].plan /\ subs'[i].row = subs[i].row
    BY <1>2, <1>4, <1>5
  <2> QED
    BY <1>1, <1>2, <1>5, <2>1 DEF PipeInv, PlansAreTaken, PlansTradeOnce
<1>12. SizesAreOwed'
  <2> SUFFICES ASSUME NEW c \in Callers
               PROVE  /\ calls'[c].pc = "debating" => calls'[c].qty \in Equities
                      /\ InFlight(c)' /\ Opening(Of(c)'.in.action) /\ Of(c)'.by \in Debating
                           => Planned(Of(c)'.in)
                      /\ calls'[c].pc = "submitting" /\ Opening(Of(c)'.in.action)
                           => Owed(Of(c)', calls'[c].qty)
    BY DEF SizesAreOwed, Planned, Owed, Opening
  <2>1. calls'[c].pc = "submitting" => InFlight(c)
    BY <1>1 DEF InFlight
  <2> QED
    BY <1>1, <1>8, <2>1 DEF PipeInv, SizesAreOwed, Planned, Owed, Opening
<1>13. RestTyped'
  BY <1>1 DEF PipeInv, RestTyped
<1> QED
  BY <1>7, <1>9, <1>10, <1>11, <1>12, <1>13 DEF PipeInv

\* Nothing was submitted yet.
LEMMA PipeInitInv == Init => PipeInv
<1> SUFFICES ASSUME Init PROVE PipeInv
  OBVIOUS
<1>1. /\ subs = <<>> /\ Len(subs) = 0 /\ DOMAIN subs = {} /\ subs \in Seq(Signal)
      /\ calls = [c \in Callers |-> Idle] /\ last = [k \in Keys |-> 0]
  BY DEF Init
<1>2. \A c \in Callers : calls[c] = Idle /\ ~InFlight(c) /\ calls[c].pc = "idle"
  BY <1>1 DEF InFlight, Idle
<1>3. SubsTyped
  BY <1>1, <1>2 DEF SubsTyped, Idle, Pcs
<1>4. RestTyped
  <2>1. NoStreak \in [count: 0..MaxRepeats, reason: Reasons]
    BY PipelineAssumption DEF NoStreak, Reasons
  <2> QED
    BY <2>1, PipelineAssumption DEF Init, RestTyped
<1>5. /\ FlightsAreOwn /\ FlightsDiffer /\ RowsTellTrades /\ PlansAreTaken /\ PlansTradeOnce
      /\ SizesAreOwed
  BY <1>1, <1>2 DEF FlightsAreOwn, FlightsDiffer, RowsTellTrades, PlansAreTaken, PlansTradeOnce,
     SizesAreOwed
<1> QED
  BY <1>3, <1>4, <1>5 DEF PipeInv

\* A caller's await is over.
LEMMA ResumeStep ==
  ASSUME PipeInv, NEW c \in Callers, Resume(c)
  PROVE  PipeInv'
BY ReadPositionStep, PositionThrowsStep, OrderAcceptedStep, OrderRejectedStep, OrderThrowsStep,
   BracketAnsweredStep, BracketThrowsStep, AnswerStep DEF Resume

\* Every step of the pipeline preserves its invariant.
LEMMA PipeStep == PipeInv /\ [Next]_vars => PipeInv'
<1> SUFFICES ASSUME PipeInv, [Next]_vars PROVE PipeInv'
  OBVIOUS
<1>1. CASE UNCHANGED vars
  <2>1. UNCHANGED <<subs, last, intents, calls>> /\ RestTyped'
    BY <1>1 DEF vars, gate, PipeInv, RestTyped
  <2> QED
    BY <2>1, QuietStep
<1>2. ASSUME NEW c \in Callers, NEW in \in Offers[StrategyOf[c]],
             \/ Submit(c, in)
             \/ \E plan \in Plans, price \in Prices \ {0} : DebateOpens(c, in, plan, price)
             \/ DebateCloses(c, in)
      PROVE  PipeInv'
  BY <1>2, SubmitStep, DebateOpensStep, DebateClosesStep
<1>3. ASSUME NEW c \in Callers,
             \/ \E equity \in Equities : StartDebate(c, equity)
             \/ DebateFails(c) \/ DebateAbstains(c)
             \/ Resume(c)
      PROVE  PipeInv'
  BY <1>3, DebateStep, ResumeStep
<1>4. ASSUME NEW k \in Keys, CooldownOver(k) \/ ExpireSignals(k)
      PROVE  PipeInv'
  BY <1>4, TimerStep, ExpireSignalsStep
<1>5. CASE \/ \E k \in LoopKeys : ForgetStreak(k)
           \/ LockExpires \/ CircuitCloses
           \/ \E p \in OutsideMoves : OutsideMove(p)
  BY <1>5, TimerStep
<1> QED
  BY <1>1, <1>2, <1>3, <1>4, <1>5 DEF Next

\* The invariant holds of every behaviour.
LEMMA PipeAlways == Spec => []PipeInv
<1> QED
  BY PipeInitInv, PipeStep, PTL DEF Spec

\* The state of the pipeline keeps its type, however many callers and signals there
\* are: the last signal of a key is of that key and has not expired.
THEOREM PipelineTypeCorrect == Spec => []TypeOK
<1>1. PipeInv => TypeOK
  BY PipeInvGives
<1> QED
  BY <1>1, PipeAlways, PTL

\* Once execute has returned or thrown, the row of the signal says what became of
\* its order; one still CREATED is that of a position that could not be read.
THEOREM RowsTell == Spec => []RowsTellTrades
<1>1. PipeInv => RowsTellTrades
  BY PipeInvGives
<1> QED
  BY <1>1, PipeAlways, PTL

\* Overlapping evaluations of a candle hand a plan to the executor at most once.
THEOREM PlansOnce == Spec => []PlansTradeOnce
<1>1. PipeInv => PlansTradeOnce
  BY PipeInvGives
<1> QED
  BY <1>1, PipeAlways, PTL

\* An entry goes out with the size its engine owes it.
THEOREM SizesSafe == Spec => []SizesAreSafe
<1>1. PipeInv => SizesAreSafe
  BY PipeInvGives
<1> QED
  BY <1>1, PipeAlways, PTL
-----------------------------------------------------------------------------
(* Entries do not race: the lock of the symbol, and the cooldown of the key *)

\* The submissions in flight were in flight before, and are of the same inputs.
Continues == \A d \in Callers : InFlight(d)' => InFlight(d) /\ Of(d)'.in = Of(d).in

\* A step that launches nothing, and leaves lock and cooldowns to those in flight.
LEMMA ContinuingStep ==
  ASSUME EntriesHold, EntriesDoNotRace, Continues,
         \A d \in Callers : InFlight(d) /\ Opening(Of(d).in.action) =>
           lock' = lock /\ (Key(d, Of(d).in) \in recent => Key(d, Of(d).in) \in recent')
  PROVE  EntriesHold' /\ EntriesDoNotRace'
<1>1. EntriesHold'
  <2> SUFFICES ASSUME NEW d \in Callers, InFlight(d)', Opening(Of(d)'.in.action)
               PROVE  lock' = StrategyOf[d] /\ Key(d, Of(d)'.in) \in recent'
    BY DEF EntriesHold, Key, Opening
  <2> QED
    BY DEF Continues, EntriesHold
<1>2. EntriesDoNotRace'
  <2> SUFFICES ASSUME NEW c \in Callers, NEW d \in Callers, c # d, InFlight(c)', InFlight(d)',
                      Opening(Of(c)'.in.action), Opening(Of(d)'.in.action)
               PROVE  StrategyOf[c] = StrategyOf[d] /\ Of(c)'.in.action # Of(d)'.in.action
    BY DEF EntriesDoNotRace, Opening
  <2> QED
    BY DEF Continues, EntriesDoNotRace
<1> QED
  BY <1>1, <1>2

\* Finish and GoOn: one submission is rewritten, with its input, and its caller stays
\* where it is in the table, or has left it.
LEMMA ExecutorContinues ==
  ASSUME PipeInv, NEW c \in Callers, InFlight(c), NEW sub \in Signal, sub.in = Of(c).in,
         \/ \E ok \in BOOLEAN : Finish(c, sub, ok)
         \/ \E next : GoOn(c, sub, next)
  PROVE  Continues
<1>1. /\ subs \in Seq(Signal) /\ calls[c].id \in 1..Len(subs) /\ DOMAIN subs = 1..Len(subs)
      /\ calls \in [Callers -> [pc: Pcs, id: 0..Len(subs), qty: Nat]]
      /\ calls[c] \in [pc: Pcs, id: 0..Len(subs), qty: Nat]
  BY FlightsTyped DEF PipeInv, SubsTyped
<1>2. ASSUME NEW s \in Signal, s.in = Of(c).in, subs' = [subs EXCEPT ![calls[c].id] = s],
             NEW n, calls' = [calls EXCEPT ![c] = n],
             n.pc \in {"idle", "answering"} \/ n.id = calls[c].id
      PROVE  Continues
  <2> SUFFICES ASSUME NEW d \in Callers, InFlight(d)' PROVE InFlight(d) /\ Of(d)'.in = Of(d).in
    BY DEF Continues
  <2>1. InFlight(d) /\ calls'[d].id = calls[d].id
    <3>1. CASE d = c
      BY <1>1, <1>2, <3>1 DEF InFlight
    <3>2. CASE d # c
      BY <1>1, <1>2, <3>2 DEF InFlight
    <3> QED
      BY <3>1, <3>2
  <2>2. calls[d].id \in 1..Len(subs)
    BY <2>1, FlightsTyped DEF PipeInv
  <2> QED
    BY <1>1, <1>2, <2>1, <2>2 DEF Of
<1>3. ASSUME NEW ok \in BOOLEAN, Finish(c, sub, ok)
      PROVE  Continues
  <2> DEFINE rejected == [sub EXCEPT !.status = "REJECTED", !.reason = "executor"]
             s == IF ok THEN sub ELSE rejected
  <2>1. rejected \in Signal /\ rejected.in = sub.in
    BY DEF Signal, Reasons
  <2> HIDE DEF rejected
  <2>2. s \in Signal /\ s.in = Of(c).in
    BY <2>1
  <2>3. subs' = [subs EXCEPT ![calls[c].id] = s] /\ Returns(c, calls[c].id)
    BY <1>3 DEF Finish, rejected
  <2> HIDE DEF s
  <2>4. calls[c].id \in Nat \ {0}
    BY <1>1, FlightsTyped DEF PipeInv
  <2>5. PICK n \in [pc: Pcs, id: 0..calls[c].id, qty: Nat] :
          calls' = [calls EXCEPT ![c] = n] /\ n.pc \in {"idle", "answering"}
    BY <2>3, <2>4, ReturnsTyped
  <2> QED
    BY <1>2, <2>2, <2>3, <2>5
<1>4. ASSUME NEW next, GoOn(c, sub, next)
      PROVE  Continues
  <2>1. CASE next = "done"
    <3>1. Finish(c, sub, TRUE)
      BY <1>4, <2>1 DEF GoOn
    <3> QED
      BY <1>3, <3>1
  <2>2. CASE next # "done"
    <3> DEFINE n == [calls[c] EXCEPT !.pc = next]
    <3>1. subs' = [subs EXCEPT ![calls[c].id] = sub] /\ calls' = [calls EXCEPT ![c] = n]
      BY <1>1, <1>4, <2>2 DEF GoOn
    <3>2. n.id = calls[c].id
      BY <1>1
    <3> HIDE DEF n
    <3> QED
      BY <1>2, <3>1, <3>2
  <2> QED
    BY <2>1, <2>2
<1> QED
  BY <1>3, <1>4

\* An await that is over launches nothing, and touches neither lock nor cooldown.
LEMMA ResumeContinues ==
  ASSUME PipeInv, NEW c \in Callers, Resume(c)
  PROVE  Continues /\ UNCHANGED <<lock, recent>>
<1>1. ASSUME InFlight(c) PROVE Of(c) \in Signal
  BY <1>1, AwaitsOrder
<1>2. /\ [Of(c) EXCEPT !.row = "REJECTED"].in = Of(c).in
      /\ InFlight(c) => [Of(c) EXCEPT !.row = "REJECTED"] \in Signal
  BY <1>1 DEF Signal
<1>3. ASSUME NEW price \in Prices, NEW equity \in Equities, ReadPosition(c, price, equity)
      PROVE  Continues /\ UNCHANGED <<lock, recent>>
  <2>1. InFlight(c) /\ UNCHANGED <<lock, recent>>
    BY <1>3 DEF ReadPosition, InFlight, gate
  <2>2. CASE Finish(c, [Of(c) EXCEPT !.row = "REJECTED"], FALSE)
    <3> DEFINE sub == [Of(c) EXCEPT !.row = "REJECTED"]
    <3>1. sub \in Signal /\ sub.in = Of(c).in /\ Finish(c, sub, FALSE)
      BY <1>2, <2>1, <2>2
    <3> HIDE DEF sub
    <3> QED
      BY <2>1, <3>1, ExecutorContinues
  <2>3. CASE ~Finish(c, [Of(c) EXCEPT !.row = "REJECTED"], FALSE)
    <3> DEFINE qty == Size(Of(c).in, price, equity)
    <3>1. calls' = [calls EXCEPT ![c].pc = "submitting", ![c].qty = qty] /\ subs' = subs
      BY <1>3, <2>3 DEF ReadPosition
    <3> HIDE DEF qty
    <3>2. /\ calls \in [Callers -> [pc: Pcs, id: 0..Len(subs), qty: Nat]]
          /\ calls[c] \in [pc: Pcs, id: 0..Len(subs), qty: Nat]
      BY DEF PipeInv, SubsTyped
    <3>3. \A d \in Callers : calls'[d].id = calls[d].id /\ (InFlight(d)' => InFlight(d))
      <4> SUFFICES ASSUME NEW d \in Callers
                   PROVE  calls'[d].id = calls[d].id /\ (InFlight(d)' => InFlight(d))
        OBVIOUS
      <4>1. CASE d = c
        BY <2>1, <3>1, <3>2, <4>1
      <4>2. CASE d # c
        BY <3>1, <3>2, <4>2 DEF InFlight
      <4> QED
        BY <4>1, <4>2
    <3> QED
      BY <2>1, <3>1, <3>3 DEF Continues, Of
  <2> QED
    BY <2>2, <2>3
<1>4. CASE OrderAccepted(c)
  <2> DEFINE sub == [Of(c) EXCEPT !.row = "EXECUTED", !.accepted = TRUE]
  <2>1. InFlight(c) /\ UNCHANGED <<lock, recent>> /\ GoOn(c, sub, AfterEntry(Of(c).in))
    BY <1>4 DEF OrderAccepted, InFlight, gate
  <2>2. sub \in Signal /\ sub.in = Of(c).in
    BY <1>1, <2>1 DEF Signal
  <2> HIDE DEF sub
  <2> QED
    BY <2>1, <2>2, ExecutorContinues
<1>5. CASE OrderRejected(c)
  <2> DEFINE sub == [Of(c) EXCEPT !.row = "REJECTED"]
  <2>1. InFlight(c) /\ UNCHANGED <<lock, recent>> /\ Finish(c, sub, FALSE)
    BY <1>5 DEF OrderRejected, InFlight, gate
  <2>2. sub \in Signal /\ sub.in = Of(c).in
    BY <1>2, <2>1
  <2> HIDE DEF sub
  <2> QED
    BY <2>1, <2>2, ExecutorContinues
<1>6. ASSUME NEW executed \in BOOLEAN, OrderThrows(c, executed)
      PROVE  Continues /\ UNCHANGED <<lock, recent>>
  <2> DEFINE sub == [Of(c) EXCEPT !.row = "REJECTED", !.failed = TRUE, !.accepted = executed]
  <2>1. InFlight(c) /\ UNCHANGED <<lock, recent>> /\ Finish(c, sub, FALSE)
    BY <1>6 DEF OrderThrows, InFlight, gate
  <2>2. sub \in Signal /\ sub.in = Of(c).in
    BY <1>1, <1>6, <2>1 DEF Signal
  <2> HIDE DEF sub
  <2> QED
    BY <2>1, <2>2, ExecutorContinues
<1>7. CASE BracketAnswered(c)
  <2>1. InFlight(c) /\ UNCHANGED <<lock, recent>> /\ \E next : GoOn(c, Of(c), next)
    BY <1>7 DEF BracketAnswered, InFlight, gate
  <2> QED
    BY <1>1, <2>1, ExecutorContinues
<1>8. CASE BracketThrows(c)
  <2> DEFINE sub == [Of(c) EXCEPT !.row = "REJECTED", !.failed = TRUE]
  <2>1. InFlight(c) /\ UNCHANGED <<lock, recent>> /\ Finish(c, sub, FALSE)
    BY <1>8 DEF BracketThrows, InFlight, gate
  <2>2. sub \in Signal /\ sub.in = Of(c).in
    BY <1>1, <2>1 DEF Signal
  <2> HIDE DEF sub
  <2> QED
    BY <2>1, <2>2, ExecutorContinues
<1>9. CASE Answer(c)
  <2>1. subs' = subs /\ calls' = [calls EXCEPT ![c] = Idle] /\ UNCHANGED <<lock, recent>>
    BY <1>9 DEF Answer, gate
  <2>2. \A d \in Callers : InFlight(d)' => InFlight(d) /\ calls'[d] = calls[d]
    BY <2>1 DEF PipeInv, SubsTyped, InFlight, Idle
  <2> QED
    BY <2>1, <2>2 DEF Continues, Of
<1>10. CASE PositionThrows(c)
  <2>1. /\ subs' = [subs EXCEPT ![calls[c].id].failed = TRUE]
        /\ calls' = [calls EXCEPT ![c] = Idle] /\ UNCHANGED <<lock, recent>>
    BY <1>10 DEF PositionThrows, gate
  <2>2. subs \in Seq(Signal) /\ \A i \in DOMAIN subs : subs[i] \in Signal
    BY ElementOfSeq DEF PipeInv, SubsTyped
  <2>3. \A i \in DOMAIN subs : subs'[i].in = subs[i].in
    BY <2>1, <2>2 DEF Signal
  <2>4. \A d \in Callers : InFlight(d)' => InFlight(d) /\ calls'[d] = calls[d]
    BY <2>1 DEF PipeInv, SubsTyped, InFlight, Idle
  <2>5. \A d \in Callers : InFlight(d) => calls[d].id \in DOMAIN subs
    BY FlightsTyped DEF PipeInv
  <2> QED
    BY <2>1, <2>3, <2>4, <2>5 DEF Continues, Of
<1> QED
  BY <1>3, <1>4, <1>5, <1>6, <1>7, <1>8, <1>9, <1>10 DEF Resume

\* The gate: an entry passes it only on the lock of its own strategy and after the
\* cooldown of its key; what cools down is every entry of a strategy that overlaps.
LEMMA GateKeepsRacesOut ==
  ASSUME PipeInv, EntriesHold, EntriesDoNotRace, NEW c \in Callers, ~InFlight(c),
         NEW in \in Input, NEW plan, Gate(c, in, plan),
         \A d \in Callers : c # d /\ StrategyOf[c] = StrategyOf[d] /\ Opening(in.action) => in.cools
  PROVE  EntriesHold' /\ EntriesDoNotRace'
<1>1. /\ subs \in Seq(Signal) /\ Len(subs) \in Nat /\ DOMAIN subs = 1..Len(subs)
      /\ calls \in [Callers -> [pc: Pcs, id: 0..Len(subs), qty: Nat]]
  BY DEF PipeInv, SubsTyped
<1>2. recent \subseteq recent'
  BY DEF Gate, RefusedOutright, gate
<1>3. ASSUME NEW s, subs' = Append(subs, s), \A d \in Callers : d # c => calls'[d] = calls[d]
      PROVE  /\ \A d \in Callers : d # c => (InFlight(d)' <=> InFlight(d))
             /\ \A d \in Callers : d # c /\ InFlight(d) => Of(d)' = Of(d)
             /\ ~InFlight(c)' => Continues
  <2>1. \A d \in Callers : d # c => (InFlight(d)' <=> InFlight(d))
    BY <1>3 DEF InFlight
  <2>2. \A d \in Callers : d # c /\ InFlight(d) => Of(d)' = Of(d)
    <3> SUFFICES ASSUME NEW d \in Callers, d # c, InFlight(d) PROVE Of(d)' = Of(d)
      OBVIOUS
    <3>1. calls[d].id \in 1..Len(subs)
      BY FlightsTyped DEF PipeInv
    <3> QED
      BY <1>1, <1>3, <3>1 DEF Of
  <2> QED
    BY <2>1, <2>2 DEF Continues
<1>4. CASE RefusedOutright(c, in) \/ Dropped(c, in, plan) \/ Rejected(c, in, plan)
  <2>1. lock' = lock
    BY <1>4 DEF RefusedOutright, Dropped, Rejected, gate
  <2>2. \E s : subs' = Append(subs, s)
    BY <1>4 DEF RefusedOutright, Dropped, Rejected, Ended
  <2>3. CASE RefusedOutright(c, in)
    <3>1. calls' = calls
      BY <2>3 DEF RefusedOutright
    <3>2. Continues
      BY <1>3, <2>2, <3>1 DEF InFlight
    <3> QED
      BY <1>2, <2>1, <3>2, ContinuingStep
  <2>4. CASE Dropped(c, in, plan) \/ Rejected(c, in, plan)
    <3>1. Returns(c, Len(subs) + 1)
      BY <2>4 DEF Dropped, Rejected, Ended
    <3>2. Len(subs) + 1 \in Nat \ {0}
      BY <1>1
    <3>3. PICK n \in [pc: Pcs, id: 0..(Len(subs) + 1), qty: Nat] :
            calls' = [calls EXCEPT ![c] = n] /\ n.pc \in {"idle", "answering"}
      BY <3>1, <3>2, ReturnsTyped
    <3>4. ~InFlight(c)' /\ \A d \in Callers : d # c => calls'[d] = calls[d]
      BY <1>1, <3>3 DEF InFlight
    <3>5. Continues
      BY <1>3, <2>2, <3>4
    <3> QED
      BY <1>2, <2>1, <3>5, ContinuingStep
  <2> QED
    BY <1>4, <2>3, <2>4
<1>5. CASE Forwarded(c, in, plan) /\ ~CoolingDown(c, in) /\ ~LockedOut(c, in)
            /\ recent' = recent \union {Key(c, in)}
  <2> DEFINE s == Submission(c, in, plan, "CREATED", "", "CREATED")
             n == [pc |-> "reading", id |-> Len(subs) + 1, qty |-> 0]
  <2>1. /\ subs' = Append(subs, s) /\ calls' = [calls EXCEPT ![c] = n]
        /\ lock' = IF Opening(in.action) THEN StrategyOf[c] ELSE lock
    BY <1>5 DEF Forwarded
  <2>2. s.in = in /\ n.id = Len(subs) + 1
    BY DEF Submission
  <2> HIDE DEF s, n
  <2>3. Of(c)' = s /\ \A d \in Callers : d # c => calls'[d] = calls[d]
    BY <1>1, <2>1, <2>2 DEF Of
  <2>4. \A d \in Callers : d # c /\ InFlight(d)' => InFlight(d) /\ Of(d)' = Of(d)
    BY <1>3, <2>1, <2>3
  <2>5. ASSUME NEW d \in Callers, d # c, InFlight(d), Opening(Of(d).in.action), Opening(in.action)
        PROVE  StrategyOf[d] = StrategyOf[c] /\ Of(d).in.action # in.action
    <3>1. lock = StrategyOf[d] /\ Key(d, Of(d).in) \in recent
      BY <2>5 DEF EntriesHold
    <3>2. StrategyOf[d] = StrategyOf[c]
      BY <1>5, <2>5, <3>1, PipelineAssumption DEF LockedOut
    <3>3. Key(c, in) \notin recent
      BY <1>5, <2>5, <3>2 DEF CoolingDown
    <3> QED
      BY <3>1, <3>2, <3>3 DEF Key
  <2>6. EntriesHold'
    <3> SUFFICES ASSUME NEW d \in Callers, InFlight(d)', Opening(Of(d)'.in.action)
                 PROVE  lock' = StrategyOf[d] /\ Key(d, Of(d)'.in) \in recent'
      BY DEF EntriesHold, Key, Opening
    <3>1. CASE d = c
      BY <1>5, <2>1, <2>2, <2>3, <3>1
    <3>2. CASE d # c
      <4>1. InFlight(d) /\ Of(d)' = Of(d)
        BY <2>4, <3>2
      <4>2. lock = StrategyOf[d] /\ Key(d, Of(d).in) \in recent
        BY <4>1 DEF EntriesHold
      <4>3. lock' = lock
        BY <2>1, <2>5, <3>2, <4>1, <4>2
      <4> QED
        BY <1>2, <4>1, <4>2, <4>3
    <3> QED
      BY <3>1, <3>2
  <2>7. EntriesDoNotRace'
    <3> SUFFICES ASSUME NEW d \in Callers, NEW e \in Callers, d # e, InFlight(d)', InFlight(e)',
                        Opening(Of(d)'.in.action), Opening(Of(e)'.in.action)
                 PROVE  StrategyOf[d] = StrategyOf[e] /\ Of(d)'.in.action # Of(e)'.in.action
      BY DEF EntriesDoNotRace, Opening
    <3>1. CASE d = c
      BY <2>2, <2>3, <2>4, <2>5, <3>1
    <3>2. CASE e = c
      BY <2>2, <2>3, <2>4, <2>5, <3>2
    <3>3. CASE d # c /\ e # c
      <4>1. InFlight(d) /\ InFlight(e) /\ Of(d)' = Of(d) /\ Of(e)' = Of(e)
        BY <2>4, <3>3
      <4> QED
        BY <4>1 DEF EntriesDoNotRace
    <3> QED
      BY <3>1, <3>2, <3>3
  <2> QED
    BY <2>6, <2>7
<1> QED
  BY <1>4, <1>5 DEF Gate

\* A decision passes the gate or not; the plan of a debate changes only the size.
LEMMA DecisionsDoNotRace ==
  ASSUME PipeInv, EntriesHold, EntriesDoNotRace, NEW c \in Callers,
         NEW in \in Offers[StrategyOf[c]],
         \/ Submit(c, in)
         \/ \E plan \in Plans, price \in Prices \ {0} : DebateOpens(c, in, plan, price)
         \/ DebateCloses(c, in)
  PROVE  EntriesHold' /\ EntriesDoNotRace'
<1>1. in \in Input
  BY OffersTyped
<1>2. \A d \in Callers : c # d /\ StrategyOf[c] = StrategyOf[d] /\ Opening(in.action) => in.cools
  BY OverlapAssumption
<1>3. CASE Submit(c, in) \/ DebateCloses(c, in)
  <2>1. ~InFlight(c) /\ Gate(c, in, NoPlan)
    BY <1>3 DEF Submit, DebateCloses, InFlight
  <2> QED
    BY <1>1, <1>2, <2>1, GateKeepsRacesOut
<1>4. ASSUME NEW plan \in Plans, NEW price \in Prices \ {0}, DebateOpens(c, in, plan, price)
      PROVE  EntriesHold' /\ EntriesDoNotRace'
  <2> DEFINE size == PositionSize(calls[c].qty, RiskPerTrade, price, in.stop, Leverage)
             planned == [in EXCEPT !.qty = size]
  <2>1. calls[c].pc = "debating" /\ Gate(c, planned, plan)
    BY <1>4 DEF DebateOpens
  <2>2. ~InFlight(c)
    BY <2>1 DEF InFlight
  <2>3. size \in Nat
    <3>1. /\ calls[c].qty \in Nat /\ price \in Nat \ {0}
          /\ in.stop \in Nat /\ RiskPerTrade \in Nat /\ Leverage \in Nat
      BY <1>1, FlightsTyped, PipelineAssumption, SizingAssumption DEF PipeInv, Input
    <3> QED
      BY <3>1, WithinMeans
  <2> HIDE DEF size
  <2>4. planned \in Input /\ planned.action = in.action /\ planned.cools = in.cools
    BY <1>1, <2>3 DEF Input
  <2> HIDE DEF planned
  <2>5. \A d \in Callers :
          c # d /\ StrategyOf[c] = StrategyOf[d] /\ Opening(planned.action) => planned.cools
    BY <1>2, <2>4
  <2> QED
    BY <2>1, <2>2, <2>4, <2>5, GateKeepsRacesOut
<1> QED
  BY <1>3, <1>4

\* A cooldown or the lock ends only when no entry in flight still relies on it.
LEMMA TimersKeepRacesOut ==
  ASSUME TimersOutlast, PipeInv, EntriesHold, EntriesDoNotRace,
         (\E k \in Keys : CooldownOver(k)) \/ LockExpires
  PROVE  EntriesHold' /\ EntriesDoNotRace'
<1>1. UNCHANGED <<calls, subs>>
  BY DEF CooldownOver, LockExpires
<1>2. Continues
  BY <1>1 DEF Continues, InFlight, Of
<1>3. ASSUME NEW k \in Keys, CooldownOver(k)
      PROVE  EntriesHold' /\ EntriesDoNotRace'
  <2>1. lock' = lock /\ recent' = recent \ {k} /\ ~Held(k)
    BY <1>3 DEF CooldownOver
  <2>2. \A d \in Callers : InFlight(d) => Key(d, Of(d).in) # k
    BY <2>1 DEF Held
  <2> QED
    BY <1>2, <2>1, <2>2, ContinuingStep
<1>4. CASE LockExpires
  <2>1. \A a \in {"OPEN_LONG", "OPEN_SHORT"} : ~Held(<<lock, a>>)
    BY <1>4 DEF LockExpires
  <2>2. \A d \in Callers : ~(InFlight(d) /\ Opening(Of(d).in.action))
    <3> SUFFICES ASSUME NEW d \in Callers, InFlight(d), Opening(Of(d).in.action) PROVE FALSE
      OBVIOUS
    <3>1. Key(d, Of(d).in) = <<lock, Of(d).in.action>>
      BY DEF EntriesHold, Key
    <3>2. Of(d).in.action \in {"OPEN_LONG", "OPEN_SHORT"}
      BY DEF Opening
    <3> QED
      BY <2>1, <3>1, <3>2 DEF Held
  <2> QED
    BY <1>2, <2>2, ContinuingStep
<1> QED
  BY <1>3, <1>4

\* Every step keeps entries from racing.
LEMMA RaceStep ==
  ASSUME TimersOutlast, PipeInv, EntriesHold, EntriesDoNotRace, [Next]_vars
  PROVE  EntriesHold' /\ EntriesDoNotRace'
<1>1. ASSUME UNCHANGED <<calls, subs, recent, lock>>
      PROVE  EntriesHold' /\ EntriesDoNotRace'
  <2>1. Continues
    BY <1>1 DEF Continues, InFlight, Of
  <2> QED
    BY <1>1, <2>1, ContinuingStep
<1>2. CASE UNCHANGED vars
  BY <1>1, <1>2 DEF vars, gate
<1>3. ASSUME NEW c \in Callers, Resume(c)
      PROVE  EntriesHold' /\ EntriesDoNotRace'
  BY <1>3, ResumeContinues, ContinuingStep
<1>4. ASSUME NEW c \in Callers,
             \/ \E equity \in Equities : StartDebate(c, equity)
             \/ DebateFails(c) \/ DebateAbstains(c)
      PROVE  EntriesHold' /\ EntriesDoNotRace'
  <2>1. UNCHANGED <<subs, recent, lock>>
    BY <1>4 DEF StartDebate, DebateFails, DebateAbstains, gate
  <2>2. ~InFlight(c)' /\ \A d \in Callers : d # c => calls'[d] = calls[d]
    <3>1. calls \in [Callers -> [pc: Pcs, id: 0..Len(subs), qty: Nat]]
          /\ calls[c] \in [pc: Pcs, id: 0..Len(subs), qty: Nat]
      BY DEF PipeInv, SubsTyped
    <3>2. CASE DebateFails(c) \/ DebateAbstains(c)
      BY <3>1, <3>2 DEF DebateFails, DebateAbstains, Idle, InFlight
    <3>3. ASSUME NEW equity \in Equities, StartDebate(c, equity)
          PROVE  ~InFlight(c)' /\ \A d \in Callers : d # c => calls'[d] = calls[d]
      BY <3>1, <3>3 DEF StartDebate, InFlight
    <3> QED
      BY <1>4, <3>2, <3>3
  <2>3. Continues
    BY <2>1, <2>2 DEF Continues, InFlight, Of
  <2> QED
    BY <2>1, <2>3, ContinuingStep
<1>5. ASSUME NEW k \in Keys, ExpireSignals(k)
      PROVE  EntriesHold' /\ EntriesDoNotRace'
  <2>1. subs' = [subs EXCEPT ![last[k]].status = "EXPIRED"] /\ UNCHANGED <<calls, recent, lock>>
    BY <1>5 DEF ExpireSignals
  <2>2. subs \in Seq(Signal) /\ \A i \in DOMAIN subs : subs[i] \in Signal
    BY ElementOfSeq DEF PipeInv, SubsTyped
  <2>3. \A i \in DOMAIN subs : subs'[i].in = subs[i].in
    BY <2>1, <2>2 DEF Signal
  <2>4. \A d \in Callers : InFlight(d) => calls[d].id \in DOMAIN subs
    BY FlightsTyped DEF PipeInv
  <2>5. Continues
    BY <2>1, <2>3, <2>4 DEF Continues, InFlight, Of
  <2> QED
    BY <2>1, <2>5, ContinuingStep
<1>6. CASE \/ \E k \in LoopKeys : ForgetStreak(k)
           \/ CircuitCloses
           \/ \E p \in OutsideMoves : OutsideMove(p)
  BY <1>1, <1>6 DEF ForgetStreak, CircuitCloses, OutsideMove, gate
<1>7. ASSUME NEW c \in Callers, NEW in \in Offers[StrategyOf[c]],
             \/ Submit(c, in)
             \/ \E plan \in Plans, price \in Prices \ {0} : DebateOpens(c, in, plan, price)
             \/ DebateCloses(c, in)
      PROVE  EntriesHold' /\ EntriesDoNotRace'
  BY <1>7, DecisionsDoNotRace
<1>8. CASE (\E k \in Keys : CooldownOver(k)) \/ LockExpires
  BY <1>8, TimersKeepRacesOut
<1> QED
  BY <1>2, <1>3, <1>4, <1>5, <1>6, <1>7, <1>8 DEF Next

\* While the timers outlast a submission, two entries are never in flight at once in
\* one direction, nor from two strategies.
THEOREM EntriesNeverRace ==
  ASSUME TimersOutlast
  PROVE  Spec => []EntriesDoNotRace
<1> DEFINE NoRace == PipeInv /\ EntriesHold /\ EntriesDoNotRace
<1>1. Init => NoRace
  <2> SUFFICES ASSUME Init PROVE EntriesHold /\ EntriesDoNotRace
    BY PipeInitInv
  <2>1. \A c \in Callers : ~InFlight(c)
    BY DEF Init, Idle, InFlight
  <2> QED
    BY <2>1 DEF EntriesHold, EntriesDoNotRace
<1>2. NoRace /\ [Next]_vars => NoRace'
  BY PipeStep, RaceStep
<1>3. NoRace => EntriesDoNotRace
  OBVIOUS
<1> HIDE DEF NoRace
<1> QED
  BY <1>1, <1>2, <1>3, PTL DEF Spec
=============================================================================
