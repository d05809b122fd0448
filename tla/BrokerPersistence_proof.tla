----------------------- MODULE BrokerPersistence_proof -----------------------
(* What the tables hold while a method of the broker runs, and why a restart *)
(* in the middle of it leaves no more than one gap.                          *)
EXTENDS BrokerPersistence, CollectionLemmas, SequenceTheorems, TLAPS

(* Types *)

\* A Map or a table of orders, by their ids, the first n numbers.
Book(f, n) ==
  /\ f = [i \in DOMAIN f |-> f[i]]
  /\ DOMAIN f \subseteq 1..n
  /\ \A i \in DOMAIN f : f[i] \in OrderRecord

\* Fills of the first n orders, and the statements a method may run about them.
FillsOf(n) == [order: 1..n, fee: Nat, pnl: Int, before: Int, after: Int]
Statements(n) ==
  [table: {"orders"}, id: 1..n, row: OrderRecord]
  \union [table: {"positions"}, id: {0}, row: PositionRecord]
  \union [table: {"fills"}, id: {0}, row: FillsOf(n)]
  \union [table: {"funding_payments", "wallets"}, id: {0}, row: Int]
  \union [table: {"reset"}, id: {0}, row: {"position", "orders", "fills", "funding"}]

Counted ==
  /\ created \in 0..MaxOrders /\ cleared \in 0..created
  /\ restarts \in 0..MaxRestarts /\ torn \in 0..restarts
MemoryTyped ==
  /\ Book(orders, created) /\ pos \in PositionRecord
  /\ fills \in Seq(FillsOf(created)) /\ funding \in Seq(Int)
  /\ wallet \in Int /\ unsaved \in Int
RowsTyped ==
  /\ rows = [orders |-> rows.orders, position |-> rows.position, fills |-> rows.fills,
             funding |-> rows.funding, spot |-> rows.spot]
  /\ Book(rows.orders, created) /\ rows.position \in PositionRecord
  /\ rows.fills \in Seq(FillsOf(created)) /\ rows.funding \in Seq(Int)
  /\ rows.spot \in Nat
TypeInv ==
  Counted /\ MemoryTyped /\ RowsTyped /\ writes \in Seq(Statements(created))
-----------------------------------------------------------------------------
(* What is pending brings the tables to what memory has *)

Pending(table) == {k \in DOMAIN writes : writes[k].table = table}
Resets(part) == {k \in Pending("reset") : writes[k].row = part}
PendingOrder(i) == {k \in Pending("orders") : writes[k].id = i}

\* An order that rests and has a quantity to trade.
Active(o) == Resting(o) /\ o.qty > 0
Mends(o) == Resting(o) => o.qty > 0

\* Order i as a table has it is as the book has it, if it can trade in either.
Matches(os, o, i) ==
  Active(o) \/ (i \in DOMAIN os /\ Active(os[i])) => i \in DOMAIN os /\ os[i] = o

\* The last statement about an order says what memory has of it.
OrdersQueued ==
  \A k \in Pending("orders") :
    \/ Matches(orders, writes[k].row, writes[k].id) /\ Mends(writes[k].row)
    \/ \E m \in PendingOrder(writes[k].id) : m > k

\* The row of an order about which nothing is pending agrees with memory.
RowTells(i) ==
  IF i \in DOMAIN rows.orders
  THEN Matches(orders, rows.orders[i], i) /\ (torn = 0 => Mends(rows.orders[i]))
  ELSE i \in DOMAIN orders => ~Active(orders[i])
OrdersTell == \A i \in 1..created : RowTells(i) \/ PendingOrder(i) # {}

PositionTells ==
  /\ \A k \in Pending("positions") : writes[k].row = pos
  /\ RestoredPosition(rows) = pos \/ Pending("positions") # {} \/ Resets("position") # {}

FillsTell ==
  /\ \A k \in Pending("fills") : fills = Append(rows.fills, writes[k].row)
  /\ \A j, k \in Pending("fills") : j = k
  /\ rows.fills = fills \/ Pending("fills") # {} \/ Resets("fills") # {}

FundingTells ==
  /\ \A k \in Pending("funding_payments") : funding = Append(rows.funding, writes[k].row)
  /\ \A j, k \in Pending("funding_payments") : j = k
  /\ rows.funding = funding \/ Pending("funding_payments") # {} \/ Resets("funding") # {}

SpotCovered ==
  /\ \A k \in Pending("wallets") : rows.spot + writes[k].row >= 0
  /\ \A j, k \in Pending("wallets") : j = k

\* A reset has cleared memory before its first statement.
ResetsClear ==
  Pending("reset") # {} =>
    orders = <<>> /\ pos = Flat /\ fills = <<>> /\ funding = <<>>

\* A position closed is the flat one.
ClosedIsFlat == pos.qty = 0 => pos = Flat

StoreInv == /\ OrdersQueued /\ OrdersTell /\ PositionTells /\ FillsTell /\ FundingTells
            /\ SpotCovered /\ ResetsClear /\ ClosedIsFlat
-----------------------------------------------------------------------------
(* Money and gaps *)

Nets(fs) == [k \in DOMAIN fs |-> fs[k].pnl - fs[k].fee]

\* The wallet in memory is what its fills and payments make it.
MoneyAdds == wallet = StartingUsdt + Sum(Nets(fills)) - Sum(funding) + unsaved

\* The gaps between the fills of a list.
InnerGaps(fs) == Gaps(fs, IF Len(fs) = 0 THEN 0 ELSE fs[Len(fs)].after)

GapsCounted ==
  /\ Cardinality(Gaps(fills, pos.qty)) <= torn
  /\ Cardinality(InnerGaps(rows.fills)) <= torn

PersistInv == TypeInv /\ StoreInv /\ MoneyAdds /\ GapsCounted /\ RestartKeepsProtection
-----------------------------------------------------------------------------
(* What the operators return *)

\* The order of the Map exists: a set of ids has one increasing enumeration.
LEMMA InOrderListsAll ==
  ASSUME NEW n \in Nat, NEW ids \in SUBSET (1..n)
  PROVE  /\ InOrder(ids) \in [1..Cardinality(ids) -> ids] /\ Cardinality(ids) \in Nat
         /\ Range(InOrder(ids)) = ids
<1> DEFINE Lists(s, t) == /\ s \in [1..Cardinality(t) -> t] /\ Range(s) = t
                          /\ \A j, k \in 1..Cardinality(t) : j < k => s[j] < s[k]
           X == {t \in SUBSET (1..n) : ~ \E s \in [1..Cardinality(t) -> t] : Lists(s, t)}
<1>1. IsFiniteSet(1..n)
  BY FS_Interval
<1>2. \A t \in SUBSET (1..n) : IsFiniteSet(t) /\ Cardinality(t) \in Nat
  BY <1>1, FS_Subset, FS_CardinalityType
<1>3. X = {}
  <2> SUFFICES ASSUME X # {} PROVE FALSE
    OBVIOUS
  <2>1. X \subseteq SUBSET (1..n)
    OBVIOUS
  <2>2. PICK t \in X : \A u \in X : u \subseteq t => u = t
    <3> DEFINE I == 1..n
    <3>1. IsFiniteSet(I) /\ X \subseteq SUBSET I /\ X # {}
      BY <1>1
    <3> HIDE DEF X, I
    <3> QED
      BY <3>1, SmallestSubset
  <2>3. t \in SUBSET (1..n) /\ ~ \E s \in [1..Cardinality(t) -> t] : Lists(s, t)
    OBVIOUS
  <2>4. CASE t = {}
    <3>1. Cardinality(t) = 0
      BY <2>4, FS_EmptySet
    <3> DEFINE s == [k \in 1..Cardinality(t) |-> 0]
    <3>2. s \in [1..Cardinality(t) -> t] /\ Lists(s, t)
      BY <2>4, <3>1 DEF Range
    <3> QED
      BY <2>3, <3>2
  <2>5. CASE t # {}
    <3> DEFINE m == Max(t)
               c == Cardinality(t)
    <3>1. m \in t /\ \A y \in t : m >= y
      <4>1. t \subseteq Int /\ (\A x \in t : x <= n) /\ n \in Int
        BY <2>3
      <4> QED
        BY <2>5, <4>1, MaxOfBounded
    <3> HIDE DEF m
    <3>2. t \ {m} \in SUBSET (1..n) /\ t \ {m} \notin X
      BY <2>2, <2>3, <3>1
    <3>3. PICK s \in [1..Cardinality(t \ {m}) -> t \ {m}] : Lists(s, t \ {m})
      BY <3>2
    <3>4. Cardinality(t \ {m}) = c - 1 /\ c \in Nat /\ c # 0
      <4>1. IsFiniteSet(t) /\ Cardinality(t) \in Nat
        BY <1>2, <2>3
      <4>2. Cardinality(t \ {m}) = Cardinality(t) - 1 /\ Cardinality(t \ {m}) \in Nat
        BY <1>2, <3>1, <3>2, <4>1, FS_RemoveElement
      <4> QED
        BY <4>1, <4>2
    <3> HIDE DEF c
    <3> DEFINE u == [k \in 1..c |-> IF k = c THEN m ELSE s[k]]
    <3>0. /\ s \in [1..(c - 1) -> t \ {m}]
          /\ \A j, k \in 1..(c - 1) : j < k => s[j] < s[k]
      BY <3>3, <3>4
    <3>5. \A k \in 1..c : k # c => s[k] \in t /\ s[k] # m /\ s[k] < m
      <4> SUFFICES ASSUME NEW k \in 1..c, k # c PROVE s[k] \in t /\ s[k] # m /\ s[k] < m
        OBVIOUS
      <4>1. k \in 1..(c - 1) /\ t \subseteq Int
        BY <2>3, <3>4
      <4>2. s[k] \in t \ {m}
        BY <3>0, <4>1
      <4> HIDE DEF X, Lists, u
      <4>3. s[k] \in t /\ s[k] # m
        BY <4>2
      <4>4. s[k] \in Int /\ m \in Int /\ m >= s[k]
        BY <3>1, <4>1, <4>3
      <4> QED
        BY <4>3, <4>4
    <3>6. u \in [1..c -> t]
      BY <3>1, <3>5
    <3>7. Range(u) = t
      <4>1. ASSUME NEW y \in t PROVE \E k \in 1..c : u[k] = y
        <5>1. CASE y = m
          BY <3>4, <5>1
        <5>2. CASE y # m
          <6>1. PICK k \in 1..(c - 1) : s[k] = y
            BY <3>3, <3>4, <5>2 DEF Range
          <6> QED
            BY <3>4, <6>1
        <5> QED
          BY <5>1, <5>2
      <4>2. Range(u) = {u[k] : k \in 1..c}
        BY DEF Range
      <4>3. \A k \in 1..c : u[k] \in t
        BY <3>6
      <4> HIDE DEF X, Lists, u
      <4> QED
        BY <4>1, <4>2, <4>3
    <3>8. \A j, k \in 1..c : j < k => u[j] < u[k]
      <4> SUFFICES ASSUME NEW j \in 1..c, NEW k \in 1..c, j < k PROVE u[j] < u[k]
        OBVIOUS
      <4>1. j # c /\ j \in 1..(c - 1)
        BY <3>4
      <4>0. u[j] = s[j] /\ u[k] = IF k = c THEN m ELSE s[k]
        BY <4>1
      <4> HIDE DEF X, Lists, u
      <4>2. CASE k = c
        BY <3>5, <4>0, <4>1, <4>2
      <4>3. CASE k # c
        <5>1. k \in 1..(c - 1)
          BY <3>4, <4>3
        <5>2. s[j] < s[k]
          BY <3>0, <4>1, <5>1
        <5> QED
          BY <4>0, <4>3, <5>2
      <4> QED
        BY <4>2, <4>3
    <3> HIDE DEF u
    <3>9. Lists(u, t)
      BY <3>6, <3>7, <3>8 DEF c
    <3> QED
      BY <2>3, <3>6, <3>9 DEF c
  <2> QED
    BY <2>4, <2>5
<1>4. PICK s \in [1..Cardinality(ids) -> ids] : Lists(s, ids)
  BY <1>3
<1>5. Lists(InOrder(ids), ids)
  BY <1>4 DEF InOrder
<1> QED
  BY <1>2, <1>5

\* Storing an order keeps a book one.
Stored(g, f, i, o) ==
  /\ g[i] = o /\ DOMAIN g = DOMAIN f \union {i}
  /\ \A j \in DOMAIN f \ {i} : g[j] = f[j]

LEMMA WithBook ==
  ASSUME NEW m \in Nat, NEW n \in Nat, m <= n, NEW f, Book(f, m),
         NEW i \in 1..n, NEW o \in OrderRecord
  PROVE  Book(With(f, i, o), n) /\ Stored(With(f, i, o), f, i, o)
<1>1. DOMAIN With(f, i, o) = DOMAIN f \union {i}
  BY DEF With
<1>2. \A j \in DOMAIN f \union {i} : With(f, i, o)[j] = IF j = i THEN o ELSE f[j]
  BY DEF With
<1>3. With(f, i, o) = [j \in DOMAIN With(f, i, o) |-> With(f, i, o)[j]]
  BY DEF With
<1> QED
  BY <1>1, <1>2, <1>3 DEF Book, Stored

\* A fill leaves a position whose quantity moved by what was traded, flat if closed.
LEMMA NettedType ==
  ASSUME NEW p \in PositionRecord, NEW o \in OrderRecord, o.qty > 0, NEW price \in Nat
  PROVE  /\ Netted(p, o, price) \in PositionRecord
         /\ Netted(p, o, price).qty = p.qty + Signed(o.side, o.qty)
         /\ Netted(p, o, price).qty = 0 => Netted(p, o, price) = Flat
<1> DEFINE new == p.qty + Signed(o.side, o.qty)
           total == Abs(p.qty) * p.entry + o.qty * price
<1>1. new \in Int
  BY DEF PositionRecord, OrderRecord, Signed, Sides
<1>2. ASSUME p.qty # 0, ~Opposes(o.side, p.qty)
      PROVE  Rounded(total, Abs(new)) \in Nat /\ new # 0
  <2>1. Abs(new) \in Nat /\ Abs(new) > 0 /\ new # 0
    BY <1>2 DEF PositionRecord, OrderRecord, Signed, Sides, Opposes, Abs
  <2>2. total \in Nat
    <3>1. Abs(p.qty) \in Nat /\ p.entry \in Nat /\ o.qty \in Nat
      BY DEF PositionRecord, OrderRecord, Abs
    <3>2. \A a, b \in Nat : a * b \in Nat
      OBVIOUS
    <3> QED
      BY <3>1, <3>2
  <2> HIDE DEF new, total
  <2>3. 2 * total + Abs(new) \in Nat /\ 2 * Abs(new) \in Nat /\ 2 * Abs(new) > 0
    BY <2>1, <2>2
  <2>4. \A a, b \in Nat : b > 0 => a \div b \in Nat
    OBVIOUS
  <2> QED
    BY <2>1, <2>3, <2>4 DEF Rounded
<1>3. CASE p.qty = 0
  BY <1>1, <1>3 DEF Netted, PositionRecord, OrderRecord, Signed, Sides
<1>4. CASE p.qty # 0 /\ Ends(p, o)
  BY <1>1, <1>4 DEF Netted, Ends, PositionRecord, OrderRecord, Flat
<1>5. CASE Opposes(o.side, p.qty) /\ ~Ends(p, o)
  BY <1>1, <1>5 DEF Netted, Ends, Opposes, PositionRecord, OrderRecord, Signed, Sides, Abs
<1>6. CASE p.qty # 0 /\ ~Opposes(o.side, p.qty)
  BY <1>1, <1>2, <1>6 DEF Netted, Ends, PositionRecord, OrderRecord
<1> QED
  BY <1>3, <1>4, <1>5, <1>6

\* The PnL it realizes and its fee are whole numbers of money units.
LEMMA MoneyTypes ==
  ASSUME NEW p \in PositionRecord, NEW o \in OrderRecord, NEW price \in Nat
  PROVE  Realized(p, o, price) \in Int /\ o.qty * price * FeeRate \in Nat
<1>1. /\ Least(o.qty, Abs(p.qty)) \in Int /\ Sign(p.qty) \in Int /\ price - p.entry \in Int
      /\ o.qty \in Nat
  BY DEF PositionRecord, OrderRecord, Least, Abs, Sign
<1>2. Realized(p, o, price) \in Int
  BY <1>1, MoneyAssumption DEF Realized
<1>3. \A a, b \in Nat : a * b \in Nat
  OBVIOUS
<1> QED
  BY <1>1, <1>2, <1>3, MoneyAssumption

\* A fill that does not end the exposure keeps its side.
LEMMA SameSide ==
  ASSUME NEW p \in PositionRecord, NEW o \in OrderRecord, NEW side \in Sides,
         ~Ends(p, o), Opposes(side, p.qty)
  PROVE  Opposes(side, p.qty + Signed(o.side, o.qty))
  BY DEF Ends, Opposes, Signed, Sides, PositionRecord, OrderRecord, Abs

\* A list of n values is a sequence of that length.
LEMMA ListIsSeq ==
  ASSUME NEW n \in Nat, NEW S, NEW s \in [1..n -> S]
  PROVE  s \in Seq(S) /\ Len(s) = n
  BY SeqDef

\* One sequence after another, place by place.
Joins(u, s, t) ==
  /\ Len(u) = Len(s) + Len(t)
  /\ \A k \in 1..Len(s) : u[k] = s[k]
  /\ \A k \in 1..Len(t) : u[Len(s) + k] = t[k]

LEMMA Joined ==
  ASSUME NEW S, NEW s \in Seq(S), NEW t \in Seq(S)
  PROVE  s \o t \in Seq(S) /\ Joins(s \o t, s, t)
<1> DEFINE m == Len(s)
           n == Len(t)
           u == s \o t
<1>1. m \in Nat /\ n \in Nat
  OBVIOUS
<1>2. /\ u \in Seq(S) /\ Len(u) = m + n
      /\ \A k \in 1..(m + n) : u[k] = IF k <= m THEN s[k] ELSE t[k - m]
  BY ConcatProperties
<1> HIDE DEF u, m, n
<1>3. ASSUME NEW k \in 1..m PROVE u[k] = s[k]
  <2>1. k \in 1..(m + n) /\ k <= m
    BY <1>1
  <2> QED
    BY <1>2, <2>1
<1>4. ASSUME NEW k \in 1..n PROVE u[m + k] = t[k]
  <2>1. m + k \in 1..(m + n) /\ ~(m + k <= m) /\ (m + k) - m = k
    BY <1>1
  <2> QED
    BY <1>2, <2>1
<1>5. u \in Seq(S) /\ Joins(u, s, t)
  BY <1>2, <1>3, <1>4 DEF Joins, m, n
<1> QED
  BY <1>5 DEF u

\* What a fill queues, in order: what came first, the position a, the canceled
\* brackets, and the position b, the fill f and the order o.
Queued(q, first, cancels, a, b, f, o) ==
  /\ Len(q) \in Nat /\ Len(q) = Len(first) + Len(cancels) + 4
  /\ \A k \in 1..Len(first) : q[k] = first[k]
  /\ \A k \in 1..Len(cancels) : q[Len(first) + 1 + k] = cancels[k]
  /\ q[Len(first) + 1] = a /\ q[Len(q) - 2] = b /\ q[Len(q) - 1] = f /\ q[Len(q)] = o

LEMMA FillQueue ==
  ASSUME NEW S, NEW first \in Seq(S), NEW cancels \in Seq(S),
         NEW a \in S, NEW b \in S, NEW f \in S, NEW o \in S
  PROVE  /\ first \o ((<<a>> \o cancels) \o <<b, f, o>>) \in Seq(S)
         /\ Queued(first \o ((<<a>> \o cancels) \o <<b, f, o>>), first, cancels, a, b, f, o)
<1> DEFINE s == <<a>>
           q == first \o ((<<a>> \o cancels) \o <<b, f, o>>)
           t == s \o cancels
           e == <<b, f, o>>
           u == t \o e
<1>1. s \in Seq(S) /\ Len(s) = 1 /\ s[1] = a
  OBVIOUS
<1>2. e \in Seq(S) /\ Len(e) = 3 /\ e[1] = b /\ e[2] = f /\ e[3] = o
  OBVIOUS
<1>3. Len(first) \in Nat /\ Len(cancels) \in Nat
  OBVIOUS
<1>0. q = first \o u
  OBVIOUS
<1> HIDE DEF s, e, q
<1>4. /\ t \in Seq(S) /\ Len(t) = 1 + Len(cancels)
      /\ t[1] = s[1] /\ \A k \in 1..Len(cancels) : t[1 + k] = cancels[k]
  <2>1. t \in Seq(S) /\ Joins(t, s, cancels)
    BY <1>1, Joined
  <2> HIDE DEF t, u
  <2>2. 1 \in 1..Len(s)
    BY <1>1
  <2> QED
    BY <1>1, <2>1, <2>2 DEF Joins
<1>5. /\ u \in Seq(S) /\ Len(u) = Len(t) + 3
      /\ \A k \in 1..Len(t) : u[k] = t[k]
      /\ \A k \in 1..3 : u[Len(t) + k] = e[k]
  <2> HIDE DEF t
  <2>1. u \in Seq(S) /\ Joins(u, t, e)
    BY <1>2, <1>4, Joined
  <2> HIDE DEF u
  <2> QED
    BY <1>2, <2>1 DEF Joins
<1>6. /\ q \in Seq(S) /\ Len(q) = Len(first) + Len(u)
      /\ \A k \in 1..Len(first) : q[k] = first[k]
      /\ \A k \in 1..Len(u) : q[Len(first) + k] = u[k]
  <2> HIDE DEF u
  <2>1. q \in Seq(S) /\ Joins(q, first, u)
    BY <1>0, <1>5, Joined
  <2> QED
    BY <2>1 DEF Joins
<1> HIDE DEF t, u
<1>7. Len(u) = Len(cancels) + 4 /\ Len(q) = Len(first) + Len(cancels) + 4 /\ Len(q) \in Nat
  BY <1>3, <1>4, <1>5, <1>6
<1>8. u[1] = a /\ \A k \in 1..Len(cancels) : u[1 + k] = cancels[k]
  <2>1. 1 \in 1..Len(t) /\ \A k \in 1..Len(cancels) : 1 + k \in 1..Len(t)
    BY <1>3, <1>4
  <2> QED
    BY <1>1, <1>4, <1>5, <2>1
<1>9. u[Len(cancels) + 2] = b /\ u[Len(cancels) + 3] = f /\ u[Len(cancels) + 4] = o
  <2>1. /\ Len(t) + 1 = Len(cancels) + 2 /\ Len(t) + 2 = Len(cancels) + 3
        /\ Len(t) + 3 = Len(cancels) + 4
    BY <1>3, <1>4
  <2> QED
    BY <1>2, <1>5, <2>1
<1>10. /\ q[Len(first) + 1] = a
       /\ \A k \in 1..Len(cancels) : q[Len(first) + (1 + k)] = cancels[k]
  <2>1. 1 \in 1..Len(u) /\ \A k \in 1..Len(cancels) : 1 + k \in 1..Len(u)
    BY <1>3, <1>7
  <2> QED
    BY <1>6, <1>8, <2>1
<1>11. /\ q[Len(first) + (Len(cancels) + 2)] = b /\ q[Len(first) + (Len(cancels) + 3)] = f
       /\ q[Len(first) + (Len(cancels) + 4)] = o
  <2>1. \A k \in {2, 3, 4} : Len(cancels) + k \in 1..Len(u)
    BY <1>3, <1>7
  <2> QED
    BY <1>6, <1>9, <2>1
<1>12. /\ Len(first) + (Len(cancels) + 2) = Len(q) - 2
       /\ Len(first) + (Len(cancels) + 3) = Len(q) - 1
       /\ Len(first) + (Len(cancels) + 4) = Len(q)
       /\ \A k \in 1..Len(cancels) : Len(first) + (1 + k) = Len(first) + 1 + k
  BY <1>3, <1>7
<1>13. q \in Seq(S) /\ Queued(q, first, cancels, a, b, f, o)
  BY <1>6, <1>7, <1>10, <1>11, <1>12 DEF Queued
<1> QED
  BY <1>13 DEF q
-----------------------------------------------------------------------------
(* Types *)

\* What is a statement, an order's record or a fill's stays one.
LEMMA RecordsGrow ==
  ASSUME NEW m \in Nat, NEW n \in Nat, m <= n
  PROVE  /\ FillsOf(m) \subseteq FillsOf(n) /\ Statements(m) \subseteq Statements(n)
         /\ \A f : Book(f, m) => Book(f, n)
<1>1. 1..m \subseteq 1..n
  OBVIOUS
<1>2. FillsOf(m) \subseteq FillsOf(n)
  BY <1>1 DEF FillsOf
<1>3. Statements(m) \subseteq Statements(n)
  BY <1>1, <1>2 DEF Statements
<1> QED
  BY <1>1, <1>2, <1>3 DEF Book

\* What the persister's methods queue are statements.
LEMMA StatementTypes ==
  ASSUME NEW n \in Nat
  PROVE  /\ \A i \in 1..n, o \in OrderRecord : SaveOrder(i, o) \in Statements(n)
         /\ \A p \in PositionRecord : SavePosition(p) \in Statements(n)
         /\ \A f \in FillsOf(n) : SaveFill(f) \in Statements(n)
         /\ \A x \in Int : SaveFunding(x) \in Statements(n) /\ MoveSpot(x) \in Statements(n)
<1>1. ASSUME NEW i \in 1..n, NEW o \in OrderRecord PROVE SaveOrder(i, o) \in Statements(n)
  BY DEF SaveOrder, Statements
<1>2. ASSUME NEW p \in PositionRecord PROVE SavePosition(p) \in Statements(n)
  BY DEF SavePosition, Statements
<1>3. ASSUME NEW f \in FillsOf(n) PROVE SaveFill(f) \in Statements(n)
  BY DEF SaveFill, Statements
<1>4. ASSUME NEW x \in Int
      PROVE  SaveFunding(x) \in Statements(n) /\ MoveSpot(x) \in Statements(n)
  BY DEF SaveFunding, MoveSpot, Statements
<1> QED
  BY <1>1, <1>2, <1>3, <1>4

\* An order that is filled or canceled is an order.
LEMMA SettledTypes ==
  ASSUME NEW o \in OrderRecord
  PROVE  Filled(o) \in OrderRecord /\ Canceled(o) \in OrderRecord
<1>1. [o EXCEPT !.status = "FILLED"] \in OrderRecord /\ [o EXCEPT !.status = "CANCELED"] \in OrderRecord
  BY DEF OrderRecord
<1> QED
  BY <1>1 DEF Filled, Canceled

\* submitOrder's record of a command is an order that rests.
LEMMA NewOrderType ==
  ASSUME TypeInv, NEW c \in Commands
  PROVE  NewOrder(c) \in OrderRecord /\ Resting(NewOrder(c))
  BY CommandsAssumption
  DEF TypeInv, MemoryTyped, NewOrder, OrderRecord, Command, PositionRecord, Least, Abs, Resting

\* Cancellations of orders of a book are statements about them.
LEMMA CancelRowsListed ==
  ASSUME NEW n \in Nat, NEW os, Book(os, n), NEW ids \in SUBSET (DOMAIN os)
  PROVE  LET cancels == CancelRows(os, InOrder(ids)) IN
         /\ cancels \in Seq(Statements(n))
         /\ \A k \in 1..Len(cancels) :
              \E j \in ids : cancels[k] = SaveOrder(j, Canceled(os[j]))
         /\ \A j \in ids : \E k \in 1..Len(cancels) : cancels[k] = SaveOrder(j, Canceled(os[j]))
         /\ Range(InOrder(ids)) = ids
<1> DEFINE m == Cardinality(ids)
           s == InOrder(ids)
           cancels == CancelRows(os, s)
<1>1. m \in Nat /\ s \in [1..m -> ids] /\ Range(s) = ids
  <2>1. ids \in SUBSET (1..n)
    BY DEF Book
  <2> QED
    BY <2>1, InOrderListsAll
<1> HIDE DEF s, m
<1>2. cancels = [k \in 1..m |-> SaveOrder(s[k], Canceled(os[s[k]]))]
  BY <1>1 DEF CancelRows
<1>3. \A j \in ids : SaveOrder(j, Canceled(os[j])) \in Statements(n)
  <2>1. ASSUME NEW j \in ids PROVE SaveOrder(j, Canceled(os[j])) \in Statements(n)
    <3>1. j \in 1..n /\ os[j] \in OrderRecord
      BY DEF Book
    <3> QED
      BY <3>1, SettledTypes, StatementTypes
  <2> QED
    BY <2>1
<1>4. cancels \in [1..m -> Statements(n)]
  BY <1>1, <1>2, <1>3
<1> HIDE DEF cancels
<1>5. cancels \in Seq(Statements(n)) /\ Len(cancels) = m
  BY <1>1, <1>4, SeqDef
<1>6. \A k \in 1..m : s[k] \in ids /\ cancels[k] = SaveOrder(s[k], Canceled(os[s[k]]))
  BY <1>1, <1>2
<1>7. \A k \in 1..m : \E j \in ids : cancels[k] = SaveOrder(j, Canceled(os[j]))
  BY <1>6
<1>8. ASSUME NEW j \in ids PROVE \E k \in 1..m : cancels[k] = SaveOrder(j, Canceled(os[j]))
  <2>1. PICK k \in 1..m : s[k] = j
    BY <1>1 DEF Range
  <2> QED
    BY <1>6, <2>1
<1> QED
  BY <1>1, <1>5, <1>7, <1>8 DEF cancels, s
-----------------------------------------------------------------------------
(* A fill: order i of os, which is the book, or the book with i just added *)

FillStep(os, i, price, first) ==
  /\ Idle /\ FillOrder(os, i, price, first)
  /\ created' \in created..MaxOrders /\ Book(os, created')
  /\ i \in DOMAIN os /\ Resting(os[i]) /\ os[i].qty > 0
  /\ DOMAIN orders \subseteq DOMAIN os
  /\ \A j \in DOMAIN os \ {i} : j \in DOMAIN orders /\ os[j] = orders[j]
  /\ price \in Nat
  /\ first = <<>> \/ first = <<SaveOrder(i, os[i])>>

\* The brackets it cancels.
Stale(os, i) ==
  IF Ends(pos, os[i]) THEN {j \in DOMAIN os : Resting(os[j]) /\ Bracket(os[j])} ELSE {}

\* What it makes of the orders.
LEMMA FillBook ==
  ASSUME TypeInv, NEW os, NEW i, NEW price, NEW first, FillStep(os, i, price, first)
  PROVE  /\ created' \in Nat /\ created <= created' /\ Book(orders', created')
         /\ DOMAIN orders' = DOMAIN os /\ orders'[i] = Filled(os[i]) /\ ~Resting(orders'[i])
         /\ \A j \in DOMAIN os \ {i} :
              orders'[j] = IF j \in Stale(os, i) THEN Canceled(os[j]) ELSE os[j]
<1> USE DEF FillStep
<1>1. created' \in Nat /\ created \in Nat /\ created <= created'
  BY BoundsAssumption DEF TypeInv, Counted
<1>2. Stale(os, i) \in SUBSET (DOMAIN os)
  BY DEF Stale
<1>3. Range(StaleBrackets(os, os[i])) = Stale(os, i)
  <2>1. CASE Ends(pos, os[i])
    BY <1>1, <1>2, <2>1, CancelRowsListed DEF StaleBrackets, Stale
  <2>2. CASE ~Ends(pos, os[i])
    BY <2>2 DEF StaleBrackets, Stale, Range
  <2> QED
    BY <2>1, <2>2
<1>4. orders' = [j \in DOMAIN os |->
                   IF j = i THEN Filled(os[j])
                   ELSE IF j \in Stale(os, i) THEN Canceled(os[j]) ELSE os[j]]
  BY <1>3 DEF FillOrder
<1>5. \A j \in DOMAIN os : os[j] \in OrderRecord
  BY DEF Book
<1>6. DOMAIN orders' = DOMAIN os /\ orders'[i] = Filled(os[i])
  BY <1>4
<1>7. \A j \in DOMAIN os \ {i} :
        orders'[j] = IF j \in Stale(os, i) THEN Canceled(os[j]) ELSE os[j]
  BY <1>4
<1>8. Filled(os[i]).status = "FILLED"
  BY <1>5 DEF Filled, OrderRecord
<1>9. \A j \in DOMAIN os : orders'[j] \in OrderRecord
  BY <1>5, <1>6, <1>7, SettledTypes
<1>10. orders' = [j \in DOMAIN orders' |-> orders'[j]]
  BY <1>4
<1>11. Book(orders', created')
  BY <1>6, <1>9, <1>10 DEF Book
<1> QED
  BY <1>1, <1>6, <1>7, <1>8, <1>11 DEF Resting

\* What it queues: the order's first row, cancellations, the position, the fill and
\* at last the order as it is; each bracket it cancels has a row.
Filling(os, i, f) ==
  LET n == Len(writes') IN
  /\ n \in Nat /\ n >= 4 /\ writes' \in Seq(Statements(created'))
  /\ writes'[n] = SaveOrder(i, orders'[i]) /\ writes'[n - 1] = SaveFill(f)
  /\ writes'[n - 2] = SavePosition(pos')
  /\ \A k \in 1..(n - 2) :
       \/ writes'[k] = SavePosition(pos')
       \/ \E o \in OrderRecord : writes'[k] = SaveOrder(i, o)
       \/ \E j \in Stale(os, i) \ {i} : writes'[k] = SaveOrder(j, orders'[j])
  /\ \A j \in Stale(os, i) \ {i} : \E k \in 1..n : writes'[k] = SaveOrder(j, orders'[j])

LEMMA FillQueues ==
  ASSUME TypeInv, NEW os, NEW i, NEW price, NEW first, FillStep(os, i, price, first)
  PROVE  /\ Filling(os, i, FillOf(i, os[i], price))
         /\ FillOf(i, os[i], price) \in FillsOf(created') /\ pos' \in PositionRecord
         /\ pos'.qty = pos.qty + Signed(os[i].side, os[i].qty) /\ (pos'.qty = 0 => pos' = Flat)
<1> DEFINE f == FillOf(i, os[i], price)
           cancels == CancelRows(os, StaleBrackets(os, os[i]))
           S == Statements(created')
<1>1. /\ created' \in Nat /\ os[i] \in OrderRecord /\ i \in 1..created' /\ price \in Nat
      /\ os[i].qty > 0 /\ Book(os, created') /\ i \in DOMAIN os /\ pos \in PositionRecord
  BY FillBook DEF FillStep, Book, TypeInv, MemoryTyped
<1>2. pos' = Netted(pos, os[i], price)
  BY DEF FillStep, FillOrder
<1>3. /\ pos' \in PositionRecord /\ pos'.qty = pos.qty + Signed(os[i].side, os[i].qty)
      /\ (pos'.qty = 0 => pos' = Flat)
  BY <1>1, <1>2, NettedType
<1>4. f \in FillsOf(created')
  <2>1. Realized(pos, os[i], price) \in Int /\ os[i].qty * price * FeeRate \in Nat
    BY <1>1, MoneyTypes
  <2>2. pos.qty \in Int /\ pos.qty + Signed(os[i].side, os[i].qty) \in Int
    BY <1>1 DEF PositionRecord, OrderRecord, Signed
  <2> QED
    BY <1>1, <2>1, <2>2 DEF FillOf, FillsOf
<1>5. /\ cancels \in Seq(S)
      /\ \A k \in 1..Len(cancels) :
           \E j \in Stale(os, i) : cancels[k] = SaveOrder(j, Canceled(os[j]))
      /\ \A j \in Stale(os, i) : \E k \in 1..Len(cancels) : cancels[k] = SaveOrder(j, Canceled(os[j]))
  <2>1. CASE Ends(pos, os[i])
    <3> DEFINE ids == {j \in DOMAIN os : Resting(os[j]) /\ Bracket(os[j])}
    <3>1. ids \in SUBSET (DOMAIN os)
      OBVIOUS
    <3>2. cancels = CancelRows(os, InOrder(ids)) /\ Stale(os, i) = ids
      BY <2>1 DEF StaleBrackets, Stale
    <3> HIDE DEF ids
    <3> QED
      BY <1>1, <3>1, <3>2, CancelRowsListed
  <2>2. CASE ~Ends(pos, os[i])
    <3>1. cancels = <<>> /\ Stale(os, i) = {}
      BY <2>2 DEF StaleBrackets, Stale, CancelRows
    <3> QED
      BY <3>1
  <2> QED
    BY <2>1, <2>2
<1>6. /\ SavePosition(pos') \in S /\ SaveFill(f) \in S /\ SaveOrder(i, Filled(os[i])) \in S
      /\ SaveOrder(i, os[i]) \in S
  BY <1>1, <1>3, <1>4, StatementTypes, SettledTypes
<1>7. writes' = first \o ((<<SavePosition(pos')>> \o cancels)
                  \o <<SavePosition(pos'), SaveFill(f), SaveOrder(i, Filled(os[i]))>>)
  BY <1>2 DEF FillStep, FillOrder, FillRows
<1>8. /\ first \in Seq(S) /\ Len(first) \in {0, 1}
      /\ \A k \in 1..Len(first) : first[k] = SaveOrder(i, os[i])
  <2> DEFINE w == SaveOrder(i, os[i])
  <2>1. w \in S /\ (first = <<>> \/ first = <<w>>)
    BY <1>6 DEF FillStep
  <2> HIDE DEF w, S, f, cancels
  <2>2. CASE first = <<>>
    BY <2>2
  <2>3. CASE first = <<w>>
    <3>1. <<w>> \in Seq(S) /\ Len(<<w>>) = 1 /\ <<w>>[1] = w
      BY <2>1
    <3>2. first \in Seq(S) /\ Len(first) = 1 /\ first[1] = w
      BY <2>3, <3>1
    <3> QED
      BY <3>2 DEF w
  <2>4. first \in Seq(S) /\ Len(first) \in {0, 1} /\ \A k \in 1..Len(first) : first[k] = w
    BY <2>1, <2>2, <2>3
  <2> QED
    BY <2>4 DEF w
<1> HIDE DEF f, cancels, S
<1> DEFINE n == Len(writes')
<1>9. /\ writes' \in Seq(S) /\ n \in Nat /\ n = Len(first) + Len(cancels) + 4
      /\ \A k \in 1..Len(first) : writes'[k] = first[k]
      /\ \A k \in 1..Len(cancels) : writes'[Len(first) + 1 + k] = cancels[k]
      /\ writes'[Len(first) + 1] = SavePosition(pos')
      /\ writes'[n - 2] = SavePosition(pos') /\ writes'[n - 1] = SaveFill(f)
      /\ writes'[n] = SaveOrder(i, Filled(os[i]))
  <2>1. writes' \in Seq(S) /\ Queued(writes', first, cancels, SavePosition(pos'),
                     SavePosition(pos'), SaveFill(f), SaveOrder(i, Filled(os[i])))
    BY <1>5, <1>6, <1>7, <1>8, FillQueue
  <2> QED
    BY <2>1 DEF Queued
<1>10. Len(cancels) \in Nat /\ n >= 4
  BY <1>5, <1>8, <1>9
<1>11. orders'[i] = Filled(os[i])
  BY FillBook
<1>12. \A j \in Stale(os, i) \ {i} : orders'[j] = Canceled(os[j])
  BY FillBook DEF Stale
<1>13. \A j \in Stale(os, i) : Canceled(os[j]) \in OrderRecord
  <2>1. \A j \in Stale(os, i) : os[j] \in OrderRecord
    BY <1>1 DEF Stale, Book
  <2> QED
    BY <2>1, SettledTypes
<1>14. ASSUME NEW k \in 1..(n - 2)
       PROVE  \/ writes'[k] = SavePosition(pos')
              \/ \E o \in OrderRecord : writes'[k] = SaveOrder(i, o)
              \/ \E j \in Stale(os, i) \ {i} : writes'[k] = SaveOrder(j, orders'[j])
  <2>1. CASE k <= Len(first)
    <3>1. k \in 1..Len(first)
      BY <1>8, <2>1
    <3> QED
      BY <1>1, <1>8, <1>9, <3>1
  <2>2. CASE k = Len(first) + 1 \/ k = n - 2
    BY <1>9, <2>2
  <2>3. CASE k > Len(first) + 1 /\ k # n - 2
    <3> DEFINE c == k - Len(first) - 1
    <3>1. c \in 1..Len(cancels) /\ Len(first) + 1 + c = k
      BY <1>8, <1>9, <1>10, <2>3
    <3> HIDE DEF c
    <3>2. PICK j \in Stale(os, i) : cancels[c] = SaveOrder(j, Canceled(os[j]))
      BY <1>5, <3>1
    <3>3. writes'[k] = SaveOrder(j, Canceled(os[j]))
      BY <1>9, <3>1, <3>2
    <3> QED
      BY <1>12, <1>13, <3>3
  <2> QED
    BY <1>8, <2>1, <2>2, <2>3
<1>15. ASSUME NEW j \in Stale(os, i) \ {i}
       PROVE  \E k \in 1..n : writes'[k] = SaveOrder(j, orders'[j])
  <2>1. PICK c \in 1..Len(cancels) : cancels[c] = SaveOrder(j, Canceled(os[j]))
    BY <1>5
  <2>2. Len(first) + 1 + c \in 1..n
    BY <1>8, <1>9, <1>10
  <2> QED
    BY <1>9, <1>12, <2>1, <2>2
<1>16. writes' \in Seq(Statements(created'))
  BY <1>9 DEF S
<1> QED
  BY <1>3, <1>4, <1>9, <1>10, <1>11, <1>14, <1>15, <1>16 DEF Filling, f

\* Three methods fill: submitOrder, evaluateOpenOrders and checkLiquidation.
Fills == \E os, i, price, first : FillStep(os, i, price, first)

LEMMA MatchFills == ASSUME TypeInv, NEW i \in DOMAIN orders, MatchOrder(i) PROVE Fills
<1>1. PICK price \in Prices[orders[i].side] : FillOrder(orders, i, price, <<>>)
  BY DEF MatchOrder
<1>2. orders[i] \in OrderRecord
  BY DEF TypeInv, MemoryTyped, Book
<1>3. price \in Nat
  BY <1>2, PricesAssumption DEF OrderRecord
<1>4. created' = created /\ created \in Nat /\ created <= MaxOrders /\ MaxOrders \in Nat
  BY BoundsAssumption DEF MatchOrder, TypeInv, Counted
<1>5. Idle /\ Resting(orders[i]) /\ orders[i].qty > 0
  BY DEF MatchOrder, Matchable
<1>6. Book(orders, created')
  BY <1>4 DEF TypeInv, MemoryTyped
<1> QED
  BY <1>1, <1>3, <1>4, <1>5, <1>6 DEF Fills, FillStep

\* An order added and filled at once.
LEMMA AddedFills ==
  ASSUME TypeInv, Idle, created < MaxOrders, created' = created + 1,
         NEW o \in OrderRecord, Resting(o), o.qty > 0,
         NEW price \in Prices[o.side], NEW first,
         first = <<>> \/ first = <<SaveOrder(created + 1, o)>>,
         FillOrder(With(orders, created + 1, o), created + 1, price, first)
  PROVE  Fills
<1> DEFINE i == created + 1
           os == With(orders, i, o)
<1>1. created \in Nat /\ i \in Nat /\ i \in 1..i /\ created <= i /\ i \in created..MaxOrders
  BY BoundsAssumption DEF TypeInv, Counted
<1>2. price \in Nat
  BY PricesAssumption DEF OrderRecord
<1>3. Book(orders, created)
  BY DEF TypeInv, MemoryTyped
<1>4. Book(os, i) /\ Stored(os, orders, i, o)
  <2> HIDE DEF i
  <2> QED
    BY <1>1, <1>3, WithBook
<1> HIDE DEF os
<1>5. \A j \in DOMAIN os \ {i} : j \in DOMAIN orders /\ os[j] = orders[j]
  BY <1>4 DEF Stored
<1>6. FillStep(os, i, price, first)
  BY <1>1, <1>2, <1>4, <1>5 DEF FillStep, os, Stored
<1> QED
  BY <1>6 DEF Fills

LEMMA SubmitFills == ASSUME TypeInv, NEW c \in Commands, SubmitFilled(c) PROVE Fills
<1> DEFINE o == NewOrder(c)
           first == <<SaveOrder(created + 1, o)>>
<1>1. o \in OrderRecord /\ Resting(o)
  BY NewOrderType
<1>2. Idle /\ created < MaxOrders /\ created' = created + 1 /\ o.qty > 0
  BY DEF SubmitFilled, Acceptable
<1>3. PICK price \in Prices[o.side] : FillOrder(With(orders, created + 1, o), created + 1, price, first)
  BY DEF SubmitFilled
<1> HIDE DEF o
<1> QED
  BY <1>1, <1>2, <1>3, AddedFills

LEMMA LiquidateFills == ASSUME TypeInv, Liquidate PROVE Fills
<1> DEFINE o == [side |-> IF pos.qty > 0 THEN "SELL" ELSE "BUY", type |-> "MARKET",
                 reduceOnly |-> TRUE, lev |-> pos.lev, qty |-> Abs(pos.qty), status |-> "NEW"]
           first == <<>>
<1>1. o \in OrderRecord /\ Resting(o) /\ o.qty > 0
  <2>1. pos.qty \in Int /\ pos.lev = 1 /\ pos.qty # 0
    BY DEF TypeInv, MemoryTyped, PositionRecord, Liquidate
  <2>2. Abs(pos.qty) \in Nat /\ Abs(pos.qty) > 0
    BY <2>1 DEF Abs
  <2> QED
    BY <2>1, <2>2 DEF OrderRecord, OrderTypes, Sides, Resting
<1>2. Idle /\ created < MaxOrders /\ created' = created + 1
  BY DEF Liquidate
<1>3. PICK price \in Prices[o.side] : FillOrder(With(orders, created + 1, o), created + 1, price, first)
  BY DEF Liquidate
<1> HIDE DEF o
<1> QED
  BY <1>1, <1>2, <1>3, AddedFills
-----------------------------------------------------------------------------
(* Types are kept *)

\* Tables that a step leaves alone keep their types, whatever orders it adds.
LEMMA RowsKeepType ==
  ASSUME RowsTyped, created \in Nat, created' \in Nat, created <= created', UNCHANGED rows
  PROVE  RowsTyped'
<1>1. /\ FillsOf(created) \subseteq FillsOf(created')
      /\ \A f : Book(f, created) => Book(f, created')
  BY RecordsGrow
<1>2. rows.fills \in Seq(FillsOf(created'))
  BY <1>1, SeqMonotonic DEF RowsTyped
<1>3. Book(rows.orders, created')
  BY <1>1 DEF RowsTyped
<1> QED
  BY <1>2, <1>3 DEF RowsTyped

LEMMA FillTypes == ASSUME TypeInv, Fills PROVE TypeInv'
<1>1. PICK os, i, price, first : FillStep(os, i, price, first)
  BY DEF Fills
<1> DEFINE f == FillOf(i, os[i], price)
<1>2. /\ created' \in Nat /\ created <= created' /\ created \in Nat /\ created' \in 0..MaxOrders
      /\ Book(orders', created')
  BY <1>1, FillBook, BoundsAssumption DEF FillStep, TypeInv, Counted
<1>3. /\ f \in FillsOf(created') /\ pos' \in PositionRecord
      /\ writes' \in Seq(Statements(created'))
  BY <1>1, FillQueues DEF Filling
<1>4. /\ fills' = Append(fills, f) /\ wallet' = wallet - f.fee + f.pnl
      /\ UNCHANGED <<funding, rows, cleared, unsaved, restarts, torn>>
  BY <1>1 DEF FillStep, FillOrder
<1> HIDE DEF f
<1>5. fills' \in Seq(FillsOf(created'))
  <2>1. fills \in Seq(FillsOf(created'))
    BY <1>2, RecordsGrow, SeqMonotonic DEF TypeInv, MemoryTyped
  <2> QED
    BY <1>3, <1>4, <2>1, AppendProperties
<1>6. wallet' \in Int
  BY <1>3, <1>4 DEF FillsOf, TypeInv, MemoryTyped
<1>7. RowsTyped'
  BY <1>2, <1>4, RowsKeepType DEF TypeInv
<1>8. MemoryTyped'
  BY <1>2, <1>3, <1>4, <1>5, <1>6 DEF TypeInv, MemoryTyped
<1>9. Counted'
  BY <1>2, <1>4 DEF TypeInv, Counted
<1> QED
  BY <1>3, <1>7, <1>8, <1>9 DEF TypeInv

\* submitOrder without a fill.
LEMMA UnfilledTypes ==
  ASSUME TypeInv, NEW c \in Commands, SubmitUnfilled(c) PROVE TypeInv'
<1> DEFINE i == created + 1
           o == NewOrder(c)
<1>1. o \in OrderRecord
  BY NewOrderType
<1>2. PICK status \in Outcomes(o) :
        /\ orders' = With(orders, i, [o EXCEPT !.status = status])
        /\ writes' = <<SaveOrder(i, o)>> \o (IF status = "NEW" THEN <<>>
                        ELSE <<SaveOrder(i, [o EXCEPT !.status = status])>>)
  BY DEF SubmitUnfilled
<1>3. /\ created \in Nat /\ i \in Nat /\ created <= i /\ i \in 1..i /\ created' = i
      /\ i \in 0..MaxOrders
      /\ UNCHANGED <<pos, fills, funding, wallet, rows, cleared, unsaved, restarts, torn>>
  BY BoundsAssumption DEF SubmitUnfilled, TypeInv, Counted
<1> DEFINE left == [o EXCEPT !.status = status]
<1>4. left \in OrderRecord
  BY <1>1, <1>2 DEF Outcomes, OrderRecord
<1>5. SaveOrder(i, o) \in Statements(i) /\ SaveOrder(i, left) \in Statements(i)
  <2> HIDE DEF i, o, left
  <2> QED
    BY <1>1, <1>3, <1>4, StatementTypes
<1>6. writes' \in Seq(Statements(i))
  <2> DEFINE a == SaveOrder(i, o)
             b == SaveOrder(i, left)
             S == Statements(i)
  <2>1. a \in S /\ b \in S /\ (writes' = <<a>> \o <<>> \/ writes' = <<a>> \o <<b>>)
    BY <1>2, <1>5
  <2> HIDE DEF a, b, S
  <2>2. <<a>> \in Seq(S) /\ <<b>> \in Seq(S) /\ <<>> \in Seq(S)
    BY <2>1
  <2>3. writes' \in Seq(S)
    BY <2>1, <2>2, ConcatProperties
  <2> QED
    BY <2>3 DEF S
<1>7. Book(orders', i)
  <2>1. orders' = With(orders, i, left)
    BY <1>2
  <2>2. Book(orders, created)
    BY DEF TypeInv, MemoryTyped
  <2> HIDE DEF i, o, left
  <2> QED
    BY <1>3, <1>4, <2>1, <2>2, WithBook
<1> HIDE DEF i
<1>8. RowsTyped'
  BY <1>3, RowsKeepType DEF TypeInv
<1>9. fills' \in Seq(FillsOf(i))
  BY <1>3, RecordsGrow, SeqMonotonic DEF TypeInv, MemoryTyped
<1>10. MemoryTyped'
  BY <1>3, <1>7, <1>9 DEF TypeInv, MemoryTyped
<1>11. Counted'
  BY <1>3 DEF TypeInv, Counted
<1> QED
  BY <1>3, <1>6, <1>8, <1>10, <1>11 DEF TypeInv

\* Methods that change one part of memory, and what they queue.
LEMMA EmptyMatchTypes ==
  ASSUME TypeInv, NEW i \in DOMAIN orders, MatchEmptyOrder(i) PROVE TypeInv'
<1>1. orders' = [orders EXCEPT ![i] = Filled(orders[i])]
  BY DEF MatchEmptyOrder
<1>2. Book(orders', created)
  BY <1>1, SettledTypes DEF TypeInv, MemoryTyped, Book
<1>3. UNCHANGED <<pos, fills, funding, wallet, rows, writes, created, cleared, unsaved, restarts, torn>>
  BY DEF MatchEmptyOrder
<1>4. MemoryTyped'
  BY <1>2, <1>3 DEF TypeInv, MemoryTyped
<1> QED
  BY <1>3, <1>4, RowsKeepType DEF TypeInv, Counted, RowsTyped

LEMMA CancelTypes ==
  ASSUME TypeInv, NEW i \in DOMAIN orders, CancelOrder(i) PROVE TypeInv'
<1>1. /\ orders' = [orders EXCEPT ![i] = Canceled(orders[i])]
      /\ writes' = <<SaveOrder(i, Canceled(orders[i]))>>
      /\ UNCHANGED <<pos, fills, funding, wallet, rows, created, cleared, unsaved, restarts, torn>>
  BY DEF CancelOrder
<1>2. orders[i] \in OrderRecord /\ i \in 1..created /\ created \in Nat
  BY BoundsAssumption DEF TypeInv, MemoryTyped, Book, Counted
<1>3. Canceled(orders[i]) \in OrderRecord
  BY <1>2, SettledTypes
<1>4. Book(orders', created)
  BY <1>1, <1>3 DEF TypeInv, MemoryTyped, Book
<1>5. writes' \in Seq(Statements(created))
  BY <1>1, <1>2, <1>3, StatementTypes
<1>6. MemoryTyped'
  BY <1>1, <1>4 DEF TypeInv, MemoryTyped
<1> QED
  BY <1>1, <1>5, <1>6 DEF TypeInv, Counted, RowsTyped

LEMMA FundingTypes == ASSUME TypeInv, ApplyFunding PROVE TypeInv'
<1>1. PICK rate \in FundingRates :
        /\ wallet' = wallet - pos.qty * rate
        /\ funding' = Append(funding, pos.qty * rate)
        /\ writes' = <<SaveFunding(pos.qty * rate), SavePosition(pos), SavePosition(pos)>>
  BY DEF ApplyFunding
<1>2. UNCHANGED <<orders, pos, fills, rows, created, cleared, unsaved, restarts, torn>>
  BY DEF ApplyFunding
<1> DEFINE payment == pos.qty * rate
<1>3. payment \in Int
  BY MoneyAssumption DEF TypeInv, MemoryTyped, PositionRecord
<1>4. /\ wallet' = wallet - payment /\ funding' = Append(funding, payment)
      /\ writes' = <<SaveFunding(payment), SavePosition(pos), SavePosition(pos)>>
  BY <1>1
<1> HIDE DEF payment
<1>5. created \in Nat /\ pos \in PositionRecord
  BY BoundsAssumption DEF TypeInv, MemoryTyped, Counted
<1>6. writes' \in Seq(Statements(created))
  <2> DEFINE a == SaveFunding(payment)
             b == SavePosition(pos)
             S == Statements(created)
  <2>1. a \in S /\ b \in S /\ writes' = <<a, b, b>>
    BY <1>3, <1>4, <1>5, StatementTypes
  <2> HIDE DEF a, b, S
  <2>2. writes' \in Seq(S)
    BY <2>1
  <2> QED
    BY <2>2 DEF S
<1>7. funding' \in Seq(Int) /\ wallet' \in Int
  BY <1>3, <1>4 DEF TypeInv, MemoryTyped
<1>8. MemoryTyped'
  BY <1>2, <1>7 DEF TypeInv, MemoryTyped
<1> QED
  BY <1>2, <1>6, <1>8 DEF TypeInv, Counted, RowsTyped

LEMMA TransferTypes ==
  ASSUME TypeInv, NEW amount \in TransferAmounts, TransferOut(amount) \/ TransferIn(amount)
  PROVE  TypeInv'
<1>1. amount \in Int /\ -amount \in Int /\ created \in Nat
  BY MoneyAssumption, BoundsAssumption DEF TypeInv, Counted
<1>2. /\ wallet' = wallet - amount \/ wallet' = wallet + amount
      /\ unsaved' = unsaved - amount \/ unsaved' = unsaved + amount
      /\ writes' = <<MoveSpot(amount)>> \/ writes' = <<MoveSpot(-amount)>>
      /\ UNCHANGED <<orders, pos, fills, funding, rows, created, cleared, restarts, torn>>
  BY DEF TransferOut, TransferIn
<1>3. MoveSpot(amount) \in Statements(created) /\ MoveSpot(-amount) \in Statements(created)
  BY <1>1, StatementTypes
<1>4. writes' \in Seq(Statements(created))
  <2> DEFINE a == MoveSpot(amount)
             b == MoveSpot(-amount)
             S == Statements(created)
  <2>1. a \in S /\ b \in S /\ (writes' = <<a>> \/ writes' = <<b>>)
    BY <1>2, <1>3
  <2> HIDE DEF a, b, S
  <2>2. <<a>> \in Seq(S) /\ <<b>> \in Seq(S)
    BY <2>1
  <2>3. writes' \in Seq(S)
    BY <2>1, <2>2
  <2> QED
    BY <2>3 DEF S
<1>5. wallet' \in Int /\ unsaved' \in Int
  BY <1>1, <1>2 DEF TypeInv, MemoryTyped
<1>6. MemoryTyped'
  BY <1>2, <1>5 DEF TypeInv, MemoryTyped
<1> QED
  BY <1>2, <1>4, <1>6 DEF TypeInv, Counted, RowsTyped

\* A reset queues the cancellation of what rests, then the four tables' clearing.
Resetting(resting) ==
  LET n == Len(writes') IN
  /\ n \in Nat /\ n >= 4 /\ writes' \in Seq(Statements(created))
  /\ \A k \in 1..(n - 4) : \E i \in resting : writes'[k] = SaveOrder(i, Canceled(orders[i]))
  /\ \A i \in resting : \E k \in 1..(n - 4) : writes'[k] = SaveOrder(i, Canceled(orders[i]))
  /\ \A k \in 1..4 : writes'[n - 4 + k] = ResetRows[k]

LEMMA ResetQueues ==
  ASSUME TypeInv, NEW balance \in ResetBalances, ResetAccount(balance)
  PROVE  Resetting({i \in DOMAIN orders : Resting(orders[i])})
<1> DEFINE ids == {i \in DOMAIN orders : Resting(orders[i])}
           cancels == CancelRows(orders, InOrder(ids))
           S == Statements(created)
<1>1. created \in Nat /\ Book(orders, created)
  BY BoundsAssumption DEF TypeInv, MemoryTyped, Counted
<1>2. ids \in SUBSET (DOMAIN orders)
  OBVIOUS
<1>3. writes' = cancels \o ResetRows
  BY DEF ResetAccount
<1> HIDE DEF ids
<1>4. /\ cancels \in Seq(S)
      /\ \A k \in 1..Len(cancels) : \E j \in ids : cancels[k] = SaveOrder(j, Canceled(orders[j]))
      /\ \A j \in ids : \E k \in 1..Len(cancels) : cancels[k] = SaveOrder(j, Canceled(orders[j]))
  BY <1>1, <1>2, CancelRowsListed
<1> HIDE DEF cancels
<1>5. ResetRows \in Seq(S) /\ Len(ResetRows) = 4
  <2>1. \A k \in 1..4 : <<"position", "orders", "fills", "funding">>[k] \in
                          {"position", "orders", "fills", "funding"}
    OBVIOUS
  <2>2. \A k \in 1..4 : ResetRows[k] \in S
    BY <2>1 DEF ResetRows, Statements
  <2>3. ResetRows \in [1..4 -> S]
    BY <2>2 DEF ResetRows
  <2>4. 4 \in Nat
    OBVIOUS
  <2> QED
    BY <2>3, <2>4, ListIsSeq
<1> HIDE DEF S
<1>6. writes' \in Seq(S) /\ Joins(writes', cancels, ResetRows)
  BY <1>3, <1>4, <1>5, Joined
<1> DEFINE n == Len(writes')
<1>7. n \in Nat /\ n >= 4 /\ Len(cancels) = n - 4
  BY <1>4, <1>5, <1>6 DEF Joins
<1>8. \A k \in 1..Len(cancels) : writes'[k] = cancels[k]
  BY <1>6 DEF Joins
<1>9. \A k \in 1..4 : writes'[n - 4 + k] = ResetRows[k]
  BY <1>5, <1>6, <1>7 DEF Joins
<1>10. \A k \in 1..(n - 4) : \E i \in ids : writes'[k] = SaveOrder(i, Canceled(orders[i]))
  BY <1>4, <1>7, <1>8
<1>11. \A i \in ids : \E k \in 1..(n - 4) : writes'[k] = SaveOrder(i, Canceled(orders[i]))
  BY <1>4, <1>7, <1>8
<1>12. writes' \in Seq(Statements(created))
  BY <1>6 DEF S
<1>13. Resetting(ids)
  BY <1>7, <1>9, <1>10, <1>11, <1>12 DEF Resetting
<1> QED
  BY <1>13 DEF ids

LEMMA ResetTypes ==
  ASSUME TypeInv, NEW balance \in ResetBalances, ResetAccount(balance) PROVE TypeInv'
<1>1. /\ orders' = <<>> /\ pos' = Flat /\ fills' = <<>> /\ funding' = <<>>
      /\ wallet' = balance /\ cleared' = created /\ unsaved' = balance - StartingUsdt
      /\ UNCHANGED <<rows, created, restarts, torn>>
  BY DEF ResetAccount
<1>2. writes' \in Seq(Statements(created))
  BY ResetQueues DEF Resetting
<1>3. created \in Nat /\ Book(<<>>, created) /\ Flat \in PositionRecord
  BY BoundsAssumption DEF TypeInv, Counted, Book, Flat, PositionRecord
<1>4. balance \in Int /\ balance - StartingUsdt \in Int
  BY MoneyAssumption
<1>5. MemoryTyped'
  BY <1>1, <1>3, <1>4 DEF MemoryTyped
<1> QED
  BY <1>1, <1>2, <1>3, <1>5 DEF TypeInv, Counted, RowsTyped

\* What one statement does to each table.
Cleared(os) == [i \in DOMAIN os |-> Canceled(os[i])]
Clears(w, part) == w.table = "reset" /\ w.row = part

Changed(r, w) ==
  /\ rows = [orders |-> rows.orders, position |-> rows.position, fills |-> rows.fills,
             funding |-> rows.funding, spot |-> rows.spot]
  /\ r = [orders |-> r.orders, position |-> r.position, fills |-> r.fills,
          funding |-> r.funding, spot |-> r.spot]
  /\ r.orders = IF w.table = "orders" THEN With(rows.orders, w.id, w.row)
                ELSE IF Clears(w, "orders") THEN Cleared(rows.orders) ELSE rows.orders
  /\ r.position = IF w.table = "positions" THEN w.row
                  ELSE IF Clears(w, "position") THEN Flat ELSE rows.position
  /\ r.fills = IF w.table = "fills" THEN Append(rows.fills, w.row)
               ELSE IF Clears(w, "fills") THEN <<>> ELSE rows.fills
  /\ r.funding = IF w.table = "funding_payments" THEN Append(rows.funding, w.row)
                 ELSE IF Clears(w, "funding") THEN <<>> ELSE rows.funding
  /\ r.spot = IF w.table = "wallets" THEN rows.spot + w.row ELSE rows.spot

\* A statement is of one of six kinds.
LEMMA StatementKinds ==
  ASSUME NEW w \in Statements(created)
  PROVE  \/ w.table = "orders" /\ w.id \in 1..created /\ w.row \in OrderRecord
         \/ w.table = "positions" /\ w.row \in PositionRecord
         \/ w.table = "fills" /\ w.row \in FillsOf(created)
         \/ w.table = "funding_payments" /\ w.row \in Int
         \/ w.table = "wallets" /\ w.row \in Int
         \/ w.table = "reset" /\ w.row \in {"position", "orders", "fills", "funding"}
  BY DEF Statements

LEMMA AfterChanges ==
  ASSUME RowsTyped, NEW w \in Statements(created)
  PROVE  Changed(After(rows, w), w)
<1> DEFINE r == After(rows, w)
<1>0. rows = [orders |-> rows.orders, position |-> rows.position, fills |-> rows.fills,
              funding |-> rows.funding, spot |-> rows.spot]
  BY DEF RowsTyped
<1>1. CASE w.table = "orders"
  <2>1. r = [rows EXCEPT !.orders = With(rows.orders, w.id, w.row)]
    BY <1>1 DEF After
  <2> QED
    BY <1>0, <1>1, <2>1 DEF Changed, Clears
<1>2. CASE w.table = "positions"
  <2>1. r = [rows EXCEPT !.position = w.row]
    BY <1>2 DEF After
  <2> QED
    BY <1>0, <1>2, <2>1 DEF Changed, Clears
<1>3. CASE w.table = "fills"
  <2>1. r = [rows EXCEPT !.fills = Append(rows.fills, w.row)]
    BY <1>3 DEF After
  <2> QED
    BY <1>0, <1>3, <2>1 DEF Changed, Clears
<1>4. CASE w.table = "funding_payments"
  <2>1. r = [rows EXCEPT !.funding = Append(rows.funding, w.row)]
    BY <1>4 DEF After
  <2> QED
    BY <1>0, <1>4, <2>1 DEF Changed, Clears
<1>5. CASE w.table = "wallets"
  <2>1. r = [rows EXCEPT !.spot = rows.spot + w.row]
    BY <1>5 DEF After
  <2> QED
    BY <1>0, <1>5, <2>1 DEF Changed, Clears
<1>6. CASE w.table = "reset" /\ w.row \in {"position", "orders", "fills", "funding"}
  <2>0. r = AfterReset(rows, w.row)
    BY <1>6 DEF After
  <2>1. CASE w.row = "orders"
    <3>1. r = [rows EXCEPT !.orders = Cleared(rows.orders)]
      BY <2>0, <2>1 DEF AfterReset, Cleared
    <3> QED
      BY <1>0, <1>6, <2>1, <3>1 DEF Changed, Clears
  <2>2. CASE w.row = "position"
    <3>1. r = [rows EXCEPT !["position"] = NoRows["position"]]
      BY <2>0, <2>2 DEF AfterReset
    <3>2. NoRows["position"] = Flat
      BY DEF NoRows
    <3> QED
      BY <1>0, <1>6, <2>2, <3>1, <3>2 DEF Changed, Clears
  <2>3. CASE w.row = "fills"
    <3>1. r = [rows EXCEPT !["fills"] = NoRows["fills"]]
      BY <2>0, <2>3 DEF AfterReset
    <3>2. NoRows["fills"] = <<>>
      BY DEF NoRows
    <3> QED
      BY <1>0, <1>6, <2>3, <3>1, <3>2 DEF Changed, Clears
  <2>4. CASE w.row = "funding"
    <3>1. r = [rows EXCEPT !["funding"] = NoRows["funding"]]
      BY <2>0, <2>4 DEF AfterReset
    <3>2. NoRows["funding"] = <<>>
      BY DEF NoRows
    <3> QED
      BY <1>0, <1>6, <2>4, <3>1, <3>2 DEF Changed, Clears
  <2> QED
    BY <1>6, <2>1, <2>2, <2>3, <2>4
<1> QED
  BY <1>1, <1>2, <1>3, <1>4, <1>5, <1>6, StatementKinds

\* The queue after its first statement has run.
LEMMA WriteShifts ==
  ASSUME TypeInv, Write
  PROVE  /\ writes # <<>> /\ Len(writes) \in Nat /\ Len(writes) >= 1
         /\ writes[1] \in Statements(created) /\ Changed(rows', writes[1])
         /\ writes' \in Seq(Statements(created)) /\ Len(writes') = Len(writes) - 1
         /\ \A k \in 1..(Len(writes) - 1) : writes'[k] = writes[k + 1]
         /\ UNCHANGED <<orders, pos, fills, funding, wallet, created, cleared, unsaved, restarts, torn>>
<1>1. /\ writes # <<>> /\ rows' = After(rows, Head(writes)) /\ writes' = Tail(writes)
      /\ UNCHANGED <<orders, pos, fills, funding, wallet, created, cleared, unsaved, restarts, torn>>
  BY DEF Write, memory
<1>2. writes \in Seq(Statements(created)) /\ RowsTyped
  BY DEF TypeInv
<1> DEFINE S == Statements(created)
<1>3. /\ Head(writes) \in S /\ Tail(writes) \in Seq(S) /\ Len(Tail(writes)) = Len(writes) - 1
      /\ \A k \in 1..Len(Tail(writes)) : Tail(writes)[k] = writes[k + 1]
      /\ Len(writes) \in Nat /\ Len(writes) >= 1
  <2> HIDE DEF S
  <2>1. writes \in Seq(S)
    BY <1>2 DEF S
  <2>2. Len(writes) \in Nat /\ Len(writes) # 0
    BY <1>1, <2>1, EmptySeq
  <2> QED
    BY <1>1, <2>1, <2>2, HeadTailProperties
<1>4. Head(writes) = writes[1]
  BY <1>1, <1>2
<1>5. Changed(rows', writes[1])
  BY <1>1, <1>2, <1>3, <1>4, AfterChanges
<1> HIDE DEF S
<1> QED
  BY <1>1, <1>3, <1>4, <1>5 DEF S

LEMMA WriteTypes == ASSUME TypeInv, SpotCovered, Write PROVE TypeInv'
<1> DEFINE w == writes[1]
<1>1. /\ w \in Statements(created) /\ Changed(rows', w) /\ writes' \in Seq(Statements(created))
      /\ UNCHANGED <<orders, pos, fills, funding, wallet, created, cleared, unsaved, restarts, torn>>
      /\ 1 \in DOMAIN writes
  <2>1. Len(writes) \in Nat /\ Len(writes) >= 1 /\ DOMAIN writes = 1..Len(writes)
    BY WriteShifts DEF TypeInv
  <2> QED
    BY <2>1, WriteShifts
<1>2. w.table = "wallets" => rows.spot + w.row >= 0
  BY <1>1 DEF SpotCovered, Pending
<1> HIDE DEF w
<1>3. created \in Nat /\ RowsTyped
  BY BoundsAssumption DEF TypeInv, Counted
<1>4. Book(rows'.orders, created)
  <2>1. CASE w.table = "orders"
    <3>1. w.id \in 1..created /\ w.row \in OrderRecord /\ rows'.orders = With(rows.orders, w.id, w.row)
      BY <1>1, <2>1, StatementKinds DEF Changed
    <3> QED
      BY <1>3, <3>1, WithBook DEF RowsTyped
  <2>2. CASE w.table # "orders" /\ Clears(w, "orders")
    <3>1. rows'.orders = Cleared(rows.orders)
      BY <1>1, <2>2 DEF Changed
    <3> QED
      BY <1>3, <3>1, SettledTypes DEF RowsTyped, Book, Cleared
  <2>3. CASE w.table # "orders" /\ ~Clears(w, "orders")
    BY <1>1, <1>3, <2>3 DEF Changed, RowsTyped
  <2> QED
    BY <2>1, <2>2, <2>3
<1>5. rows'.position \in PositionRecord
  <2>1. w.table = "positions" => w.row \in PositionRecord
    BY <1>1, StatementKinds
  <2> QED
    BY <1>1, <1>3, <2>1 DEF Changed, RowsTyped, Flat, PositionRecord
<1>6. rows'.fills \in Seq(FillsOf(created))
  <2>1. w.table = "fills" => w.row \in FillsOf(created)
    BY <1>1, StatementKinds
  <2> QED
    BY <1>1, <1>3, <2>1 DEF Changed, RowsTyped
<1>7. rows'.funding \in Seq(Int)
  <2>1. w.table = "funding_payments" => w.row \in Int
    BY <1>1, StatementKinds
  <2> QED
    BY <1>1, <1>3, <2>1 DEF Changed, RowsTyped
<1>8. rows'.spot \in Nat
  <2>1. w.table = "wallets" => w.row \in Int
    BY <1>1, StatementKinds
  <2> QED
    BY <1>1, <1>2, <1>3, <2>1 DEF Changed, RowsTyped
<1>9. rows' = [orders |-> rows'.orders, position |-> rows'.position, fills |-> rows'.fills,
               funding |-> rows'.funding, spot |-> rows'.spot]
  BY <1>1 DEF Changed
<1>10. RowsTyped'
  BY <1>1, <1>4, <1>5, <1>6, <1>7, <1>8, <1>9 DEF RowsTyped
<1> QED
  BY <1>1, <1>10 DEF TypeInv, Counted, MemoryTyped

\* What the constructor rebuilds has the types of memory.
LEMMA NetsType ==
  ASSUME NEW n \in Nat, NEW fs \in Seq(FillsOf(n))
  PROVE  /\ DOMAIN Nets(fs) = 1..Len(fs) /\ Len(fs) \in Nat
         /\ \A k \in 1..Len(fs) : Nets(fs)[k] \in Int
         /\ Sum(Nets(fs)) \in Int
<1>1. DOMAIN fs = 1..Len(fs) /\ Len(fs) \in Nat /\ \A k \in 1..Len(fs) : fs[k] \in FillsOf(n)
  OBVIOUS
<1>2. DOMAIN Nets(fs) = 1..Len(fs)
  BY <1>1 DEF Nets
<1>3. \A k \in 1..Len(fs) : Nets(fs)[k] \in Int
  BY <1>1 DEF Nets, FillsOf
<1>4. IsFiniteSet(1..Len(fs))
  BY <1>1, FS_Interval
<1>5. SumFunctionOnSet(Nets(fs), 1..Len(fs)) \in Int
  BY <1>3, <1>4, SumIsInt
<1> QED
  BY <1>1, <1>2, <1>3, <1>5 DEF Sum

LEMMA SumType ==
  ASSUME NEW s \in Seq(Int)
  PROVE  Sum(s) \in Int
<1>1. DOMAIN s = 1..Len(s) /\ Len(s) \in Nat /\ \A k \in 1..Len(s) : s[k] \in Int
  OBVIOUS
<1>2. IsFiniteSet(1..Len(s))
  BY <1>1, FS_Interval
<1>3. SumFunctionOnSet(s, 1..Len(s)) \in Int
  BY <1>1, <1>2, SumIsInt
<1> QED
  BY <1>1, <1>3 DEF Sum

LEMMA RestartTypes == ASSUME TypeInv, Restart PROVE TypeInv'
<1>1. /\ orders' = RestoredOrders(rows) /\ pos' = RestoredPosition(rows)
      /\ fills' = rows.fills /\ funding' = rows.funding /\ wallet' = RestoredWallet(rows)
      /\ writes' = <<>> /\ unsaved' = 0 /\ restarts' = restarts + 1
      /\ torn' = (IF Idle THEN torn ELSE torn + 1) /\ UNCHANGED <<rows, created, cleared>>
      /\ restarts < MaxRestarts
  BY DEF Restart
<1>2. created \in Nat /\ RowsTyped
  BY BoundsAssumption DEF TypeInv, Counted
<1>3. Book(orders', created)
  BY <1>1, <1>2 DEF RestoredOrders, RowsTyped, Book
<1>4. pos' \in PositionRecord
  BY <1>1, <1>2 DEF RestoredPosition, RowsTyped, Flat, PositionRecord
<1>5. wallet' \in Int
  <2>1. wallet' = StartingUsdt + Sum(Nets(rows.fills)) - Sum(rows.funding)
    BY <1>1 DEF RestoredWallet, Nets
  <2> QED
    BY <1>2, <2>1, NetsType, SumType, MoneyAssumption DEF RowsTyped
<1>6. MemoryTyped'
  BY <1>1, <1>2, <1>3, <1>4, <1>5 DEF MemoryTyped, RowsTyped
<1>7. Counted'
  BY <1>1, BoundsAssumption DEF TypeInv, Counted
<1>8. RowsTyped' /\ writes' \in Seq(Statements(created'))
  BY <1>1, <1>2, RowsKeepType
<1> QED
  BY <1>6, <1>7, <1>8 DEF TypeInv

LEMMA TypesInit == Init => TypeInv
<1> SUFFICES ASSUME Init PROVE TypeInv
  OBVIOUS
<1>1. Flat \in PositionRecord /\ \A n \in Nat : Book(<<>>, n)
  BY DEF Flat, PositionRecord, Book
<1>2. MemoryTyped
  BY <1>1, MoneyAssumption DEF Init, MemoryTyped
<1>3. RowsTyped
  BY <1>1 DEF Init, RowsTyped, NoRows
<1> QED
  BY <1>2, <1>3, BoundsAssumption DEF Init, TypeInv, Counted

LEMMA TypesStep == TypeInv /\ SpotCovered /\ [Next]_vars => TypeInv'
<1> SUFFICES ASSUME TypeInv, SpotCovered, [Next]_vars PROVE TypeInv'
  OBVIOUS
<1>1. ASSUME NEW c \in Commands, SubmitUnfilled(c) \/ SubmitFilled(c) PROVE TypeInv'
  BY <1>1, UnfilledTypes, SubmitFills, FillTypes
<1>2. ASSUME NEW i \in DOMAIN orders, MatchOrder(i) \/ MatchEmptyOrder(i) \/ CancelOrder(i)
      PROVE  TypeInv'
  BY <1>2, MatchFills, FillTypes, EmptyMatchTypes, CancelTypes
<1>3. CASE Liquidate \/ ApplyFunding \/ Write \/ Restart
  BY <1>3, LiquidateFills, FillTypes, FundingTypes, WriteTypes, RestartTypes
<1>4. CASE \E amount \in TransferAmounts : TransferOut(amount) \/ TransferIn(amount)
  BY <1>4, TransferTypes
<1>5. CASE \E balance \in ResetBalances : ResetAccount(balance)
  BY <1>5, ResetTypes
<1>6. CASE UNCHANGED vars
  BY <1>6 DEF vars, memory, TypeInv, Counted, MemoryTyped, RowsTyped
<1> QED
  BY <1>1, <1>2, <1>3, <1>4, <1>5, <1>6 DEF Next
-----------------------------------------------------------------------------
(* What is pending: fills *)

\* Between two methods the tables have what memory has.
LEMMA IdleTells ==
  ASSUME TypeInv, StoreInv, Idle
  PROVE  /\ RestoredPosition(rows) = pos /\ rows.fills = fills /\ rows.funding = funding
         /\ \A i \in 1..created : RowTells(i)
<1>1. DOMAIN writes = {}
  BY DEF Idle
<1>2. (\A t : Pending(t) = {}) /\ (\A t : Resets(t) = {}) /\ (\A i : PendingOrder(i) = {})
  BY <1>1 DEF Pending, Resets, PendingOrder
<1> QED
  BY <1>2 DEF StoreInv, PositionTells, FillsTell, FundingTells, OrdersTell

\* The tables the statements of a fill are of.
LEMMA FillingKinds ==
  ASSUME NEW os, NEW i, NEW f, Filling(os, i, f)
  PROVE  LET n == Len(writes') IN
         /\ DOMAIN writes' = 1..n /\ {n - 2, n - 1, n} \subseteq 1..n /\ n \in Nat
         /\ writes'[n].table = "orders" /\ writes'[n].id = i /\ writes'[n].row = orders'[i]
         /\ writes'[n - 1].table = "fills" /\ writes'[n - 1].row = f
         /\ writes'[n - 2].table = "positions"
         /\ \A k \in 1..n :
              \/ k = n \/ k = n - 1
              \/ writes'[k].table = "positions" /\ writes'[k].row = pos'
              \/ writes'[k].table = "orders" /\ writes'[k].id = i /\ k < n
              \/ \E j \in Stale(os, i) \ {i} : writes'[k] = SaveOrder(j, orders'[j])
<1> DEFINE n == Len(writes')
<1>1. n \in Nat /\ n >= 4 /\ writes' \in Seq(Statements(created'))
  BY DEF Filling
<1>2. DOMAIN writes' = 1..n
  BY <1>1
<1>3. writes'[n] = SaveOrder(i, orders'[i]) /\ writes'[n - 1] = SaveFill(f)
      /\ writes'[n - 2] = SavePosition(pos')
  BY DEF Filling
<1>4. /\ writes'[n].table = "orders" /\ writes'[n].id = i /\ writes'[n].row = orders'[i]
      /\ writes'[n - 1].table = "fills" /\ writes'[n - 1].row = f
      /\ writes'[n - 2].table = "positions"
  BY <1>3 DEF SaveOrder, SaveFill, SavePosition
<1>5. ASSUME NEW k \in 1..n, k # n, k # n - 1
      PROVE  \/ writes'[k].table = "positions" /\ writes'[k].row = pos'
             \/ writes'[k].table = "orders" /\ writes'[k].id = i /\ k < n
             \/ \E j \in Stale(os, i) \ {i} : writes'[k] = SaveOrder(j, orders'[j])
  <2>1. k \in 1..(n - 2) /\ k < n
    BY <1>1, <1>5
  <2>2. \/ writes'[k] = SavePosition(pos')
        \/ \E o \in OrderRecord : writes'[k] = SaveOrder(i, o)
        \/ \E j \in Stale(os, i) \ {i} : writes'[k] = SaveOrder(j, orders'[j])
    BY <2>1 DEF Filling
  <2>3. CASE writes'[k] = SavePosition(pos')
    BY <2>3 DEF SavePosition
  <2>4. CASE \E o \in OrderRecord : writes'[k] = SaveOrder(i, o)
    <3>1. PICK o \in OrderRecord : writes'[k] = SaveOrder(i, o)
      BY <2>4
    <3> QED
      BY <2>1, <3>1 DEF SaveOrder
  <2> QED
    BY <2>2, <2>3, <2>4
<1>6. {n - 2, n - 1, n} \subseteq 1..n
  BY <1>1
<1> QED
  BY <1>1, <1>2, <1>4, <1>5, <1>6

LEMMA FillStores == ASSUME TypeInv, StoreInv, Fills PROVE StoreInv'
<1>1. PICK os, i, price, first : FillStep(os, i, price, first)
  BY DEF Fills
<1> DEFINE f == FillOf(i, os[i], price)
           n == Len(writes')
<1>2. /\ RestoredPosition(rows) = pos /\ rows.fills = fills /\ rows.funding = funding
      /\ \A j \in 1..created : RowTells(j)
  BY <1>1, IdleTells DEF FillStep
<1>3. /\ fills' = Append(fills, f)
      /\ UNCHANGED <<funding, rows, torn>>
  BY <1>1 DEF FillStep, FillOrder
<1>4. Filling(os, i, f) /\ (pos'.qty = 0 => pos' = Flat)
  BY <1>1, FillQueues
<1> HIDE DEF f
<1>5. /\ DOMAIN writes' = 1..n /\ n - 2 \in 1..n /\ n - 1 \in 1..n /\ n \in 1..n /\ n \in Nat
      /\ writes'[n].table = "orders" /\ writes'[n].id = i /\ writes'[n].row = orders'[i]
      /\ writes'[n - 1].table = "fills" /\ writes'[n - 1].row = f
      /\ writes'[n - 2].table = "positions"
  BY <1>4, FillingKinds
<1>6. \A k \in 1..n :
        \/ k = n \/ k = n - 1
        \/ writes'[k].table = "positions" /\ writes'[k].row = pos'
        \/ writes'[k].table = "orders" /\ writes'[k].id = i /\ k < n
        \/ \E j \in Stale(os, i) \ {i} : writes'[k] = SaveOrder(j, orders'[j])
  BY <1>4, FillingKinds
<1>7. /\ created' \in Nat /\ created <= created' /\ created \in Nat
      /\ DOMAIN orders' = DOMAIN os /\ ~Resting(orders'[i]) /\ i \in DOMAIN os
      /\ \A j \in DOMAIN os \ {i} :
           orders'[j] = IF j \in Stale(os, i) THEN Canceled(os[j]) ELSE os[j]
      /\ \A j \in DOMAIN os \ {i} : j \in DOMAIN orders /\ os[j] = orders[j]
      /\ DOMAIN orders \subseteq DOMAIN os
  BY <1>1, FillBook, BoundsAssumption DEF FillStep, TypeInv, Counted
<1>8. \A j \in Stale(os, i) \ {i} : j \in DOMAIN os /\ ~Resting(orders'[j])
  <2>1. \A j \in Stale(os, i) : j \in DOMAIN os /\ os[j] \in OrderRecord /\ Resting(os[j])
    BY <1>1 DEF Stale, FillStep, Book
  <2>2. \A o \in OrderRecord : Resting(o) => ~Resting(Canceled(o))
    BY DEF OrderRecord, Resting, Canceled
  <2> QED
    BY <1>7, <2>1, <2>2
<1>9. \A j \in DOMAIN orders' : Matches(orders', orders'[j], j)
  BY DEF Matches
<1>10. \A k \in 1..n : writes'[k].table # "orders" =>
         k = n - 1 \/ (writes'[k].table = "positions" /\ writes'[k].row = pos')
  <2>1. \A j : SaveOrder(j, orders'[j]).table = "orders"
    BY DEF SaveOrder
  <2> QED
    BY <1>5, <1>6, <2>1
<1>11. OrdersQueued'
  <2> SUFFICES ASSUME NEW k \in 1..n, writes'[k].table = "orders"
               PROVE  \/ Matches(orders', writes'[k].row, writes'[k].id) /\ Mends(writes'[k].row)
                      \/ \E m \in 1..n : writes'[m].table = "orders"
                           /\ writes'[m].id = writes'[k].id /\ m > k
    BY <1>5 DEF OrdersQueued, Pending, PendingOrder
  <2>1. CASE k = n
    BY <1>5, <1>7, <1>9, <2>1 DEF Mends
  <2>2. CASE writes'[k].id = i /\ k < n
    BY <1>5, <2>2
  <2>3. CASE \E j \in Stale(os, i) \ {i} : writes'[k] = SaveOrder(j, orders'[j])
    <3>1. PICK j \in Stale(os, i) \ {i} : writes'[k] = SaveOrder(j, orders'[j])
      BY <2>3
    <3>2. writes'[k].row = orders'[j] /\ writes'[k].id = j
      BY <3>1 DEF SaveOrder
    <3> QED
      BY <1>7, <1>8, <1>9, <3>2 DEF Mends
  <2> QED
    BY <1>5, <1>6, <2>1, <2>2, <2>3
<1>12. OrdersTell'
  <2> SUFFICES ASSUME NEW j \in 1..created'
               PROVE  RowTells(j)' \/ \E k \in 1..n : writes'[k].table = "orders" /\ writes'[k].id = j
    BY <1>5 DEF OrdersTell, Pending, PendingOrder
  <2>1. CASE j = i
    BY <1>5, <2>1
  <2>2. CASE j # i /\ j \in Stale(os, i)
    <3>1. PICK k \in 1..n : writes'[k] = SaveOrder(j, orders'[j])
      BY <1>4, <2>2 DEF Filling
    <3> QED
      BY <3>1 DEF SaveOrder
  <2>3. CASE j # i /\ j \notin Stale(os, i)
    <3>1. (j \in DOMAIN orders' <=> j \in DOMAIN orders) /\ (j \in DOMAIN orders' => orders'[j] = orders[j])
      BY <1>7, <2>3
    <3>2. CASE j \in 1..created
      <4>1. RowTells(j)
        BY <1>2, <3>2
      <4> QED
        BY <1>3, <3>1, <4>1 DEF RowTells, Matches
    <3>3. CASE j \notin 1..created
      <4>1. j \notin DOMAIN orders /\ j \notin DOMAIN rows.orders
        BY <3>3 DEF TypeInv, MemoryTyped, RowsTyped, Book
      <4> QED
        BY <1>3, <3>1, <4>1 DEF RowTells
    <3> QED
      BY <3>2, <3>3
  <2> QED
    BY <2>1, <2>2, <2>3
<1>13. PositionTells'
  BY <1>5, <1>10 DEF PositionTells, Pending
<1>14. FillsTell'
  <2>1. \A k \in 1..n : writes'[k].table = "fills" => k = n - 1
    BY <1>10
  <2> QED
    BY <1>2, <1>3, <1>5, <2>1 DEF FillsTell, Pending
<1>15. \A k \in 1..n : writes'[k].table \notin {"funding_payments", "wallets", "reset"}
  BY <1>5, <1>10
<1>16. FundingTells' /\ SpotCovered' /\ ResetsClear'
  BY <1>2, <1>3, <1>5, <1>15 DEF FundingTells, SpotCovered, ResetsClear, Pending
<1>17. ClosedIsFlat'
  BY <1>4 DEF ClosedIsFlat
<1> QED
  BY <1>11, <1>12, <1>13, <1>14, <1>16, <1>17 DEF StoreInv
-----------------------------------------------------------------------------
(* What is pending: the other methods *)

\* A method that changes order i alone, and queues rows of it of which the last
\* is as the book then has it.
LEMMA OrderStores ==
  ASSUME TypeInv, StoreInv, Idle, created' \in Nat, created <= created',
         UNCHANGED <<pos, fills, funding, rows, torn>>,
         NEW i, NEW n \in Nat \ {0}, DOMAIN writes' = 1..n,
         DOMAIN orders' = DOMAIN orders \union {i},
         \A j \in DOMAIN orders \ {i} : orders'[j] = orders[j],
         \A k \in 1..n : writes'[k].table = "orders" /\ writes'[k].id = i,
         Matches(orders', writes'[n].row, i), Mends(writes'[n].row)
  PROVE  StoreInv'
<1>1. /\ RestoredPosition(rows) = pos /\ rows.fills = fills /\ rows.funding = funding
      /\ \A j \in 1..created : RowTells(j)
  BY IdleTells
<1>2. n \in 1..n /\ \A k \in 1..n : k # n => n > k
  OBVIOUS
<1>3. OrdersQueued'
  BY <1>2 DEF OrdersQueued, Pending, PendingOrder
<1>4. OrdersTell'
  <2> SUFFICES ASSUME NEW j \in 1..created', j # i PROVE RowTells(j)'
    BY <1>2 DEF OrdersTell, Pending, PendingOrder
  <2>1. (j \in DOMAIN orders' <=> j \in DOMAIN orders) /\ (j \in DOMAIN orders' => orders'[j] = orders[j])
    OBVIOUS
  <2>2. CASE j \in 1..created
    <3>1. RowTells(j)
      BY <1>1, <2>2
    <3> QED
      BY <2>1, <3>1 DEF RowTells, Matches
  <2>3. CASE j \notin 1..created
    <3>1. j \notin DOMAIN orders /\ j \notin DOMAIN rows.orders
      BY <2>3 DEF TypeInv, MemoryTyped, RowsTyped, Book
    <3> QED
      BY <2>1, <3>1 DEF RowTells
  <2> QED
    BY <2>2, <2>3
<1>5. PositionTells' /\ FillsTell' /\ FundingTells'
  BY <1>1 DEF PositionTells, FillsTell, FundingTells, Pending, RestoredPosition
<1>6. SpotCovered' /\ ResetsClear' /\ ClosedIsFlat'
  BY DEF SpotCovered, ResetsClear, ClosedIsFlat, Pending, StoreInv
<1> QED
  BY <1>3, <1>4, <1>5, <1>6 DEF StoreInv

LEMMA UnfilledStores ==
  ASSUME TypeInv, StoreInv, NEW c \in Commands, SubmitUnfilled(c) PROVE StoreInv'
<1> DEFINE i == created + 1
           o == NewOrder(c)
<1>1. o \in OrderRecord /\ Resting(o)
  BY NewOrderType
<1>2. PICK status \in Outcomes(o) :
        /\ orders' = With(orders, i, [o EXCEPT !.status = status])
        /\ writes' = <<SaveOrder(i, o)>> \o (IF status = "NEW" THEN <<>>
                        ELSE <<SaveOrder(i, [o EXCEPT !.status = status])>>)
  BY DEF SubmitUnfilled
<1>3. /\ created \in Nat /\ i \in Nat /\ created <= i /\ i \in 1..i /\ created' = i /\ Idle
      /\ UNCHANGED <<pos, fills, funding, wallet, rows, cleared, unsaved, restarts, torn>>
  BY BoundsAssumption DEF SubmitUnfilled, TypeInv, Counted
<1> DEFINE left == [o EXCEPT !.status = status]
           a == SaveOrder(i, o)
           b == SaveOrder(i, left)
<1>4. left \in OrderRecord /\ left.status = status /\ left.qty = o.qty
  BY <1>1, <1>2 DEF Outcomes, OrderRecord
<1>5. status = "NEW" => left = o /\ o.qty > 0
  <2>1. status = "NEW" => left = o
    BY <1>1 DEF OrderRecord, Resting
  <2>2. status = "NEW" => o.qty > 0
    BY <1>2 DEF Outcomes, Acceptable
  <2> QED
    BY <2>1, <2>2
<1>6. Stored(orders', orders, i, left) /\ Book(orders, created)
  <2>1. orders' = With(orders, i, left)
    BY <1>2
  <2>2. Book(orders, created)
    BY DEF TypeInv, MemoryTyped
  <2> HIDE DEF i, o, left
  <2> QED
    BY <1>3, <1>4, <2>1, <2>2, WithBook
<1>7. a.table = "orders" /\ a.id = i /\ a.row = o /\ b.table = "orders" /\ b.id = i /\ b.row = left
  BY DEF SaveOrder
<1>8. /\ status = "NEW" => DOMAIN writes' = 1..1 /\ writes'[1] = a
      /\ status # "NEW" => DOMAIN writes' = 1..2 /\ writes'[1] = a /\ writes'[2] = b
  <2> DEFINE s == <<a>>
             t == <<b>>
             e == <<>>
             S == {a, b}
  <2>1. /\ status = "NEW" => writes' = s \o e
        /\ status # "NEW" => writes' = s \o t
    BY <1>2
  <2> HIDE DEF a, b
  <2>2. /\ s \in Seq(S) /\ Len(s) = 1 /\ s[1] = a /\ t \in Seq(S) /\ Len(t) = 1 /\ t[1] = b
        /\ e \in Seq(S) /\ Len(e) = 0
    OBVIOUS
  <2> HIDE DEF s, t, e, S
  <2>3. /\ status = "NEW" => writes' \in Seq(S) /\ Joins(writes', s, e)
        /\ status # "NEW" => writes' \in Seq(S) /\ Joins(writes', s, t)
    BY <2>1, <2>2, Joined
  <2>4. \A k \in {1} : k \in 1..1 /\ 1 + k = 2
    OBVIOUS
  <2>5. status = "NEW" => writes' \in Seq(S) /\ Len(writes') = 1 /\ writes'[1] = a
    BY <2>2, <2>3, <2>4 DEF Joins
  <2>6. status # "NEW" => writes' \in Seq(S) /\ Len(writes') = 2 /\ writes'[1] = a /\ writes'[2] = b
    BY <2>2, <2>3, <2>4 DEF Joins
  <2> QED
    BY <2>5, <2>6
<1> HIDE DEF i, o, left, a, b
<1>9. /\ DOMAIN orders' = DOMAIN orders \union {i} /\ orders'[i] = left
      /\ \A j \in DOMAIN orders \ {i} : orders'[j] = orders[j]
  BY <1>6 DEF Stored
<1>10. Matches(orders', left, i) /\ Mends(left)
  BY <1>4, <1>5, <1>9 DEF Matches, Mends, Resting
<1>11. CASE status = "NEW"
  <2>1. DOMAIN writes' = 1..1 /\ writes'[1] = a
    BY <1>8, <1>11
  <2>2. /\ \A k \in 1..1 : writes'[k].table = "orders" /\ writes'[k].id = i
        /\ writes'[1].row = left
    BY <1>5, <1>7, <1>11, <2>1
  <2> QED
    BY <1>3, <1>9, <1>10, <2>1, <2>2, OrderStores
<1>12. CASE status # "NEW"
  <2>1. DOMAIN writes' = 1..2 /\ writes'[1] = a /\ writes'[2] = b
    BY <1>8, <1>12
  <2>2. /\ \A k \in 1..2 : writes'[k].table = "orders" /\ writes'[k].id = i
        /\ writes'[2].row = left
    BY <1>7, <2>1
  <2> QED
    BY <1>3, <1>9, <1>10, <2>1, <2>2, OrderStores
<1> QED
  BY <1>11, <1>12

LEMMA CancelStores ==
  ASSUME TypeInv, StoreInv, NEW i \in DOMAIN orders, CancelOrder(i) PROVE StoreInv'
<1> DEFINE w == SaveOrder(i, Canceled(orders[i]))
<1>1. /\ Idle /\ Resting(orders[i]) /\ orders' = [orders EXCEPT ![i] = Canceled(orders[i])]
      /\ writes' = <<w>>
      /\ UNCHANGED <<pos, fills, funding, wallet, rows, created, cleared, unsaved, restarts, torn>>
  BY DEF CancelOrder
<1>2. orders[i] \in OrderRecord /\ created \in Nat
  BY BoundsAssumption DEF TypeInv, MemoryTyped, Book, Counted
<1>3. ~Resting(Canceled(orders[i]))
  BY <1>1, <1>2 DEF Canceled, Resting, OrderRecord
<1>4. /\ DOMAIN orders' = DOMAIN orders \union {i} /\ orders'[i] = Canceled(orders[i])
      /\ \A j \in DOMAIN orders \ {i} : orders'[j] = orders[j]
  BY <1>1
<1>5. w.table = "orders" /\ w.id = i /\ w.row = orders'[i]
  BY <1>4 DEF SaveOrder
<1> HIDE DEF w
<1>6. DOMAIN writes' = 1..1 /\ writes'[1] = w
  BY <1>1
<1>7. Matches(orders', writes'[1].row, i) /\ Mends(writes'[1].row)
  BY <1>3, <1>4, <1>5, <1>6 DEF Matches, Mends
<1>8. \A k \in 1..1 : writes'[k].table = "orders" /\ writes'[k].id = i
  BY <1>5, <1>6
<1>9. created' \in Nat /\ created <= created' /\ 1 \in Nat \ {0}
  BY <1>1, <1>2
<1>10. UNCHANGED <<pos, fills, funding, rows, torn>> /\ Idle
  BY <1>1
<1> QED
  BY <1>4, <1>6, <1>7, <1>8, <1>9, <1>10, OrderStores

LEMMA EmptyMatchStores ==
  ASSUME TypeInv, StoreInv, NEW i \in DOMAIN orders, MatchEmptyOrder(i) PROVE StoreInv'
<1>1. /\ Idle /\ Resting(orders[i]) /\ orders[i].qty = 0
      /\ orders' = [orders EXCEPT ![i] = Filled(orders[i])]
      /\ UNCHANGED <<pos, fills, funding, wallet, rows, writes, created, cleared, unsaved, restarts, torn>>
  BY DEF MatchEmptyOrder, Matchable
<1>2. orders[i] \in OrderRecord /\ i \in 1..created
  BY DEF TypeInv, MemoryTyped, Book
<1>3. ~Active(orders[i]) /\ ~Resting(Filled(orders[i]))
  BY <1>1, <1>2 DEF Filled, Resting, Active, OrderRecord
<1>4. /\ DOMAIN orders' = DOMAIN orders /\ orders'[i] = Filled(orders[i])
      /\ \A j \in DOMAIN orders \ {i} : orders'[j] = orders[j]
  BY <1>1
<1>5. /\ RestoredPosition(rows) = pos /\ rows.fills = fills /\ rows.funding = funding
      /\ \A j \in 1..created : RowTells(j)
  BY <1>1, IdleTells
<1>6. \A j \in 1..created : RowTells(j)'
  <2> SUFFICES ASSUME NEW j \in 1..created PROVE RowTells(j)'
    OBVIOUS
  <2>1. RowTells(j)
    BY <1>5
  <2>2. CASE j # i
    BY <1>1, <1>4, <2>1, <2>2 DEF RowTells, Matches
  <2>3. CASE j = i
    BY <1>1, <1>3, <1>4, <2>1, <2>3 DEF RowTells, Matches, Active
  <2> QED
    BY <2>2, <2>3
<1>7. DOMAIN writes' = {}
  BY <1>1 DEF Idle
<1>8. OrdersQueued' /\ OrdersTell' /\ SpotCovered' /\ ResetsClear'
  BY <1>1, <1>6, <1>7 DEF OrdersQueued, OrdersTell, SpotCovered, ResetsClear, Pending
<1>9. PositionTells' /\ FillsTell' /\ FundingTells' /\ ClosedIsFlat'
  BY <1>1, <1>5, <1>7
  DEF PositionTells, FillsTell, FundingTells, ClosedIsFlat, Pending, RestoredPosition, StoreInv
<1> QED
  BY <1>8, <1>9 DEF StoreInv

\* A method that leaves the orders alone, and queues nothing about them.
LEMMA OrdersLeft ==
  ASSUME TypeInv, StoreInv, Idle, UNCHANGED <<orders, rows, created, torn>>,
         \A k \in DOMAIN writes' : writes'[k].table # "orders"
  PROVE  OrdersQueued' /\ OrdersTell'
<1>1. \A j \in 1..created : RowTells(j)
  BY IdleTells
<1>2. ASSUME NEW j \in 1..created PROVE RowTells(j)'
  <2>1. RowTells(j)
    BY <1>1
  <2> QED
    BY <2>1 DEF RowTells
<1> QED
  BY <1>2 DEF OrdersQueued, OrdersTell, Pending

LEMMA FundingStores == ASSUME TypeInv, StoreInv, ApplyFunding PROVE StoreInv'
<1>1. PICK rate \in FundingRates :
        /\ funding' = Append(funding, pos.qty * rate)
        /\ writes' = <<SaveFunding(pos.qty * rate), SavePosition(pos), SavePosition(pos)>>
  BY DEF ApplyFunding
<1>2. Idle /\ pos.qty # 0 /\ UNCHANGED <<orders, pos, fills, rows, created, cleared, unsaved, restarts, torn>>
  BY DEF ApplyFunding
<1> DEFINE payment == pos.qty * rate
           a == SaveFunding(payment)
           b == SavePosition(pos)
<1>3. a.table = "funding_payments" /\ a.row = payment /\ b.table = "positions" /\ b.row = pos
  BY DEF SaveFunding, SavePosition
<1>4. funding' = Append(funding, payment) /\ writes' = <<a, b, b>>
  BY <1>1
<1> HIDE DEF payment, a, b
<1>5. DOMAIN writes' = 1..3 /\ writes'[1] = a /\ writes'[2] = b /\ writes'[3] = b
  BY <1>4
<1>6. /\ \A k \in DOMAIN writes' : IF k = 1
           THEN writes'[k].table = "funding_payments" /\ writes'[k].row = payment
           ELSE writes'[k].table = "positions" /\ writes'[k].row = pos
      /\ 1 \in DOMAIN writes' /\ 2 \in DOMAIN writes'
  BY <1>3, <1>5
<1>7. RestoredPosition(rows) = pos /\ rows.fills = fills /\ rows.funding = funding
  BY <1>2, IdleTells
<1>8. OrdersQueued' /\ OrdersTell'
  BY <1>2, <1>6, OrdersLeft
<1>9. PositionTells' /\ FillsTell' /\ FundingTells'
  BY <1>2, <1>4, <1>6, <1>7
  DEF PositionTells, FillsTell, FundingTells, Pending
<1>10. SpotCovered' /\ ResetsClear' /\ ClosedIsFlat'
  BY <1>2, <1>6 DEF SpotCovered, ResetsClear, ClosedIsFlat, Pending, StoreInv
<1> QED
  BY <1>8, <1>9, <1>10 DEF StoreInv

LEMMA TransferStores ==
  ASSUME TypeInv, StoreInv, NEW amount \in TransferAmounts, TransferOut(amount) \/ TransferIn(amount)
  PROVE  StoreInv'
<1>1. /\ Idle /\ UNCHANGED <<orders, pos, fills, funding, rows, created, cleared, restarts, torn>>
      /\ \/ writes' = <<MoveSpot(amount)>>
         \/ writes' = <<MoveSpot(-amount)>> /\ rows.spot >= amount
  BY DEF TransferOut, TransferIn
<1>2. amount \in Nat /\ rows.spot \in Nat
  BY MoneyAssumption DEF TypeInv, RowsTyped
<1>3. PICK x \in {amount, -amount} : writes' = <<MoveSpot(x)>> /\ rows.spot + x >= 0
  BY <1>1, <1>2
<1> DEFINE w == MoveSpot(x)
<1>4. w.table = "wallets" /\ w.row = x
  BY DEF MoveSpot
<1>5. writes' = <<w>>
  BY <1>3
<1> HIDE DEF w
<1>6. DOMAIN writes' = {1} /\ writes'[1] = w
  BY <1>5
<1>7. RestoredPosition(rows) = pos /\ rows.fills = fills /\ rows.funding = funding
  BY <1>1, IdleTells
<1>8. OrdersQueued' /\ OrdersTell'
  BY <1>1, <1>4, <1>6, OrdersLeft
<1>9. PositionTells' /\ FillsTell' /\ FundingTells'
  BY <1>1, <1>4, <1>6, <1>7 DEF PositionTells, FillsTell, FundingTells, Pending, RestoredPosition
<1>10. SpotCovered' /\ ResetsClear' /\ ClosedIsFlat'
  BY <1>1, <1>3, <1>4, <1>6 DEF SpotCovered, ResetsClear, ClosedIsFlat, Pending, StoreInv
<1> QED
  BY <1>8, <1>9, <1>10 DEF StoreInv

LEMMA ResetStores ==
  ASSUME TypeInv, StoreInv, NEW balance \in ResetBalances, ResetAccount(balance) PROVE StoreInv'
<1> DEFINE resting == {i \in DOMAIN orders : Resting(orders[i])}
           n == Len(writes')
<1>1. /\ Idle /\ orders' = <<>> /\ pos' = Flat /\ fills' = <<>> /\ funding' = <<>>
      /\ UNCHANGED <<rows, created, restarts, torn>>
  BY DEF ResetAccount
<1>2. Resetting(resting)
  BY ResetQueues
<1> HIDE DEF resting
<1>3. DOMAIN writes' = 1..n /\ n \in Nat /\ n >= 4
  BY <1>2 DEF Resetting
<1>4. /\ ResetRows[1].table = "reset" /\ ResetRows[1].row = "position"
      /\ ResetRows[2].table = "reset" /\ ResetRows[2].row = "orders"
      /\ ResetRows[3].table = "reset" /\ ResetRows[3].row = "fills"
      /\ ResetRows[4].table = "reset" /\ ResetRows[4].row = "funding"
  BY DEF ResetRows
<1>5. /\ writes'[n - 4 + 1] = ResetRows[1] /\ writes'[n - 4 + 2] = ResetRows[2]
      /\ writes'[n - 4 + 3] = ResetRows[3] /\ writes'[n - 4 + 4] = ResetRows[4]
  <2>1. \A k \in 1..4 : writes'[n - 4 + k] = ResetRows[k]
    BY <1>2 DEF Resetting
  <2> QED
    BY <2>1
<1>6. \A m \in 1..4 : n - 4 + m \in DOMAIN writes'
  BY <1>3
<1>7. /\ \E k \in DOMAIN writes' : writes'[k].table = "reset" /\ writes'[k].row = "position"
      /\ \E k \in DOMAIN writes' : writes'[k].table = "reset" /\ writes'[k].row = "fills"
      /\ \E k \in DOMAIN writes' : writes'[k].table = "reset" /\ writes'[k].row = "funding"
  BY <1>4, <1>5, <1>6
<1>8. \A i \in resting : orders[i] \in OrderRecord /\ Resting(orders[i])
  BY DEF TypeInv, MemoryTyped, Book, resting
<1>9. \A i \in resting : ~Resting(Canceled(orders[i]))
  BY <1>8 DEF OrderRecord, Resting, Canceled
<1>10. ASSUME NEW k \in 1..n
       PROVE  IF k \in 1..(n - 4)
              THEN writes'[k].table = "orders" /\ ~Resting(writes'[k].row)
              ELSE writes'[k].table = "reset"
  <2>1. CASE k \in 1..(n - 4)
    <3>1. PICK i \in resting : writes'[k] = SaveOrder(i, Canceled(orders[i]))
      BY <1>2, <2>1 DEF Resetting
    <3> QED
      BY <1>9, <2>1, <3>1 DEF SaveOrder
  <2>2. CASE k \notin 1..(n - 4)
    <3>1. k \in {n - 4 + 1, n - 4 + 2, n - 4 + 3, n - 4 + 4}
      <4> HIDE DEF n
      <4> QED
        BY <1>3, <2>2
    <3> QED
      BY <1>4, <1>5, <2>2, <3>1
  <2> QED
    BY <2>1, <2>2
<1>11. /\ RestoredPosition(rows) = pos /\ rows.fills = fills /\ rows.funding = funding
       /\ \A j \in 1..created : RowTells(j)
  BY <1>1, IdleTells
<1>12. OrdersQueued'
  <2> SUFFICES ASSUME NEW k \in 1..n, writes'[k].table = "orders"
               PROVE  Matches(orders', writes'[k].row, writes'[k].id) /\ Mends(writes'[k].row)
    BY <1>3 DEF OrdersQueued, Pending
  <2>1. ~Resting(writes'[k].row)
    BY <1>10
  <2> QED
    BY <1>1, <2>1 DEF Matches, Mends, Active
<1>13. OrdersTell'
  <2> SUFFICES ASSUME NEW j \in 1..created
               PROVE  RowTells(j)' \/ \E k \in DOMAIN writes' : writes'[k].table = "orders" /\ writes'[k].id = j
    BY <1>1 DEF OrdersTell, Pending, PendingOrder
  <2>1. RowTells(j)
    BY <1>11
  <2>2. CASE j \in DOMAIN rows.orders /\ Active(rows.orders[j])
    <3>1. j \in resting
      BY <2>1, <2>2 DEF RowTells, Matches, Active, resting
    <3>2. PICK k \in 1..(n - 4) : writes'[k] = SaveOrder(j, Canceled(orders[j]))
      BY <1>2, <3>1 DEF Resetting
    <3>3. k \in DOMAIN writes'
      BY <1>3
    <3> QED
      BY <3>2, <3>3 DEF SaveOrder
  <2>3. CASE ~(j \in DOMAIN rows.orders /\ Active(rows.orders[j]))
    BY <1>1, <2>1, <2>3 DEF RowTells, Matches
  <2> QED
    BY <2>2, <2>3
<1>14. \A k \in DOMAIN writes' :
          writes'[k].table \notin {"positions", "fills", "funding_payments", "wallets"}
  BY <1>3, <1>10
<1>15. PositionTells' /\ FillsTell' /\ FundingTells'
  BY <1>7, <1>14 DEF PositionTells, FillsTell, FundingTells, Pending, Resets
<1>16. SpotCovered' /\ ResetsClear' /\ ClosedIsFlat'
  BY <1>1, <1>14 DEF SpotCovered, ResetsClear, ClosedIsFlat, Pending
<1> QED
  BY <1>12, <1>13, <1>15, <1>16 DEF StoreInv
-----------------------------------------------------------------------------
(* What is pending: a statement runs *)

\* What is pending after it is what was, but for the first.
Shifted ==
  /\ \A k \in DOMAIN writes' : k + 1 \in DOMAIN writes /\ k + 1 # 1 /\ writes'[k] = writes[k + 1]
  /\ \A k \in DOMAIN writes : k # 1 => k - 1 \in DOMAIN writes' /\ writes'[k - 1] = writes[k]

LEMMA WriteLeaves ==
  ASSUME TypeInv, Write
  PROVE  /\ Shifted /\ 1 \in DOMAIN writes
         /\ DOMAIN writes \subseteq Int
<1> DEFINE n == Len(writes)
<1>1. /\ n \in Nat /\ n >= 1 /\ Len(writes') = n - 1 /\ DOMAIN writes = 1..n
      /\ DOMAIN writes' = 1..(n - 1) /\ \A k \in 1..(n - 1) : writes'[k] = writes[k + 1]
  BY WriteShifts DEF TypeInv
<1> HIDE DEF n
<1>2. \A k \in 1..(n - 1) : k + 1 \in 1..n /\ k + 1 # 1
  BY <1>1
<1>3. ASSUME NEW k \in 1..n, k # 1 PROVE k - 1 \in 1..(n - 1) /\ writes'[k - 1] = writes[k]
  <2>1. k - 1 \in 1..(n - 1) /\ (k - 1) + 1 = k
    BY <1>1, <1>3
  <2> QED
    BY <1>1, <2>1
<1> QED
  BY <1>1, <1>2, <1>3 DEF Shifted

LEMMA WriteOrders == ASSUME TypeInv, StoreInv, Write PROVE OrdersQueued' /\ OrdersTell'
<1> DEFINE w == writes[1]
<1>1. /\ w \in Statements(created) /\ Changed(rows', w) /\ UNCHANGED <<orders, created, torn>>
  BY WriteShifts
<1>2. /\ Shifted /\ 1 \in DOMAIN writes /\ DOMAIN writes \subseteq Int
  BY WriteLeaves
<1>3. OrdersQueued'
  <2> SUFFICES ASSUME NEW k \in DOMAIN writes', writes'[k].table = "orders"
               PROVE  \/ Matches(orders, writes'[k].row, writes'[k].id) /\ Mends(writes'[k].row)
                      \/ \E m \in DOMAIN writes' : writes'[m].table = "orders"
                           /\ writes'[m].id = writes'[k].id /\ m > k
    BY <1>1 DEF OrdersQueued, Pending, PendingOrder
  <2>1. k + 1 \in DOMAIN writes /\ writes'[k] = writes[k + 1]
    BY <1>2 DEF Shifted
  <2>2. CASE \E m \in DOMAIN writes : writes[m].table = "orders"
                /\ writes[m].id = writes[k + 1].id /\ m > k + 1
    <3>1. PICK m \in DOMAIN writes : writes[m].table = "orders"
                /\ writes[m].id = writes[k + 1].id /\ m > k + 1
      BY <2>2
    <3>2. m # 1 /\ m - 1 > k
      <4>1. m \in Int /\ k + 1 \in Int /\ k \in DOMAIN writes'
        BY <1>2, <2>1
      <4>2. k \in Int /\ k >= 1
        BY WriteShifts DEF TypeInv
      <4> QED
        BY <3>1, <4>1, <4>2
    <3>3. m - 1 \in DOMAIN writes' /\ writes'[m - 1] = writes[m]
      BY <1>2, <3>2 DEF Shifted
    <3> QED
      BY <2>1, <3>1, <3>2, <3>3
  <2> QED
    BY <2>1, <2>2 DEF StoreInv, OrdersQueued, Pending, PendingOrder
<1>4. ASSUME NEW j \in 1..created,
             ~ \E k \in DOMAIN writes' : writes'[k].table = "orders" /\ writes'[k].id = j
      PROVE  RowTells(j)'
  <2>1. \A k \in DOMAIN writes : writes[k].table = "orders" /\ writes[k].id = j => k = 1
    BY <1>2, <1>4 DEF Shifted
  <2>2. CASE w.table = "orders" /\ w.id = j
    <3>1. w.row \in OrderRecord /\ rows'.orders = With(rows.orders, j, w.row)
      BY <1>1, <2>2, StatementKinds DEF Changed
    <3>2. j \in DOMAIN rows'.orders /\ rows'.orders[j] = w.row
      BY <3>1 DEF With
    <3>3. Matches(orders, w.row, j) /\ Mends(w.row)
      <4>1. 1 \in Pending("orders")
        BY <1>2, <2>2 DEF Pending
      <4>2. ~ \E m \in PendingOrder(j) : m > 1
        BY <1>2, <2>1 DEF PendingOrder, Pending
      <4> QED
        BY <2>2, <4>1, <4>2 DEF StoreInv, OrdersQueued
    <3> QED
      BY <1>1, <3>2, <3>3 DEF RowTells
  <2>3. CASE ~(w.table = "orders" /\ w.id = j)
    <3>1. RowTells(j)
      <4>1. PendingOrder(j) = {}
        BY <2>1, <2>3 DEF PendingOrder, Pending
      <4> QED
        BY <4>1 DEF StoreInv, OrdersTell
    <3>2. CASE w.table = "orders"
      <4>1. w.id # j /\ rows'.orders = With(rows.orders, w.id, w.row)
        BY <1>1, <2>3, <3>2 DEF Changed
      <4>2. (j \in DOMAIN rows'.orders <=> j \in DOMAIN rows.orders)
            /\ (j \in DOMAIN rows.orders => rows'.orders[j] = rows.orders[j])
        BY <4>1 DEF With
      <4> QED
        BY <1>1, <3>1, <4>2 DEF RowTells
    <3>3. CASE w.table # "orders" /\ Clears(w, "orders")
      <4>1. rows'.orders = Cleared(rows.orders)
        BY <1>1, <3>3 DEF Changed
      <4>2. orders = <<>>
        BY <1>2, <3>3 DEF Clears, StoreInv, ResetsClear, Pending
      <4>3. j \notin DOMAIN orders
        BY <4>2
      <4>4. CASE j \in DOMAIN rows.orders
        <5>1. rows.orders[j] \in OrderRecord /\ rows'.orders[j] = Canceled(rows.orders[j])
              /\ j \in DOMAIN rows'.orders
          BY <4>1, <4>4 DEF Cleared, TypeInv, RowsTyped, Book
        <5>2. ~Resting(rows'.orders[j])
          BY <5>1 DEF Canceled, Resting, OrderRecord
        <5> QED
          BY <1>1, <4>3, <5>1, <5>2 DEF RowTells, Matches, Mends, Active
      <4>5. CASE j \notin DOMAIN rows.orders
        BY <1>1, <4>1, <4>3, <4>5 DEF RowTells, Cleared
      <4> QED
        BY <4>4, <4>5
    <3>4. CASE w.table # "orders" /\ ~Clears(w, "orders")
      <4>1. rows'.orders = rows.orders
        BY <1>1, <3>4 DEF Changed
      <4> QED
        BY <1>1, <3>1, <4>1 DEF RowTells
    <3> QED
      BY <3>2, <3>3, <3>4
  <2> QED
    BY <2>2, <2>3
<1>5. OrdersTell'
  BY <1>1, <1>4 DEF OrdersTell, Pending, PendingOrder
<1> QED
  BY <1>3, <1>5

LEMMA AppendedIsSome ==
  ASSUME NEW S, NEW s \in Seq(S), NEW x \in S PROVE Append(s, x) # <<>>
  BY AppendProperties

\* A table that is a list: what is pending about it brings it to what memory has.
ListTells(ws, list, table, name, part) ==
  /\ \A k \in DOMAIN ws : ws[k].table = name => list = Append(table, ws[k].row)
  /\ \A j, k \in DOMAIN ws : ws[j].table = name /\ ws[k].table = name => j = k
  /\ table = list \/ \E k \in DOMAIN ws : ws[k].table = name \/ Clears(ws[k], part)

LEMMA WriteLists ==
  ASSUME Shifted, 1 \in DOMAIN writes, DOMAIN writes' \subseteq Int,
         NEW S, NEW list, NEW table \in Seq(S), NEW name, NEW part, NEW after,
         ListTells(writes, list, table, name, part),
         \A k \in DOMAIN writes : writes[k].table = name => writes[k].row \in S,
         writes[1].table = "reset" => list = <<>>,
         after = IF writes[1].table = name THEN Append(table, writes[1].row)
                 ELSE IF Clears(writes[1], part) THEN <<>> ELSE table
  PROVE  ListTells(writes', list, after, name, part)
<1> DEFINE w == writes[1]
<1>1. /\ \A k \in DOMAIN writes : writes[k].table = name => list = Append(table, writes[k].row)
      /\ \A j, k \in DOMAIN writes : writes[j].table = name /\ writes[k].table = name => j = k
  BY DEF ListTells
<1>2. \A j, k \in DOMAIN writes' : writes'[j].table = name /\ writes'[k].table = name => j = k
  <2>1. \A j, k \in DOMAIN writes' :
          writes'[j].table = name /\ writes'[k].table = name => j + 1 = k + 1
    BY <1>1 DEF Shifted
  <2> QED
    BY <2>1
<1>3. CASE w.table = name \/ Clears(w, part)
  <2>1. after = list
    BY <1>1, <1>3 DEF Clears
  <2>2. \A k \in DOMAIN writes' : writes'[k].table # name
    <3> SUFFICES ASSUME NEW k \in DOMAIN writes', writes'[k].table = name PROVE FALSE
      OBVIOUS
    <3>1. k + 1 \in DOMAIN writes /\ k + 1 # 1 /\ writes[k + 1].table = name
      BY DEF Shifted
    <3>2. list = Append(table, writes[k + 1].row) /\ writes[k + 1].row \in S
      BY <1>1, <3>1
    <3>3. list = <<>>
      BY <1>1, <1>3, <3>1 DEF Clears
    <3> QED
      BY <3>2, <3>3, AppendedIsSome
  <2> QED
    BY <2>1, <2>2 DEF ListTells
<1>4. CASE ~(w.table = name \/ Clears(w, part))
  <2>1. after = table
    BY <1>4
  <2>2. \A k \in DOMAIN writes : writes[k].table = name \/ Clears(writes[k], part) =>
          k - 1 \in DOMAIN writes' /\ writes'[k - 1] = writes[k]
    BY <1>4 DEF Shifted
  <2>3. table = list \/ \E k \in DOMAIN writes' : writes'[k].table = name \/ Clears(writes'[k], part)
    BY <2>2 DEF ListTells
  <2>4. \A k \in DOMAIN writes' : writes'[k].table = name => list = Append(table, writes'[k].row)
    BY <1>1 DEF Shifted
  <2> QED
    BY <1>2, <2>1, <2>3, <2>4 DEF ListTells
<1> QED
  BY <1>3, <1>4

LEMMA WriteStores == ASSUME TypeInv, StoreInv, Write PROVE StoreInv'
<1> DEFINE w == writes[1]
<1>1. /\ w \in Statements(created) /\ Changed(rows', w)
      /\ UNCHANGED <<orders, pos, fills, funding, created, torn>>
  BY WriteShifts
<1>0. DOMAIN writes' \subseteq Int /\ \A k \in DOMAIN writes : writes[k] \in Statements(created)
  BY WriteShifts DEF TypeInv
<1>2. Shifted /\ 1 \in DOMAIN writes
  BY WriteLeaves
<1>3. w.table = "reset" => orders = <<>> /\ pos = Flat /\ fills = <<>> /\ funding = <<>>
  BY <1>2 DEF StoreInv, ResetsClear, Pending
<1>4. \A t : Pending(t)' # {} => Pending(t) # {}
  BY <1>2 DEF Shifted, Pending
<1>5. PositionTells'
  <2>1. \A k \in DOMAIN writes : writes[k].table = "positions" => writes[k].row = pos
    BY DEF StoreInv, PositionTells, Pending
  <2>2. \A k \in DOMAIN writes' : writes'[k].table = "positions" => writes'[k].row = pos
    BY <1>2, <2>1 DEF Shifted
  <2>3. CASE w.table = "positions" \/ Clears(w, "position")
    <3>1. rows'.position = pos
      BY <1>1, <1>2, <1>3, <2>1, <2>3 DEF Changed, Clears
    <3>2. RestoredPosition(rows') = pos
      BY <3>1 DEF RestoredPosition, StoreInv, ClosedIsFlat
    <3> QED
      BY <1>1, <2>2, <3>2 DEF PositionTells, Pending
  <2>4. CASE ~(w.table = "positions" \/ Clears(w, "position"))
    <3>1. RestoredPosition(rows') = RestoredPosition(rows)
      BY <1>1, <2>4 DEF Changed, RestoredPosition
    <3>2. \A k \in DOMAIN writes : writes[k].table = "positions" \/ Clears(writes[k], "position") => k # 1
      BY <2>4
    <3>3. \A k \in DOMAIN writes : writes[k].table = "positions" \/ Clears(writes[k], "position") =>
            k - 1 \in DOMAIN writes' /\ writes'[k - 1] = writes[k]
      BY <1>2, <3>2 DEF Shifted
    <3>4. \/ RestoredPosition(rows) = pos
          \/ \E k \in DOMAIN writes : writes[k].table = "positions" \/ Clears(writes[k], "position")
      BY DEF StoreInv, PositionTells, Pending, Resets, Clears
    <3>5. \/ RestoredPosition(rows') = pos
          \/ \E k \in DOMAIN writes' : writes'[k].table = "positions" \/ Clears(writes'[k], "position")
      BY <3>1, <3>3, <3>4
    <3> QED
      BY <1>1, <2>2, <3>5 DEF PositionTells, Pending, Resets, Clears
  <2> QED
    BY <2>3, <2>4
<1>6. FillsTell'
  <2>1. ListTells(writes, fills, rows.fills, "fills", "fills")
    BY DEF StoreInv, FillsTell, ListTells, Pending, Resets, Clears
  <2>2. \A k \in DOMAIN writes : writes[k].table = "fills" => writes[k].row \in FillsOf(created)
    BY <1>0, StatementKinds
  <2>3. rows'.fills = IF w.table = "fills" THEN Append(rows.fills, w.row)
                      ELSE IF Clears(w, "fills") THEN <<>> ELSE rows.fills
    BY <1>1 DEF Changed
  <2>4. rows.fills \in Seq(FillsOf(created))
    BY DEF TypeInv, RowsTyped
  <2> HIDE DEF w
  <2>5. ListTells(writes', fills, rows'.fills, "fills", "fills")
    BY <1>0, <1>2, <1>3, <2>1, <2>2, <2>3, <2>4, WriteLists DEF w
  <2> QED
    BY <1>1, <2>5 DEF FillsTell, ListTells, Pending, Resets, Clears
<1>7. FundingTells'
  <2>1. ListTells(writes, funding, rows.funding, "funding_payments", "funding")
    BY DEF StoreInv, FundingTells, ListTells, Pending, Resets, Clears
  <2>2. \A k \in DOMAIN writes : writes[k].table = "funding_payments" => writes[k].row \in Int
    BY <1>0, StatementKinds
  <2>3. rows'.funding = IF w.table = "funding_payments" THEN Append(rows.funding, w.row)
                        ELSE IF Clears(w, "funding") THEN <<>> ELSE rows.funding
    BY <1>1 DEF Changed
  <2>4. rows.funding \in Seq(Int)
    BY DEF TypeInv, RowsTyped
  <2> HIDE DEF w
  <2>5. ListTells(writes', funding, rows'.funding, "funding_payments", "funding")
    BY <1>0, <1>2, <1>3, <2>1, <2>2, <2>3, <2>4, WriteLists DEF w
  <2> QED
    BY <1>1, <2>5 DEF FundingTells, ListTells, Pending, Resets, Clears
<1>8. SpotCovered'
  <2>1. /\ \A k \in DOMAIN writes : writes[k].table = "wallets" => rows.spot + writes[k].row >= 0
        /\ \A j, k \in DOMAIN writes : writes[j].table = "wallets" /\ writes[k].table = "wallets" => j = k
    BY DEF StoreInv, SpotCovered, Pending
  <2>2. DOMAIN writes' \subseteq Int
    BY WriteShifts
  <2>3. CASE w.table = "wallets"
    <3>1. \A k \in DOMAIN writes' : writes'[k].table # "wallets"
      BY <1>2, <2>1, <2>3 DEF Shifted
    <3> QED
      BY <3>1 DEF SpotCovered, Pending
  <2>4. CASE w.table # "wallets"
    <3>1. rows'.spot = rows.spot
      BY <1>1, <2>4 DEF Changed
    <3>2. \A k \in DOMAIN writes' : writes'[k].table = "wallets" => rows'.spot + writes'[k].row >= 0
      BY <1>2, <2>1, <3>1 DEF Shifted
    <3>3. \A j, k \in DOMAIN writes' : writes'[j].table = "wallets" /\ writes'[k].table = "wallets" => j + 1 = k + 1
      BY <1>2, <2>1 DEF Shifted
    <3>4. \A j, k \in DOMAIN writes' : writes'[j].table = "wallets" /\ writes'[k].table = "wallets" => j = k
      BY <2>2, <3>3
    <3> QED
      BY <3>2, <3>4 DEF SpotCovered, Pending
  <2> QED
    BY <2>3, <2>4
<1>9. ResetsClear' /\ ClosedIsFlat'
  BY <1>1, <1>4 DEF StoreInv, ResetsClear, ClosedIsFlat
<1>10. OrdersQueued' /\ OrdersTell'
  BY WriteOrders
<1> QED
  BY <1>5, <1>6, <1>7, <1>8, <1>9, <1>10 DEF StoreInv

LEMMA RestartStores == ASSUME TypeInv, StoreInv, Restart PROVE StoreInv'
<1>1. /\ orders' = RestoredOrders(rows) /\ pos' = RestoredPosition(rows)
      /\ fills' = rows.fills /\ funding' = rows.funding /\ writes' = <<>>
      /\ torn' = (IF Idle THEN torn ELSE torn + 1) /\ UNCHANGED <<rows, created>>
  BY DEF Restart
<1>2. DOMAIN writes' = {}
  BY <1>1
<1>3. torn' = 0 => torn = 0 /\ Idle
  BY <1>1, BoundsAssumption DEF TypeInv, Counted
<1>4. /\ DOMAIN orders' = {j \in DOMAIN rows.orders : Resting(rows.orders[j])}
      /\ \A j \in DOMAIN orders' : orders'[j] = rows.orders[j]
  BY <1>1 DEF RestoredOrders
<1>5. ASSUME NEW j \in 1..created PROVE RowTells(j)'
  <2>1. CASE j \in DOMAIN rows.orders
    <3>1. Matches(orders', rows.orders[j], j)
      BY <1>4, <2>1 DEF Matches, Active
    <3>2. torn' = 0 => Mends(rows.orders[j])
      <4> SUFFICES ASSUME torn' = 0 PROVE Mends(rows.orders[j])
        OBVIOUS
      <4>1. RowTells(j)
        BY <1>3, IdleTells
      <4> QED
        BY <1>3, <2>1, <4>1 DEF RowTells
    <3> QED
      BY <1>1, <2>1, <3>1, <3>2 DEF RowTells
  <2>2. CASE j \notin DOMAIN rows.orders
    BY <1>1, <1>4, <2>2 DEF RowTells
  <2> QED
    BY <2>1, <2>2
<1>6. OrdersQueued' /\ OrdersTell' /\ SpotCovered' /\ ResetsClear'
  BY <1>1, <1>2, <1>5 DEF OrdersQueued, OrdersTell, SpotCovered, ResetsClear, Pending
<1>7. RestoredPosition(rows') = pos' /\ ClosedIsFlat'
  BY <1>1 DEF RestoredPosition, ClosedIsFlat, Flat
<1>8. PositionTells' /\ FillsTell' /\ FundingTells'
  BY <1>1, <1>2, <1>7 DEF PositionTells, FillsTell, FundingTells, Pending
<1> QED
  BY <1>6, <1>7, <1>8 DEF StoreInv

LEMMA StoresInit == Init => StoreInv
<1> SUFFICES ASSUME Init PROVE StoreInv
  OBVIOUS
<1>1. /\ orders = <<>> /\ pos = Flat /\ fills = <<>> /\ funding = <<>> /\ created = 0
      /\ rows.orders = <<>> /\ rows.position = Flat /\ rows.fills = <<>> /\ rows.funding = <<>>
      /\ DOMAIN writes = {}
  BY DEF Init, NoRows
<1>2. OrdersQueued /\ OrdersTell /\ SpotCovered /\ ResetsClear /\ ClosedIsFlat
  BY <1>1 DEF OrdersQueued, OrdersTell, SpotCovered, ResetsClear, ClosedIsFlat, Pending
<1>3. PositionTells /\ FillsTell /\ FundingTells
  BY <1>1 DEF PositionTells, FillsTell, FundingTells, Pending, RestoredPosition
<1> QED
  BY <1>2, <1>3 DEF StoreInv

LEMMA StoresStep == TypeInv /\ StoreInv /\ [Next]_vars => StoreInv'
<1> SUFFICES ASSUME TypeInv, StoreInv, [Next]_vars PROVE StoreInv'
  OBVIOUS
<1>1. ASSUME NEW c \in Commands, SubmitUnfilled(c) \/ SubmitFilled(c) PROVE StoreInv'
  BY <1>1, UnfilledStores, SubmitFills, FillStores
<1>2. ASSUME NEW i \in DOMAIN orders, MatchOrder(i) \/ MatchEmptyOrder(i) \/ CancelOrder(i)
      PROVE  StoreInv'
  BY <1>2, MatchFills, FillStores, EmptyMatchStores, CancelStores
<1>3. CASE Liquidate \/ ApplyFunding \/ Write \/ Restart
  BY <1>3, LiquidateFills, FillStores, FundingStores, WriteStores, RestartStores
<1>4. CASE \E amount \in TransferAmounts : TransferOut(amount) \/ TransferIn(amount)
  BY <1>4, TransferStores
<1>5. CASE \E balance \in ResetBalances : ResetAccount(balance)
  BY <1>5, ResetStores
<1>6. CASE UNCHANGED vars
  <2>1. UNCHANGED <<orders, pos, fills, funding, rows, writes, created, torn>>
    BY <1>6 DEF vars, memory
  <2>2. OrdersQueued' /\ OrdersTell' /\ PositionTells' /\ FillsTell'
    BY <2>1 DEF StoreInv, OrdersQueued, OrdersTell, PositionTells, FillsTell, Pending, Resets,
                PendingOrder, RowTells
  <2>3. FundingTells' /\ SpotCovered' /\ ResetsClear' /\ ClosedIsFlat'
    BY <2>1 DEF StoreInv, FundingTells, SpotCovered, ResetsClear, ClosedIsFlat, Pending, Resets
  <2> QED
    BY <2>2, <2>3 DEF StoreInv
<1> QED
  BY <1>1, <1>2, <1>3, <1>4, <1>5, <1>6 DEF Next
-----------------------------------------------------------------------------
(* Money *)

LEMMA MoneyInit == Init => MoneyAdds
<1> SUFFICES ASSUME Init PROVE MoneyAdds
  OBVIOUS
<1>1. fills = <<>> /\ funding = <<>> /\ wallet = StartingUsdt /\ unsaved = 0
  BY DEF Init
<1>2. Sum(Nets(<<>>)) = 0 /\ Sum(<<>>) = 0
  BY SumOfNone DEF Sum, Nets
<1> QED
  BY <1>1, <1>2, MoneyAssumption DEF MoneyAdds

LEMMA SumOfLonger ==
  ASSUME NEW s \in Seq(Int), NEW x \in Int
  PROVE  Sum(Append(s, x)) = Sum(s) + x
<1> DEFINE n == Len(s)
           u == Append(s, x)
<1>1. /\ n \in Nat /\ DOMAIN s = 1..n /\ DOMAIN u = 1..(n + 1) /\ u[n + 1] = x
      /\ \A k \in 1..n : s[k] = u[k]
  OBVIOUS
<1>2. \A k \in 1..(n + 1) : u[k] \in Int
  OBVIOUS
<1> HIDE DEF n, u
<1>3. SumFunctionOnSet(u, 1..(n + 1)) = SumFunctionOnSet(s, 1..n) + u[n + 1]
  BY <1>1, <1>2, SumOfAppended
<1>4. Sum(u) = Sum(s) + x
  BY <1>1, <1>3 DEF Sum
<1> QED
  BY <1>4 DEF u

LEMMA MoneyInts ==
  ASSUME TypeInv
  PROVE  /\ Sum(Nets(fills)) \in Int /\ Sum(funding) \in Int /\ wallet \in Int
         /\ unsaved \in Int /\ StartingUsdt \in Int
<1>1. created \in Nat /\ fills \in Seq(FillsOf(created)) /\ funding \in Seq(Int)
  BY BoundsAssumption DEF TypeInv, MemoryTyped, Counted
<1>2. Sum(Nets(fills)) \in Int
  BY <1>1, NetsType
<1>3. Sum(funding) \in Int
  BY <1>1, SumType
<1>4. wallet \in Int /\ unsaved \in Int
  BY DEF TypeInv, MemoryTyped
<1> QED
  BY <1>2, <1>3, <1>4, MoneyAssumption

\* A fill moves the wallet by what it nets.
LEMMA FillMoney == ASSUME TypeInv, MoneyAdds, Fills PROVE MoneyAdds'
<1>1. PICK os, i, price, first : FillStep(os, i, price, first)
  BY DEF Fills
<1> DEFINE f == FillOf(i, os[i], price)
<1>2. /\ f \in FillsOf(created') /\ created' \in Nat /\ created \in Nat /\ created <= created'
  BY <1>1, FillQueues, FillBook, BoundsAssumption DEF TypeInv, Counted
<1>3. /\ fills' = Append(fills, f) /\ wallet' = wallet - f.fee + f.pnl
      /\ UNCHANGED <<funding, unsaved>>
  BY <1>1 DEF FillStep, FillOrder
<1> HIDE DEF f
<1>4. f.fee \in Int /\ f.pnl \in Int
  BY <1>2 DEF FillsOf
<1>5. Sum(Nets(fills')) = Sum(Nets(fills)) + (f.pnl - f.fee)
  <2> DEFINE s == Nets(fills)
             n == Len(fills)
             x == f.pnl - f.fee
  <2>1. fills \in Seq(FillsOf(created)) /\ fills \in Seq(FillsOf(created'))
    BY <1>2, RecordsGrow, SeqMonotonic DEF TypeInv, MemoryTyped
  <2>2. n \in Nat /\ s = [k \in 1..n |-> s[k]] /\ \A k \in 1..n : s[k] \in Int
    BY <1>2, <2>1, NetsType DEF Nets
  <2>3. s \in Seq(Int)
    BY <2>2, ListIsSeq
  <2>4. Nets(fills') = Append(s, x)
    <3> DEFINE g == fills'
    <3>1. /\ Len(g) = n + 1 /\ g[n + 1] = f /\ \A k \in 1..n : g[k] = fills[k]
          /\ DOMAIN g = 1..(n + 1)
      BY <1>2, <1>3, <2>1, AppendProperties
    <3>2. Nets(g) = [k \in 1..(n + 1) |-> g[k].pnl - g[k].fee]
      BY <3>1 DEF Nets
    <3>3. Append(s, x) = [k \in 1..(n + 1) |-> IF k = n + 1 THEN x ELSE s[k]]
      BY <2>2
    <3>4. \A k \in 1..n : s[k] = fills[k].pnl - fills[k].fee
      BY <2>1 DEF Nets
    <3>5. \A k \in 1..(n + 1) : g[k].pnl - g[k].fee = IF k = n + 1 THEN x ELSE s[k]
      <4> SUFFICES ASSUME NEW k \in 1..(n + 1)
                   PROVE  g[k].pnl - g[k].fee = IF k = n + 1 THEN x ELSE s[k]
        OBVIOUS
      <4>1. k # n + 1 => k \in 1..n
        BY <2>2
      <4> HIDE DEF g, s, n
      <4> QED
        BY <3>1, <3>4, <4>1
    <3> QED
      BY <3>2, <3>3, <3>5
  <2>5. x \in Int
    BY <1>4
  <2> HIDE DEF s, x
  <2>6. Sum(Nets(fills')) = Sum(s) + x
    BY <2>3, <2>4, <2>5, SumOfLonger
  <2> QED
    BY <2>6 DEF s, x
<1> DEFINE nets == Sum(Nets(fills))
           paid == Sum(funding)
<1>6. /\ nets \in Int /\ paid \in Int /\ wallet \in Int /\ unsaved \in Int
      /\ StartingUsdt \in Int /\ wallet = StartingUsdt + nets - paid + unsaved
  BY MoneyInts DEF MoneyAdds
<1>7. Sum(Nets(fills')) = nets + (f.pnl - f.fee) /\ Sum(funding') = paid
  BY <1>3, <1>5
<1> HIDE DEF nets, paid
<1>8. wallet - f.fee + f.pnl = StartingUsdt + (nets + (f.pnl - f.fee)) - paid + unsaved
  BY <1>4, <1>6
<1> QED
  BY <1>3, <1>7, <1>8 DEF MoneyAdds

LEMMA FundingMoney == ASSUME TypeInv, MoneyAdds, ApplyFunding PROVE MoneyAdds'
<1>1. PICK rate \in FundingRates :
        wallet' = wallet - pos.qty * rate /\ funding' = Append(funding, pos.qty * rate)
  BY DEF ApplyFunding
<1>2. UNCHANGED <<fills, unsaved>>
  BY DEF ApplyFunding
<1> DEFINE payment == pos.qty * rate
<1>3. payment \in Int /\ wallet' = wallet - payment /\ funding' = Append(funding, payment)
  BY <1>1, MoneyAssumption DEF TypeInv, MemoryTyped, PositionRecord
<1> HIDE DEF payment
<1>4. funding \in Seq(Int)
  BY DEF TypeInv, MemoryTyped
<1>5. Sum(funding') = Sum(funding) + payment
  BY <1>3, <1>4, SumOfLonger
<1> DEFINE nets == Sum(Nets(fills))
           paid == Sum(funding)
<1>6. /\ nets \in Int /\ paid \in Int /\ wallet \in Int /\ unsaved \in Int
      /\ StartingUsdt \in Int /\ wallet = StartingUsdt + nets - paid + unsaved
  BY MoneyInts DEF MoneyAdds
<1>7. Sum(Nets(fills')) = nets /\ Sum(funding') = paid + payment
  BY <1>2, <1>5
<1> HIDE DEF nets, paid
<1>8. wallet - payment = StartingUsdt + nets - (paid + payment) + unsaved
  BY <1>3, <1>6
<1> QED
  BY <1>2, <1>3, <1>7, <1>8 DEF MoneyAdds

LEMMA MoneyStep == TypeInv /\ MoneyAdds /\ [Next]_vars => MoneyAdds'
<1> SUFFICES ASSUME TypeInv, MoneyAdds, [Next]_vars PROVE MoneyAdds'
  OBVIOUS
<1>0. /\ Sum(Nets(fills)) \in Int /\ Sum(funding) \in Int /\ wallet \in Int /\ unsaved \in Int
      /\ Sum(Nets(<<>>)) = 0 /\ Sum(<<>>) = 0
  <2>1. Sum(Nets(<<>>)) = 0 /\ Sum(<<>>) = 0
    BY SumOfNone DEF Sum, Nets
  <2> QED
    BY <2>1, MoneyInts
<1>1. ASSUME NEW c \in Commands, SubmitUnfilled(c) \/ SubmitFilled(c) PROVE MoneyAdds'
  BY <1>1, SubmitFills, FillMoney DEF SubmitUnfilled, MoneyAdds
<1>2. ASSUME NEW i \in DOMAIN orders, MatchOrder(i) \/ MatchEmptyOrder(i) \/ CancelOrder(i)
      PROVE  MoneyAdds'
  BY <1>2, MatchFills, FillMoney DEF MatchEmptyOrder, CancelOrder, MoneyAdds
<1>3. CASE Liquidate \/ ApplyFunding
  BY <1>3, LiquidateFills, FillMoney, FundingMoney
<1>4. CASE Write
  BY <1>4 DEF Write, memory, MoneyAdds
<1>5. CASE Restart
  <2>1. /\ wallet' = StartingUsdt + Sum(Nets(fills')) - Sum(funding') /\ unsaved' = 0
    BY <1>5 DEF Restart, RestoredWallet, Nets
  <2>2. Sum(Nets(fills')) \in Int /\ Sum(funding') \in Int
    <3>1. rows.fills \in Seq(FillsOf(created)) /\ rows.funding \in Seq(Int) /\ created \in Nat
      BY BoundsAssumption DEF TypeInv, RowsTyped, Counted
    <3>2. fills' = rows.fills /\ funding' = rows.funding
      BY <1>5 DEF Restart
    <3> QED
      BY <3>1, <3>2, NetsType, SumType
  <2> QED
    BY <2>1, <2>2, MoneyAssumption DEF MoneyAdds
<1>6. ASSUME NEW amount \in TransferAmounts, TransferOut(amount) \/ TransferIn(amount)
      PROVE  MoneyAdds'
  <2>1. /\ UNCHANGED <<fills, funding>>
        /\ \/ wallet' = wallet - amount /\ unsaved' = unsaved - amount
           \/ wallet' = wallet + amount /\ unsaved' = unsaved + amount
    BY <1>6 DEF TransferOut, TransferIn
  <2> QED
    BY <1>0, <2>1, MoneyAssumption DEF MoneyAdds
<1>7. ASSUME NEW balance \in ResetBalances, ResetAccount(balance) PROVE MoneyAdds'
  <2>1. fills' = <<>> /\ funding' = <<>> /\ wallet' = balance /\ unsaved' = balance - StartingUsdt
    BY <1>7 DEF ResetAccount
  <2> QED
    BY <1>0, <2>1, MoneyAssumption DEF MoneyAdds
<1>8. CASE UNCHANGED vars
  BY <1>8 DEF vars, memory, MoneyAdds
<1> QED
  BY <1>1, <1>2, <1>3, <1>4, <1>5, <1>6, <1>7, <1>8 DEF Next
-----------------------------------------------------------------------------
(* Gaps *)

\* Where a list of fills ended, and where it has gaps.
EndAt(fs, k) == IF k = 0 THEN 0 ELSE fs[k].after

LEMMA GapsAre ==
  ASSUME NEW n \in Nat, NEW fs \in Seq(FillsOf(n)), NEW q \in Int
  PROVE  /\ Gaps(fs, q) \subseteq 1..(Len(fs) + 1) /\ Len(fs) \in Nat
         /\ \A k \in 1..Len(fs) : k \in Gaps(fs, q) <=> fs[k].before # EndAt(fs, k - 1)
         /\ Len(fs) + 1 \in Gaps(fs, q) <=> q # EndAt(fs, Len(fs))
         /\ IsFiniteSet(Gaps(fs, q)) /\ Cardinality(Gaps(fs, q)) \in Nat
<1> DEFINE m == Len(fs)
<1>1. m \in Nat
  OBVIOUS
<1>2. Gaps(fs, q) = {k \in 1..(m + 1) : (IF k = m + 1 THEN q ELSE fs[k].before) # EndAt(fs, k - 1)}
  BY DEF Gaps, EndAt
<1> HIDE DEF m
<1>3. \A k \in 1..m : k \in 1..(m + 1) /\ k # m + 1
  BY <1>1
<1>4. m + 1 \in 1..(m + 1) /\ (m + 1) - 1 = m
  BY <1>1
<1>5. \A k \in 1..m : k \in Gaps(fs, q) <=> fs[k].before # EndAt(fs, k - 1)
  BY <1>2, <1>3
<1>6. m + 1 \in Gaps(fs, q) <=> q # EndAt(fs, m)
  BY <1>2, <1>4
<1>7. Gaps(fs, q) \subseteq 1..(m + 1)
  BY <1>2
<1>8. IsFiniteSet(Gaps(fs, q)) /\ Cardinality(Gaps(fs, q)) \in Nat
  <2>1. IsFiniteSet(1..(m + 1))
    BY <1>1, FS_Interval
  <2>2. IsFiniteSet(Gaps(fs, q))
    BY <1>7, <2>1, FS_Subset
  <2> QED
    BY <2>2, FS_CardinalityType
<1> QED
  BY <1>1, <1>5, <1>6, <1>7, <1>8 DEF m

\* A fill that starts at the position and moves it opens no gap.
LEMMA GapsOfAppended ==
  ASSUME NEW n \in Nat, NEW fs \in Seq(FillsOf(n)), NEW f \in FillsOf(n)
  PROVE  Gaps(Append(fs, f), f.after) = Gaps(fs, f.before)
<1> DEFINE m == Len(fs)
           g == Append(fs, f)
           after == f.after
           before == f.before
<1>1. /\ m \in Nat /\ g \in Seq(FillsOf(n)) /\ Len(g) = m + 1 /\ g[m + 1] = f
      /\ \A k \in 1..m : g[k] = fs[k]
  BY AppendProperties
<1>2. after \in Int /\ before \in Int
  BY DEF FillsOf
<1> HIDE DEF g, after, before
<1>3. /\ Gaps(g, after) \subseteq 1..(m + 2)
      /\ \A k \in 1..(m + 1) : k \in Gaps(g, after) <=> g[k].before # EndAt(g, k - 1)
      /\ m + 2 \in Gaps(g, after) <=> after # EndAt(g, m + 1)
  <2>1. m + 1 + 1 = m + 2
    BY <1>1
  <2> QED
    BY <1>1, <1>2, <2>1, GapsAre
<1>4. /\ Gaps(fs, before) \subseteq 1..(m + 1)
      /\ \A k \in 1..m : k \in Gaps(fs, before) <=> fs[k].before # EndAt(fs, k - 1)
      /\ m + 1 \in Gaps(fs, before) <=> before # EndAt(fs, m)
  BY <1>2, GapsAre
<1> HIDE DEF m
<1>5. EndAt(g, m + 1) = after
  <2>1. m + 1 # 0
    BY <1>1
  <2> QED
    BY <1>1, <2>1 DEF EndAt, after
<1>6. \A k \in 0..m : EndAt(g, k) = EndAt(fs, k)
  <2>1. \A k \in 0..m : k # 0 => k \in 1..m
    BY <1>1
  <2> QED
    BY <1>1, <2>1 DEF EndAt
<1>7. \A k \in 1..(m + 1) : k - 1 \in 0..m
  BY <1>1
<1>8. \A k \in 1..(m + 2) : k \in 1..m \/ k = m + 1 \/ k = m + 2
  BY <1>1
<1>9. \A k \in 1..m : k \in 1..(m + 1) /\ k - 1 \in 0..m
  BY <1>1
<1>10. m + 1 \in 1..(m + 1) /\ (m + 1) - 1 = m /\ m \in 0..m /\ m + 2 \notin 1..(m + 1)
  BY <1>1
<1>11. \A k \in 1..m : k \in Gaps(g, after) <=> k \in Gaps(fs, before)
  BY <1>1, <1>3, <1>4, <1>6, <1>9
<1>12. m + 1 \in Gaps(g, after) <=> m + 1 \in Gaps(fs, before)
  <2>1. g[m + 1].before = before
    BY <1>1 DEF before
  <2> QED
    BY <1>3, <1>4, <1>6, <1>10, <2>1
<1>13. m + 2 \notin Gaps(g, after) /\ m + 2 \notin Gaps(fs, before)
  BY <1>3, <1>4, <1>5, <1>10
<1>14. Gaps(g, after) \subseteq 1..(m + 2) /\ Gaps(fs, before) \subseteq 1..(m + 2)
  <2>1. 1..(m + 1) \subseteq 1..(m + 2)
    BY <1>1
  <2> QED
    BY <1>3, <1>4, <2>1
<1>15. Gaps(g, after) = Gaps(fs, before)
  <2>1. \A k \in 1..(m + 2) : k \in Gaps(g, after) <=> k \in Gaps(fs, before)
    BY <1>8, <1>11, <1>12, <1>13
  <2> QED
    BY <1>14, <2>1
<1> QED
  BY <1>15 DEF g, after, before

\* A list alone has the gaps it has with a position, but for the last.
LEMMA InnerGapsFewer ==
  ASSUME NEW n \in Nat, NEW fs \in Seq(FillsOf(n)), NEW q \in Int
  PROVE  /\ InnerGaps(fs) \subseteq Gaps(fs, q)
         /\ Gaps(fs, q) \subseteq InnerGaps(fs) \union {Len(fs) + 1}
         /\ IsFiniteSet(InnerGaps(fs)) /\ Cardinality(InnerGaps(fs)) \in Nat
<1> DEFINE m == Len(fs)
           e == IF m = 0 THEN 0 ELSE fs[m].after
<1>1. m \in Nat /\ e = EndAt(fs, m) /\ InnerGaps(fs) = Gaps(fs, e)
  BY DEF InnerGaps, EndAt
<1>2. e \in Int
  <2>1. \A k \in 1..m : fs[k] \in FillsOf(n)
    OBVIOUS
  <2>2. m # 0 => m \in 1..m
    BY <1>1
  <2> HIDE DEF m
  <2> QED
    BY <2>1, <2>2 DEF FillsOf
<1> HIDE DEF e
<1>3. /\ InnerGaps(fs) \subseteq 1..(m + 1)
      /\ \A k \in 1..m : k \in InnerGaps(fs) <=> fs[k].before # EndAt(fs, k - 1)
      /\ m + 1 \notin InnerGaps(fs)
      /\ IsFiniteSet(InnerGaps(fs)) /\ Cardinality(InnerGaps(fs)) \in Nat
  BY <1>1, <1>2, GapsAre
<1>4. /\ Gaps(fs, q) \subseteq 1..(m + 1)
      /\ \A k \in 1..m : k \in Gaps(fs, q) <=> fs[k].before # EndAt(fs, k - 1)
  BY GapsAre
<1>5. \A k \in 1..(m + 1) : k \in 1..m \/ k = m + 1
  BY <1>1
<1> HIDE DEF m
<1>6. InnerGaps(fs) \subseteq Gaps(fs, q) /\ Gaps(fs, q) \subseteq InnerGaps(fs) \union {m + 1}
  BY <1>3, <1>4, <1>5
<1> QED
  BY <1>3, <1>6 DEF m

LEMMA NoGapsInNone == Cardinality(Gaps(<<>>, 0)) = 0 /\ Cardinality(InnerGaps(<<>>)) = 0
<1>1. Gaps(<<>>, 0) = {}
  <2>1. Len(<<>>) = 0
    OBVIOUS
  <2> QED
    BY <2>1 DEF Gaps
<1>2. InnerGaps(<<>>) = Gaps(<<>>, 0)
  BY DEF InnerGaps
<1> QED
  BY <1>1, <1>2, FS_EmptySet

LEMMA GapsInit == Init => GapsCounted
<1> SUFFICES ASSUME Init PROVE GapsCounted
  OBVIOUS
<1>1. fills = <<>> /\ pos.qty = 0 /\ rows.fills = <<>> /\ torn = 0
  BY DEF Init, NoRows, Flat
<1> QED
  BY <1>1, NoGapsInNone DEF GapsCounted

LEMMA FillGaps == ASSUME TypeInv, GapsCounted, Fills PROVE GapsCounted'
<1>1. PICK os, i, price, first : FillStep(os, i, price, first)
  BY DEF Fills
<1> DEFINE f == FillOf(i, os[i], price)
<1>2. /\ f \in FillsOf(created') /\ created' \in Nat /\ created \in Nat /\ created <= created'
      /\ pos'.qty = pos.qty + Signed(os[i].side, os[i].qty)
  BY <1>1, FillQueues, FillBook, BoundsAssumption DEF TypeInv, Counted
<1>3. fills' = Append(fills, f) /\ UNCHANGED <<rows, torn>>
  BY <1>1 DEF FillStep, FillOrder
<1>4. f.before = pos.qty /\ f.after = pos'.qty
  BY <1>2 DEF FillOf
<1> HIDE DEF f
<1>5. fills \in Seq(FillsOf(created'))
  BY <1>2, RecordsGrow, SeqMonotonic DEF TypeInv, MemoryTyped
<1>6. Gaps(fills', pos'.qty) = Gaps(fills, pos.qty)
  BY <1>2, <1>3, <1>4, <1>5, GapsOfAppended
<1> QED
  BY <1>3, <1>6 DEF GapsCounted

LEMMA WriteGaps == ASSUME TypeInv, StoreInv, GapsCounted, Write PROVE GapsCounted'
<1> DEFINE w == writes[1]
<1>1. Changed(rows', w) /\ UNCHANGED <<pos, fills, created, torn>>
  BY WriteShifts
<1>2. 1 \in DOMAIN writes
  BY WriteLeaves
<1>3. created \in Nat /\ fills \in Seq(FillsOf(created)) /\ pos.qty \in Int /\ torn \in Int
  BY BoundsAssumption DEF TypeInv, MemoryTyped, PositionRecord, Counted
<1>4. CASE w.table = "fills" \/ Clears(w, "fills")
  <2>1. rows'.fills = fills
    <3>1. w.table = "fills" => fills = Append(rows.fills, w.row)
      BY <1>2 DEF StoreInv, FillsTell, Pending
    <3>2. w.table = "reset" => fills = <<>>
      BY <1>2 DEF StoreInv, ResetsClear, Pending
    <3> QED
      BY <1>1, <1>4, <3>1, <3>2 DEF Changed, Clears
  <2>2. /\ InnerGaps(fills) \subseteq Gaps(fills, pos.qty) /\ IsFiniteSet(Gaps(fills, pos.qty))
        /\ Cardinality(Gaps(fills, pos.qty)) \in Nat /\ Cardinality(InnerGaps(fills)) \in Nat
    BY <1>3, InnerGapsFewer, GapsAre
  <2>3. Cardinality(InnerGaps(fills)) <= Cardinality(Gaps(fills, pos.qty))
    BY <2>2, FS_Subset
  <2> QED
    BY <1>1, <1>3, <2>1, <2>2, <2>3 DEF GapsCounted
<1>5. CASE ~(w.table = "fills" \/ Clears(w, "fills"))
  BY <1>1, <1>5 DEF Changed, GapsCounted
<1> QED
  BY <1>4, <1>5

LEMMA RestartGaps == ASSUME TypeInv, StoreInv, GapsCounted, Restart PROVE GapsCounted'
<1>1. /\ pos' = RestoredPosition(rows) /\ fills' = rows.fills
      /\ torn' = (IF Idle THEN torn ELSE torn + 1) /\ UNCHANGED <<rows, created>>
  BY DEF Restart
<1>2. /\ created \in Nat /\ rows.fills \in Seq(FillsOf(created)) /\ torn \in Int
      /\ pos'.qty \in Int
  BY RestartTypes, BoundsAssumption DEF TypeInv, RowsTyped, Counted, MemoryTyped, PositionRecord
<1>3. CASE Idle
  BY <1>1, <1>3, IdleTells DEF GapsCounted
<1>4. CASE ~Idle
  <2> DEFINE inner == InnerGaps(rows.fills)
             gaps == Gaps(rows.fills, pos'.qty)
             last == Len(rows.fills) + 1
  <2>1. gaps \subseteq inner \union {last} /\ IsFiniteSet(inner) /\ Cardinality(inner) \in Nat
    BY <1>2, InnerGapsFewer
  <2>2. Cardinality(inner) <= torn
    BY DEF GapsCounted
  <2> HIDE DEF inner, gaps, last
  <2>3. /\ IsFiniteSet(inner \union {last}) /\ Cardinality(inner \union {last}) \in Nat
        /\ Cardinality(inner \union {last}) <= Cardinality(inner) + 1
    BY <2>1, FS_AddElement, FS_CardinalityType
  <2>4. Cardinality(gaps) <= Cardinality(inner \union {last}) /\ Cardinality(gaps) \in Nat
    BY <2>1, <2>3, FS_Subset, FS_CardinalityType
  <2>5. Cardinality(gaps) <= torn + 1 /\ Cardinality(inner) <= torn + 1
    BY <1>2, <2>1, <2>2, <2>3, <2>4
  <2> QED
    BY <1>1, <1>4, <2>5 DEF GapsCounted, inner, gaps
<1> QED
  BY <1>3, <1>4

LEMMA GapsStep == TypeInv /\ StoreInv /\ GapsCounted /\ [Next]_vars => GapsCounted'
<1> SUFFICES ASSUME TypeInv, StoreInv, GapsCounted, [Next]_vars PROVE GapsCounted'
  OBVIOUS
<1>1. ASSUME NEW c \in Commands, SubmitUnfilled(c) \/ SubmitFilled(c) PROVE GapsCounted'
  BY <1>1, SubmitFills, FillGaps DEF SubmitUnfilled, GapsCounted
<1>2. ASSUME NEW i \in DOMAIN orders, MatchOrder(i) \/ MatchEmptyOrder(i) \/ CancelOrder(i)
      PROVE  GapsCounted'
  BY <1>2, MatchFills, FillGaps DEF MatchEmptyOrder, CancelOrder, GapsCounted
<1>3. CASE Liquidate \/ Write \/ Restart
  BY <1>3, LiquidateFills, FillGaps, WriteGaps, RestartGaps
<1>4. CASE ApplyFunding
  BY <1>4 DEF ApplyFunding, GapsCounted
<1>5. CASE \E amount \in TransferAmounts : TransferOut(amount) \/ TransferIn(amount)
  BY <1>5 DEF TransferOut, TransferIn, GapsCounted
<1>6. ASSUME NEW balance \in ResetBalances, ResetAccount(balance) PROVE GapsCounted'
  <2>1. fills' = <<>> /\ pos'.qty = 0 /\ UNCHANGED <<rows, torn>>
    BY <1>6 DEF ResetAccount, Flat
  <2>2. torn \in Nat
    BY BoundsAssumption DEF TypeInv, Counted
  <2> QED
    BY <2>1, <2>2, NoGapsInNone DEF GapsCounted
<1>7. CASE UNCHANGED vars
  BY <1>7 DEF vars, memory, GapsCounted
<1> QED
  BY <1>1, <1>2, <1>3, <1>4, <1>5, <1>6, <1>7 DEF Next
-----------------------------------------------------------------------------
(* Protection *)

\* What RestartKeepsProtection asks of an order of a broker with quantity q.
Protects(o, q) ==
  /\ o.type # "MARKET" /\ o.qty > 0
  /\ Bracket(o) => Opposes(o.side, q)

LEMMA ProtectionIs ==
  RestartKeepsProtection <=>
    (torn = 0 => \A i \in DOMAIN orders : Resting(orders[i]) => Protects(orders[i], pos.qty))
  BY DEF RestartKeepsProtection, Protects

LEMMA FillProtects ==
  ASSUME TypeInv, RestartKeepsProtection, Fills PROVE RestartKeepsProtection'
<1>1. PICK os, i, price, first : FillStep(os, i, price, first)
  BY DEF Fills
<1>2. /\ DOMAIN orders' = DOMAIN os /\ ~Resting(orders'[i])
      /\ \A j \in DOMAIN os \ {i} :
           orders'[j] = IF j \in Stale(os, i) THEN Canceled(os[j]) ELSE os[j]
      /\ \A j \in DOMAIN os \ {i} : j \in DOMAIN orders /\ os[j] = orders[j]
      /\ os[i] \in OrderRecord /\ torn' = torn
  BY <1>1, FillBook DEF FillStep, FillOrder, Book
<1>3. pos'.qty = pos.qty + Signed(os[i].side, os[i].qty)
  BY <1>1, FillQueues
<1> SUFFICES ASSUME torn = 0, NEW j \in DOMAIN os, Resting(orders'[j])
             PROVE  Protects(orders'[j], pos'.qty)
  BY <1>2 DEF RestartKeepsProtection, Protects
<1>4. j # i /\ os[j] \in OrderRecord /\ os[j] = orders[j] /\ j \in DOMAIN orders
  BY <1>1, <1>2 DEF FillStep, Book
<1>5. j \notin Stale(os, i) /\ orders'[j] = orders[j]
  <2>1. j \in Stale(os, i) => Resting(os[j]) /\ orders'[j] = Canceled(os[j])
    BY <1>2, <1>4 DEF Stale
  <2>2. ~Resting(Canceled(os[j]))
    BY <1>4 DEF Canceled, Resting, OrderRecord
  <2> QED
    BY <1>2, <1>4, <2>1, <2>2
<1>6. Protects(orders[j], pos.qty) /\ Resting(orders[j])
  BY <1>4, <1>5, ProtectionIs
<1>7. Bracket(orders[j]) => Opposes(orders[j].side, pos'.qty)
  <2> SUFFICES ASSUME Bracket(orders[j]) PROVE Opposes(orders[j].side, pos'.qty)
    OBVIOUS
  <2>1. ~Ends(pos, os[i])
    BY <1>4, <1>5, <1>6 DEF Stale
  <2>2. Opposes(orders[j].side, pos.qty) /\ orders[j].side \in Sides
    BY <1>4, <1>6 DEF Protects, OrderRecord
  <2>3. pos \in PositionRecord
    BY DEF TypeInv, MemoryTyped
  <2> QED
    BY <1>2, <1>3, <2>1, <2>2, <2>3, SameSide
<1> QED
  BY <1>5, <1>6, <1>7 DEF Protects

LEMMA UnfilledProtects ==
  ASSUME TypeInv, RestartKeepsProtection, NEW c \in Commands, SubmitUnfilled(c)
  PROVE  RestartKeepsProtection'
<1> DEFINE i == created + 1
           o == NewOrder(c)
<1>1. o \in OrderRecord
  BY NewOrderType
<1>2. PICK status \in Outcomes(o) : orders' = With(orders, i, [o EXCEPT !.status = status])
  BY DEF SubmitUnfilled
<1> DEFINE left == [o EXCEPT !.status = status]
<1>3. UNCHANGED <<pos, torn>>
  BY DEF SubmitUnfilled
<1>4. /\ left.type = o.type /\ left.qty = o.qty /\ left.side = o.side
      /\ left.reduceOnly = o.reduceOnly /\ left.status = status
  BY <1>1 DEF OrderRecord
<1>5. status = "NEW" => Acceptable(o) /\ o.type # "MARKET"
  BY <1>2 DEF Outcomes
<1> HIDE DEF o, left, i
<1>6. Resting(left) => Protects(left, pos.qty)
  BY <1>4, <1>5 DEF Acceptable, Protects, Resting, Bracket
<1>7. \A j \in DOMAIN orders' : orders'[j] = left \/ (j \in DOMAIN orders /\ orders'[j] = orders[j])
  BY <1>2 DEF With, left
<1> QED
  BY <1>3, <1>6, <1>7, ProtectionIs DEF RestartKeepsProtection, Protects

LEMMA RestartProtects ==
  ASSUME TypeInv, StoreInv, RestartKeepsProtection, Restart PROVE RestartKeepsProtection'
<1>1. /\ orders' = RestoredOrders(rows) /\ pos' = RestoredPosition(rows)
      /\ torn' = (IF Idle THEN torn ELSE torn + 1)
  BY DEF Restart
<1> SUFFICES ASSUME torn' = 0, NEW j \in DOMAIN orders', Resting(orders'[j])
             PROVE  Protects(orders'[j], pos'.qty)
  BY DEF RestartKeepsProtection, Protects
<1>2. torn = 0 /\ Idle
  BY <1>1, BoundsAssumption DEF TypeInv, Counted
<1>3. j \in DOMAIN rows.orders /\ orders'[j] = rows.orders[j] /\ j \in 1..created
  BY <1>1 DEF RestoredOrders, TypeInv, RowsTyped, Book
<1>4. RowTells(j) /\ pos' = pos
  BY <1>1, <1>2, <1>3, IdleTells
<1>5. j \in DOMAIN orders /\ orders[j] = orders'[j]
  BY <1>2, <1>3, <1>4 DEF RowTells, Mends, Matches, Active
<1> QED
  BY <1>2, <1>4, <1>5, ProtectionIs

LEMMA ProtectsStep == TypeInv /\ StoreInv /\ RestartKeepsProtection /\ [Next]_vars => RestartKeepsProtection'
<1> SUFFICES ASSUME TypeInv, StoreInv, RestartKeepsProtection, [Next]_vars
             PROVE  RestartKeepsProtection'
  OBVIOUS
<1>1. ASSUME NEW c \in Commands, SubmitUnfilled(c) \/ SubmitFilled(c) PROVE RestartKeepsProtection'
  BY <1>1, UnfilledProtects, SubmitFills, FillProtects
<1>2. ASSUME NEW i \in DOMAIN orders, MatchEmptyOrder(i) \/ CancelOrder(i)
      PROVE  RestartKeepsProtection'
  <2>1. /\ UNCHANGED <<pos, torn>> /\ DOMAIN orders' = DOMAIN orders
        /\ (orders'[i] = Filled(orders[i]) \/ (Resting(orders[i]) /\ orders'[i] = Canceled(orders[i])))
        /\ \A j \in DOMAIN orders \ {i} : orders'[j] = orders[j]
    BY <1>2 DEF MatchEmptyOrder, CancelOrder
  <2>2. ~Resting(orders'[i])
    <3>1. orders[i] \in OrderRecord
      BY DEF TypeInv, MemoryTyped, Book
    <3> QED
      BY <2>1, <3>1 DEF Filled, Canceled, Resting, OrderRecord
  <2> QED
    BY <2>1, <2>2 DEF RestartKeepsProtection
<1>3. ASSUME NEW i \in DOMAIN orders, MatchOrder(i) PROVE RestartKeepsProtection'
  BY <1>3, MatchFills, FillProtects
<1>4. CASE Liquidate \/ Restart
  BY <1>4, LiquidateFills, FillProtects, RestartProtects
<1>5. CASE ApplyFunding \/ Write
  BY <1>5 DEF ApplyFunding, Write, memory, RestartKeepsProtection
<1>6. CASE \E amount \in TransferAmounts : TransferOut(amount) \/ TransferIn(amount)
  BY <1>6 DEF TransferOut, TransferIn, RestartKeepsProtection
<1>7. CASE \E balance \in ResetBalances : ResetAccount(balance)
  BY <1>7 DEF ResetAccount, RestartKeepsProtection
<1>8. CASE UNCHANGED vars
  BY <1>8 DEF vars, memory, RestartKeepsProtection
<1> QED
  BY <1>1, <1>2, <1>3, <1>4, <1>5, <1>6, <1>7, <1>8 DEF Next
-----------------------------------------------------------------------------
(* The theorems *)

\* Whatever the broker's methods queue and wherever a restart cuts them short, the
\* statements still to run bring the tables to what memory has; the wallet is what
\* its fills and payments make it; and a gap is counted when it is torn.
THEOREM StoresAreKept == Spec => []PersistInv
<1>1. Init => PersistInv
  <2>1. Init => RestartKeepsProtection
    BY DEF Init, RestartKeepsProtection
  <2> QED
    BY <2>1, TypesInit, StoresInit, MoneyInit, GapsInit DEF PersistInv
<1>2. PersistInv /\ [Next]_vars => PersistInv'
  <2> SUFFICES ASSUME PersistInv, [Next]_vars PROVE PersistInv'
    OBVIOUS
  <2>1. TypeInv /\ StoreInv /\ MoneyAdds /\ GapsCounted /\ RestartKeepsProtection
    BY DEF PersistInv
  <2>2. SpotCovered
    BY <2>1 DEF StoreInv
  <2>3. TypeInv' /\ StoreInv'
    BY <2>1, <2>2, TypesStep, StoresStep
  <2>4. MoneyAdds' /\ GapsCounted' /\ RestartKeepsProtection'
    BY <2>1, MoneyStep, GapsStep, ProtectsStep
  <2> QED
    BY <2>3, <2>4 DEF PersistInv
<1> QED
  BY <1>1, <1>2, PTL DEF Spec

\* Memory and tables keep their shape: the spot wallet's row never goes negative,
\* and no row names an order that was never created.
THEOREM TypesAreKept == Spec => []TypeOK
<1>1. TypeInv => TypeOK
  BY DEF TypeInv, Counted, MemoryTyped, RowsTyped, Book, FillsOf, TypeOK, FillRecord
<1>2. PersistInv => TypeOK
  BY <1>1 DEF PersistInv
<1> QED
  BY <1>2, StoresAreKept, PTL

\* Between two methods the tables hold all that SQLiteBrokerPersister must give the
\* constructor to rebuild the broker as it is, but for what transfers and resets moved.
THEOREM RestartsAreFaithful == Spec => []RestartIsFaithful
<1>1. PersistInv => RestartIsFaithful
  <2> SUFFICES ASSUME PersistInv, Idle
               PROVE  /\ Live(rows.orders) = Live(orders) /\ RestoredPosition(rows) = pos
                      /\ rows.fills = fills /\ rows.funding = funding
                      /\ RestoredWallet(rows) + unsaved = wallet
    BY DEF RestartIsFaithful
  <2>1. TypeInv /\ StoreInv /\ MoneyAdds
    BY DEF PersistInv
  <2>2. /\ RestoredPosition(rows) = pos /\ rows.fills = fills /\ rows.funding = funding
        /\ \A i \in 1..created : RowTells(i)
    BY <2>1, IdleTells
  <2>3. Live(rows.orders) = Live(orders)
    <3> DEFINE A == {j \in DOMAIN rows.orders : Resting(rows.orders[j]) /\ rows.orders[j].qty > 0}
               B == {j \in DOMAIN orders : Resting(orders[j]) /\ orders[j].qty > 0}
    <3>1. DOMAIN rows.orders \subseteq 1..created /\ DOMAIN orders \subseteq 1..created
      BY <2>1 DEF TypeInv, MemoryTyped, RowsTyped, Book
    <3>2. \A j \in A : j \in B /\ orders[j] = rows.orders[j]
      BY <2>2, <3>1 DEF RowTells, Matches, Active
    <3>3. \A j \in B : j \in A
      BY <2>2, <3>1 DEF RowTells, Matches, Active
    <3>4. A = B
      BY <3>2, <3>3
    <3>5. Live(rows.orders) = [i \in A |-> rows.orders[i]] /\ Live(orders) = [i \in B |-> orders[i]]
      BY DEF Live
    <3> HIDE DEF A, B
    <3> QED
      BY <3>2, <3>4, <3>5
  <2>4. RestoredWallet(rows) + unsaved = wallet
    <3>1. RestoredWallet(rows) = StartingUsdt + Sum(Nets(fills)) - Sum(funding)
      BY <2>2 DEF RestoredWallet, Nets
    <3> QED
      BY <2>1, <3>1 DEF MoneyAdds
  <2> QED
    BY <2>2, <2>3, <2>4
<1> QED
  BY <1>1, StoresAreKept, PTL

\* However many statements a crash took from a method, the fill rows explain the
\* position but for one gap per method cut short.
THEOREM GapsAreTorn == Spec => []GapsOnlyFromTornWrites
<1>1. PersistInv => GapsOnlyFromTornWrites
  <2> SUFFICES ASSUME PersistInv, Idle PROVE Cardinality(Gaps(rows.fills, rows.position.qty)) <= torn
    BY DEF GapsOnlyFromTornWrites
  <2>1. TypeInv /\ StoreInv /\ GapsCounted
    BY DEF PersistInv
  <2>2. RestoredPosition(rows) = pos /\ rows.fills = fills
    BY <2>1, IdleTells
  <2>3. rows.position.qty = pos.qty
    BY <2>2 DEF RestoredPosition, Flat
  <2> QED
    BY <2>1, <2>2, <2>3 DEF GapsCounted
<1> QED
  BY <1>1, StoresAreKept, PTL

\* Until a method is cut short, loadOpenOrders restores only orders that can trade,
\* and brackets that still close the position loadOpenPositions restores.
THEOREM RestartsProtect == Spec => []RestartKeepsProtection
<1>1. PersistInv => RestartKeepsProtection
  BY DEF PersistInv
<1> QED
  BY <1>1, StoresAreKept, PTL
=============================================================================
