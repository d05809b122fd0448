--------------------------- MODULE Platform_proof ---------------------------
(* Proofs about components that stand beside the trading core: the event log *)
(* and the throttles, which outlive the process, the market data, its        *)
(* analysis with the setups drawn from it, and the backtest, for every       *)
(* limit, threshold, price, tape and bound.                                  *)
EXTENDS EventLog, Governors, Feed, Setups, Backtest, CollectionLemmas, SequenceTheorems, TLAPS

-----------------------------------------------------------------------------
(* EventLog: the newest events *)

EventRecord == [seq: 1..MaxEvents, id: 1..MaxEvents, kind: EventKinds]

\* The newest n of a finite set of events are at most n, if no number is shared.
LEMMA NewestAtMost ==
  ASSUME NEW events, IsFiniteSet(events), events \subseteq EventRecord,
         \A e, f \in events : e.seq = f.seq => e = f, NEW n \in Nat \ {0}
  PROVE  IsFiniteSet(Newest(events, n)) /\ Cardinality(Newest(events, n)) <= n
<1> DEFINE kept == Newest(events, n)
           numbers == {e.seq : e \in kept}
<1>1. kept \in SUBSET events
  BY DEF Newest
<1>2. IsFiniteSet(kept) /\ Cardinality(kept) \in Nat
  BY <1>1, FS_Subset, FS_CardinalityType
<1>3. CASE kept = {}
  BY <1>2, <1>3, FS_EmptySet
<1>4. CASE kept # {}
  <2>1. numbers \subseteq Nat /\ numbers # {}
    BY <1>1, <1>4 DEF EventRecord
  <2>2. PICK m \in numbers : \A k \in numbers : m <= k
    <3> HIDE DEF numbers
    <3> QED
      BY <2>1, MinOfNaturals
  <2>3. PICK e \in kept : m = e.seq
    OBVIOUS
  <2> DEFINE newer == {f \in events : f.seq > e.seq}
  <2>4. kept \ {e} \in SUBSET newer
    <3>1. ASSUME NEW f \in kept \ {e} PROVE f \in newer
      <4>1. e.seq <= f.seq /\ f \in events /\ e \in events
        BY <1>1, <2>2, <2>3
      <4>2. e.seq # f.seq /\ e.seq \in Int /\ f.seq \in Int
        BY <3>1, <4>1 DEF EventRecord
      <4> QED
        BY <4>1, <4>2
    <3> QED
      BY <3>1
  <2>5. newer \in SUBSET events
    OBVIOUS
  <2>6. IsFiniteSet(newer) /\ Cardinality(newer) \in Nat
    BY <2>5, FS_Subset, FS_CardinalityType
  <2>7. Cardinality(newer) < n
    BY <2>3 DEF Newest
  <2>8. Cardinality(kept \ {e}) <= Cardinality(newer)
    BY <2>4, <2>6, FS_Subset
  <2>9. Cardinality(kept \ {e}) = Cardinality(kept) - 1
    BY <1>2, <2>3, FS_RemoveElement
  <2> HIDE DEF kept, newer
  <2> QED
    BY <1>2, <2>6, <2>7, <2>8, <2>9 DEF kept
<1> QED
  BY <1>3, <1>4

\* What is newer than one of the newest is one of them.
LEMMA NewestIsUpperPart ==
  ASSUME NEW events, IsFiniteSet(events), events \subseteq EventRecord, NEW n \in Nat \ {0},
         NEW e \in Newest(events, n), NEW f \in events, f.seq >= e.seq
  PROVE  f \in Newest(events, n)
<1> DEFINE above(g) == {h \in events : h.seq > g.seq}
<1>0. e \in events /\ e.seq \in Int /\ f.seq \in Int
  BY DEF EventRecord, Newest
<1>1. above(f) \in SUBSET above(e)
  BY <1>0 DEF EventRecord
<1>2. IsFiniteSet(above(e)) /\ IsFiniteSet(above(f))
  BY FS_Subset
<1>3. Cardinality(above(f)) <= Cardinality(above(e))
  BY <1>1, <1>2, FS_Subset
<1>4. Cardinality(above(e)) \in Nat /\ Cardinality(above(f)) \in Nat
  BY <1>2, FS_CardinalityType
<1>5. Cardinality(above(e)) < n
  BY DEF Newest
<1>6. Cardinality(above(f)) < n
  BY <1>3, <1>4, <1>5
<1> QED
  BY <1>6 DEF Newest
-----------------------------------------------------------------------------
(* EventLog: the invariant *)

AppendRecord == [pc: {"idle", "down"}] \union [pc: {"row", "line"}, event: EventRecord]

LogTypeInv ==
  /\ happened \in 0..MaxEvents /\ seq \in 0..happened
  /\ appending \in AppendRecord
  /\ rows \subseteq EventRecord /\ IsFiniteSet(rows)
  /\ lines \in Seq(EventRecord) /\ torn \in BOOLEAN
  /\ read.streak \in 0..Window /\ read.of \in 0..happened

\* The numbers of the rows are the order of happening, and none is above the one
\* last given, nor a row younger than the last event.
Ordered ==
  /\ \A e, f \in rows : /\ e.seq < f.seq <=> e.id < f.id
                        /\ e.seq = f.seq => e = f
  /\ \A e \in rows : e.id <= happened /\ e.seq <= happened
  /\ appending.pc # "down" => \A e \in rows : e.seq <= seq

\* The event that is being appended is the youngest; once it has its row it is
\* found, and what the stream holds is found as well.
Pending ==
  /\ appending.pc = "row" =>
       /\ appending.event.seq = seq /\ appending.event.id = happened /\ read.of < happened
       /\ \A e \in rows : e.seq < seq /\ e.id < happened
  /\ appending.pc = "line" => appending.event \in rows
  /\ Range(lines) \subseteq rows

\* The losses up to an event that no stored win up to it came after.
Losing(of) ==
  {e \in {g \in rows : g.kind = "loss" /\ g.id <= of} :
     \A f \in {g \in rows : g.kind = "win" /\ g.id <= of} : f.id < e.id}

StreakIsTrue == read.streak <= Cardinality(Losing(read.of))

LogInv == LogTypeInv /\ Ordered /\ Pending /\ StreakIsTrue

\* The invariant is the history that LogIsTheHistory speaks of, and has the type.
LEMMA LogInvGives == LogInv => LogTypeOK /\ LogIsTheHistory
<1> SUFFICES ASSUME LogInv PROVE LogTypeOK /\ LogIsTheHistory
  OBVIOUS
<1>1. MaxEvents \in Nat /\ appending.pc \in {"idle", "row", "line", "down"}
  BY EventLogAssumption DEF LogInv, LogTypeInv, AppendRecord
<1>2. \A e \in rows \union Range(lines) :
        e.seq \in 1..MaxEvents /\ e.id \in 1..MaxEvents /\ e.kind \in EventKinds
  BY DEF LogInv, LogTypeInv, Pending, EventRecord
<1>3. LogTypeOK
  BY <1>1, <1>2 DEF LogInv, LogTypeInv, LogTypeOK
<1>4. LogIsTheHistory
  BY DEF LogInv, Ordered, Pending, StreakIsTrue, Losing, LogIsTheHistory
<1> QED
  BY <1>3, <1>4

\* An empty log is its history.
LEMMA LogInitInv == LogInit => LogInv
<1> SUFFICES ASSUME LogInit PROVE LogInv
  OBVIOUS
<1>1. rows = {} /\ lines = <<>> /\ IsFiniteSet(rows) /\ Range(lines) = {}
  BY FS_EmptySet DEF LogInit, Range
<1>2. appending \in AppendRecord /\ appending.pc = "idle" /\ torn \in BOOLEAN
  BY DEF LogInit, AppendRecord
<1>3. LogTypeInv
  BY <1>1, <1>2, EventLogAssumption DEF LogInit, LogTypeInv
<1>4. Losing(0) = {}
  BY <1>1 DEF Losing
<1>5. StreakIsTrue
  BY <1>4, FS_EmptySet DEF LogInit, StreakIsTrue
<1> QED
  BY <1>1, <1>2, <1>3, <1>5 DEF LogInv, Ordered, Pending

\* A line is added to the stream, or is lost in a torn one.
LEMMA JsonlKeeps ==
  ASSUME LogInv, NEW e \in rows, JsonlGets(e)
  PROVE  lines' \in Seq(EventRecord) /\ Range(lines') \subseteq rows /\ torn' = FALSE
<1>1. e \in EventRecord /\ lines \in Seq(EventRecord) /\ Range(lines) \subseteq rows
  BY DEF LogInv, LogTypeInv, Pending
<1>2. CASE torn
  BY <1>1, <1>2 DEF JsonlGets
<1>3. CASE ~torn
  <2>1. lines' = Append(lines, e) /\ torn' = FALSE
    BY <1>3 DEF JsonlGets
  <2>2. lines' \in Seq(EventRecord) /\ Len(lines) \in Nat /\ DOMAIN lines' = 1..(Len(lines) + 1)
        /\ DOMAIN lines = 1..Len(lines)
    BY <1>1, <2>1
  <2>3. \A i \in DOMAIN lines' : lines'[i] = IF i <= Len(lines) THEN lines[i] ELSE e
    BY <1>1, <2>1, <2>2
  <2>4. \A i \in DOMAIN lines' : lines'[i] \in rows
    BY <1>1, <2>2, <2>3 DEF Range
  <2> QED
    BY <2>1, <2>2, <2>4 DEF Range
<1> QED
  BY <1>2, <1>3

\* A refresh counts losses that no stored win came after: the newest fills are an
\* upper part of the rows, so that a win it does not see is older than all it sees.
LEMMA RefreshCountsLosses ==
  ASSUME LogInv
  PROVE  Streak(Outcomes) \in 0..Window /\ Streak(Outcomes) <= Cardinality(Losing(happened))
<1> DEFINE filled == {e \in rows : e.kind # "system"}
           own == {e \in NewestFills : e.kind \in {"win", "loss"}}
           counted == {e \in Outcomes : \A f \in Outcomes : f.kind = "win" => f.seq < e.seq}
<1>0. rows \subseteq EventRecord /\ IsFiniteSet(rows)
      /\ \A e, f \in rows : (e.seq < f.seq <=> e.id < f.id) /\ (e.seq = f.seq => e = f)
  BY DEF LogInv, LogTypeInv, Ordered
<1>1. filled \in SUBSET rows /\ filled \subseteq EventRecord /\ IsFiniteSet(filled)
      /\ NewestFills = Newest(filled, QueryLimit)
  BY <1>0, FS_Subset DEF NewestFills
<1>2. NewestFills \in SUBSET filled
  BY <1>1 DEF Newest
<1>3. own \in SUBSET rows /\ own \subseteq EventRecord /\ IsFiniteSet(own)
      /\ Outcomes = Newest(own, Window)
  BY <1>0, <1>1, <1>2, FS_Subset DEF Outcomes
<1>4. Outcomes \in SUBSET own
  BY <1>3 DEF Newest
<1>5. IsFiniteSet(Outcomes) /\ Cardinality(Outcomes) <= Window
  <2> HIDE DEF own
  <2> QED
    BY <1>0, <1>3, NewestAtMost, EventLogAssumption
<1>6. counted \in SUBSET Outcomes
  OBVIOUS
<1>7. ASSUME NEW e \in counted PROVE e \in Losing(happened)
  <2>1. e \in rows /\ e \in own /\ e \in NewestFills /\ e \in Outcomes /\ e \in EventRecord
    BY <1>3, <1>4
  <2>2. e.kind = "loss"
    BY <2>1 DEF EventRecord
  <2>3. ASSUME NEW f \in rows, f.kind = "win" PROVE f.id < e.id
    <3>1. f \in filled /\ f \in EventRecord /\ e.seq \in Int /\ f.seq \in Int
      BY <1>0, <2>1, <2>3 DEF EventRecord
    <3>2. SUFFICES ASSUME f.seq >= e.seq PROVE FALSE
      BY <1>0, <2>1, <3>1
    <3>3. f \in NewestFills
      <4> HIDE DEF filled
      <4> QED
        BY <1>1, <2>1, <3>1, <3>2, NewestIsUpperPart, EventLogAssumption
    <3>4. f \in own
      BY <2>3, <3>3
    <3>5. f \in Outcomes
      <4> HIDE DEF own
      <4> QED
        BY <1>3, <2>1, <3>2, <3>4, NewestIsUpperPart, EventLogAssumption
    <3>6. f.seq < e.seq
      BY <2>3, <3>5
    <3> QED
      BY <3>1, <3>2, <3>6
  <2>4. e.id <= happened
    BY <2>1 DEF LogInv, Ordered
  <2> QED
    BY <2>1, <2>2, <2>3, <2>4 DEF Losing
<1>8. Streak(Outcomes) = Cardinality(counted)
  BY DEF Streak
<1>9. Losing(happened) \in SUBSET rows
  BY DEF Losing
<1>10. IsFiniteSet(Losing(happened)) /\ counted \in SUBSET Losing(happened)
  <2> HIDE DEF counted
  <2> QED
    BY <1>0, <1>7, <1>9, FS_Subset
<1>11. Cardinality(counted) <= Cardinality(Losing(happened))
  BY <1>10, FS_Subset
<1>12. IsFiniteSet(counted) /\ Cardinality(counted) <= Cardinality(Outcomes)
  BY <1>5, <1>6, FS_Subset
<1>13. Cardinality(counted) \in Nat /\ Cardinality(Outcomes) \in Nat
  BY <1>5, <1>12, FS_CardinalityType
<1> HIDE DEF counted
<1> QED
  BY <1>5, <1>8, <1>11, <1>12, <1>13, EventLogAssumption

\* No failed write, torn line, crash, start or refresh breaks the invariant.
LEMMA LogStep == LogInv /\ [LogNext]_logVars => LogInv'
<1> SUFFICES ASSUME LogInv, [LogNext]_logVars PROVE LogInv'
  OBVIOUS
<1>0. /\ LogTypeInv /\ Ordered /\ Pending /\ StreakIsTrue
      /\ appending \in AppendRecord /\ MaxEvents \in Nat /\ happened \in Nat /\ seq \in Nat
      /\ seq <= happened /\ happened <= MaxEvents /\ read.of \in Nat /\ read.of <= happened
      /\ rows \subseteq EventRecord /\ IsFiniteSet(rows)
      /\ appending.pc \in {"row", "line"} => appending.event \in EventRecord
  BY EventLogAssumption DEF LogInv, LogTypeInv, AppendRecord
<1>1. ASSUME rows' = rows, read' = read PROVE StreakIsTrue'
  <2>1. Losing(read.of)' = Losing(read.of)
    BY <1>1 DEF Losing
  <2> QED
    BY <1>0, <1>1, <2>1 DEF StreakIsTrue
<1>2. CASE \E kind \in EventKinds : LogAppend(kind)
  <2> PICK kind \in EventKinds : LogAppend(kind)
    BY <1>2
  <2> DEFINE e == [seq |-> seq + 1, id |-> happened + 1, kind |-> kind]
  <2>1. /\ appending' = [pc |-> "row", event |-> e] /\ appending.pc = "idle"
        /\ happened' = happened + 1 /\ seq' = seq + 1 /\ happened < MaxEvents
        /\ rows' = rows /\ read' = read /\ lines' = lines /\ torn' = torn
    BY DEF LogAppend
  <2>2. e \in EventRecord
    BY <1>0, <2>1 DEF EventRecord
  <2>3. appending' \in AppendRecord /\ appending'.pc = "row" /\ appending'.event.seq = seq'
        /\ appending'.event.id = happened'
    BY <2>1, <2>2 DEF AppendRecord
  <2>4. LogTypeInv'
    BY <1>0, <2>1, <2>3 DEF LogTypeInv
  <2>5. \A g \in rows : g.seq \in Int /\ g.id \in Int /\ g.seq <= seq /\ g.id <= happened
                        /\ g.seq <= happened
    BY <1>0, <2>1 DEF Ordered, EventRecord
  <2>6. Ordered'
    BY <1>0, <2>1, <2>5 DEF Ordered
  <2>7. Pending'
    BY <1>0, <2>1, <2>3, <2>5 DEF Pending
  <2> QED
    BY <1>1, <2>1, <2>4, <2>6, <2>7 DEF LogInv
<1>3. CASE RowFails \/ LineFails \/ LogCrash
  <2>1. /\ appending' \in [pc: {"idle", "down"}] /\ torn' \in BOOLEAN
        /\ seq' = seq /\ rows' = rows /\ lines' = lines /\ happened' = happened /\ read' = read
        /\ appending'.pc # "down" => appending.pc # "down"
    <3>1. CASE RowFails
      BY <1>0, <3>1 DEF RowFails, LogTypeInv
    <3>2. CASE LineFails
      BY <1>0, <3>2 DEF LineFails, LogTypeInv
    <3>3. CASE LogCrash
      BY <1>0, <3>3 DEF LogCrash, LogTypeInv
    <3> QED
      BY <1>3, <3>1, <3>2, <3>3
  <2>2. appending' \in AppendRecord /\ appending'.pc \in {"idle", "down"}
    BY <2>1 DEF AppendRecord
  <2>3. LogTypeInv'
    BY <1>0, <2>1, <2>2 DEF LogTypeInv
  <2>4. Ordered' /\ Pending'
    BY <1>0, <2>1, <2>2 DEF Ordered, Pending
  <2> QED
    BY <1>1, <2>1, <2>3, <2>4 DEF LogInv
<1>4. CASE StoreRow
  <2> DEFINE e == appending.event
  <2>1. /\ appending.pc = "row" /\ e \in EventRecord
        /\ appending' = [appending EXCEPT !.pc = "line"] /\ rows' = rows \union {e}
        /\ seq' = seq /\ lines' = lines /\ torn' = torn /\ happened' = happened /\ read' = read
    BY <1>0, <1>4 DEF StoreRow
  <2>2. /\ e.seq = seq /\ e.id = happened /\ read.of < happened
        /\ \A g \in rows : g.seq < seq /\ g.id < happened /\ g.seq \in Int /\ g.id \in Int
    BY <1>0, <2>1 DEF Pending, EventRecord
  <2>3. appending' \in AppendRecord /\ appending'.pc = "line" /\ appending'.event = e
    BY <1>0, <2>1 DEF AppendRecord
  <2>4. IsFiniteSet(rows') /\ rows' \subseteq EventRecord
    BY <1>0, <2>1, FS_AddElement
  <2>5. LogTypeInv'
    BY <1>0, <2>1, <2>3, <2>4 DEF LogTypeInv
  <2>6. Ordered'
    BY <1>0, <2>1, <2>2 DEF Ordered
  <2>7. Pending'
    BY <1>0, <2>1, <2>3 DEF Pending
  <2>8. Losing(read.of)' = Losing(read.of)
    BY <1>0, <2>1, <2>2 DEF Losing
  <2>9. StreakIsTrue'
    BY <1>0, <2>1, <2>8 DEF StreakIsTrue
  <2> QED
    BY <2>5, <2>6, <2>7, <2>9 DEF LogInv
<1>5. CASE WriteLine
  <2>1. /\ appending.pc = "line" /\ appending.event \in rows /\ JsonlGets(appending.event)
        /\ appending' = [pc |-> "idle"]
        /\ seq' = seq /\ rows' = rows /\ happened' = happened /\ read' = read
    BY <1>0, <1>5 DEF WriteLine, Pending
  <2>2. lines' \in Seq(EventRecord) /\ Range(lines') \subseteq rows /\ torn' = FALSE
    BY <2>1, JsonlKeeps
  <2>3. appending' \in AppendRecord /\ appending'.pc = "idle"
    BY <2>1 DEF AppendRecord
  <2>4. torn' \in BOOLEAN
    BY <2>2
  <2>5. LogTypeInv'
    BY <1>0, <2>1, <2>2, <2>3, <2>4 DEF LogTypeInv
  <2>6. Ordered' /\ Pending'
    BY <1>0, <2>1, <2>2, <2>3 DEF Ordered, Pending
  <2> QED
    BY <1>1, <2>1, <2>5, <2>6 DEF LogInv
<1>6. CASE LogStart
  <2>1. /\ appending' = [pc |-> "idle"] /\ seq' = RecoverSequence
        /\ rows' = rows /\ lines' = lines /\ torn' = torn /\ happened' = happened /\ read' = read
    BY <1>6 DEF LogStart
  <2>2. RecoverSequence \in 0..happened /\ \A e \in rows : e.seq <= RecoverSequence
    <3>1. CASE rows = {}
      BY <1>0, <3>1 DEF RecoverSequence
    <3>2. CASE rows # {}
      <4> DEFINE numbers == {e.seq : e \in rows}
      <4>1. numbers \subseteq Int /\ happened \in Int /\ numbers # {} /\ \A x \in numbers : x <= happened
        BY <1>0, <3>2 DEF Ordered, EventRecord
      <4>5. numbers \subseteq Nat
        BY <1>0 DEF EventRecord
      <4>2. Max(numbers) \in numbers /\ \A y \in numbers : Max(numbers) >= y
        <5> HIDE DEF numbers
        <5> QED
          BY <4>1, MaxOfBounded
      <4>3. RecoverSequence = Max(numbers)
        BY <3>2 DEF RecoverSequence
      <4>4. \A e \in rows : e.seq \in numbers
        OBVIOUS
      <4> HIDE DEF numbers
      <4>6. RecoverSequence \in Nat /\ RecoverSequence <= happened
        BY <4>1, <4>2, <4>3, <4>5
      <4>7. \A e \in rows : RecoverSequence >= e.seq
        BY <4>2, <4>3, <4>4
      <4> QED
        BY <1>0, <4>4, <4>5, <4>6, <4>7
    <3> QED
      BY <3>1, <3>2
  <2>3. appending' \in AppendRecord /\ appending'.pc = "idle"
    BY <2>1 DEF AppendRecord
  <2>4. LogTypeInv'
    BY <1>0, <2>1, <2>2, <2>3 DEF LogTypeInv
  <2>5. Ordered' /\ Pending'
    BY <1>0, <2>1, <2>2, <2>3 DEF Ordered, Pending
  <2> QED
    BY <1>1, <2>1, <2>4, <2>5 DEF LogInv
<1>7. CASE Refresh
  <2>1. /\ appending.pc = "idle" /\ read' = [streak |-> Streak(Outcomes), of |-> happened]
        /\ UNCHANGED <<seq, appending, rows, lines, torn, happened>>
    BY <1>7 DEF Refresh
  <2>2. Streak(Outcomes) \in 0..Window /\ Streak(Outcomes) <= Cardinality(Losing(happened))
    BY RefreshCountsLosses
  <2>3. read'.streak = Streak(Outcomes) /\ read'.of = happened
    BY <2>1
  <2>4. LogTypeInv'
    BY <1>0, <2>1, <2>2, <2>3 DEF LogTypeInv
  <2>5. Ordered' /\ Pending'
    BY <1>0, <2>1 DEF Ordered, Pending
  <2>6. Losing(read.of)' = Losing(happened)
    BY <2>1, <2>3 DEF Losing
  <2>7. StreakIsTrue'
    BY <2>2, <2>3, <2>6 DEF StreakIsTrue
  <2> QED
    BY <2>4, <2>5, <2>7 DEF LogInv
<1>8. CASE UNCHANGED logVars
  BY <1>0, <1>1, <1>8 DEF logVars, LogInv, LogTypeInv, Ordered, Pending
<1> QED
  BY <1>2, <1>3, <1>4, <1>5, <1>6, <1>7, <1>8 DEF LogNext

\* LogTypeOK is invariant: numbers, ids and streaks keep their ranges.
THEOREM LogTypeCorrect == LogSpec => []LogTypeOK
<1>1. LogSpec => []LogInv
  BY LogInitInv, LogStep, PTL DEF LogSpec
<1> QED
  BY <1>1, LogInvGives, PTL

\* LogIsTheHistory is invariant: over failed writes, torn lines and restarts, the
\* table numbers events in the order they happened, the stream holds none that no
\* query finds, and a streak read back counts losses no stored win came after.
THEOREM LogIsHistory == LogSpec => []LogIsTheHistory
<1>1. LogSpec => []LogInv
  BY LogInitInv, LogStep, PTL DEF LogSpec
<1> QED
  BY <1>1, LogInvGives, PTL
-----------------------------------------------------------------------------
(* Governors: what is left to do *)

\* A step put before others is the next one, and they follow it.
LEMMA Prepended ==
  ASSUME NEW S, NEW a \in S, NEW s \in Seq(S)
  PROVE  /\ <<a>> \o s \in Seq(S) /\ <<a>> \o s # <<>>
         /\ Head(<<a>> \o s) = a /\ Tail(<<a>> \o s) = s
<1> DEFINE t == <<a>> \o s
<1>1. <<a>> \in Seq(S) /\ Len(<<a>>) = 1 /\ Len(s) \in Nat
  OBVIOUS
<1>2. /\ t \in Seq(S) /\ Len(t) = 1 + Len(s) /\ t[1] = a
      /\ \A i \in 1..Len(s) : t[i + 1] = s[i]
  BY <1>1, ConcatProperties
<1> HIDE DEF t
<1>3. t # <<>> /\ Head(t) = a
  BY <1>1, <1>2
<1>4. Tail(t) \in Seq(S) /\ Len(Tail(t)) = Len(s) /\ \A i \in 1..Len(s) : Tail(t)[i] = s[i]
  BY <1>1, <1>2, <1>3, HeadTailProperties
<1>5. Tail(t) = s
  BY <1>4, SeqEqual
<1> QED
  BY <1>2, <1>3, <1>5 DEF t

SaveOf(store) == Step("save", store)
Updating(p) == <<Step("update", p), SaveOf("goals")>>
Attributing(p) == <<Step("attribute", p), Step("update", p), SaveOf("goals")>>
Storing(p) ==
  <<SaveOf("strategy"), Step("attribute", p), Step("update", p), SaveOf("goals")>>
Recording(p) ==
  <<Step("record", p), SaveOf("strategy"), Step("attribute", p), Step("update", p), SaveOf("goals")>>
StoringSetup(p) == <<SaveOf("setup")>> \o Updating(p)

\* All that can be left of the bookkeeping of a fill, of a shutdown, or of a reset.
Agendas(p) ==
  {<<>>, <<SaveOf("goals")>>, <<SaveOf("strategy")>>, <<SaveOf("goals"), SaveOf("strategy")>>,
   Updating(p), Attributing(p), Storing(p), Recording(p), StoringSetup(p),
   <<SaveOf("strategy")>> \o Storing(p), <<SaveOf("setup")>> \o StoringSetup(p)}

\* What each agenda begins with and leaves.
LEMMA AgendaSteps ==
  ASSUME NEW p, NEW q \in Agendas(p), q # <<>>
  PROVE  \/ Head(q) = Step("record", p) /\ Tail(q) = Storing(p)
         \/ Head(q) = Step("attribute", p) /\ Tail(q) = Updating(p)
         \/ Head(q) = Step("update", p) /\ Tail(q) = <<SaveOf("goals")>>
         \/ \E store \in Stores : Head(q) = SaveOf(store) /\ Tail(q) \in Agendas(p)
<1> DEFINE S == {Step("record", p), Step("attribute", p), Step("update", p), SaveOf("goals"),
                 SaveOf("strategy"), SaveOf("setup")}
<1>1. Updating(p) \in Seq(S) /\ Storing(p) \in Seq(S)
  BY DEF Updating, Storing
<1>2. SaveOf("strategy") \in S /\ SaveOf("setup") \in S
  OBVIOUS
<1>3. /\ StoringSetup(p) \in Seq(S) /\ Head(StoringSetup(p)) = SaveOf("setup")
      /\ Tail(StoringSetup(p)) = Updating(p)
  <2> HIDE DEF S
  <2> QED
    BY <1>1, <1>2, Prepended DEF StoringSetup
<1>4. CASE q = StoringSetup(p)
  BY <1>3, <1>4 DEF Agendas, Stores, Trackers
<1>5. CASE q = <<SaveOf("strategy")>> \o Storing(p)
  <2>1. Head(q) = SaveOf("strategy") /\ Tail(q) = Storing(p)
    <3> HIDE DEF S
    <3> QED
      BY <1>1, <1>2, <1>5, Prepended
  <2> QED
    BY <2>1 DEF Agendas, Stores, Trackers
<1>6. CASE q = <<SaveOf("setup")>> \o StoringSetup(p)
  <2>1. Head(q) = SaveOf("setup") /\ Tail(q) = StoringSetup(p)
    <3> HIDE DEF S
    <3> QED
      BY <1>2, <1>3, <1>6, Prepended
  <2> QED
    BY <2>1 DEF Agendas, Stores, Trackers
<1>7. CASE q = Recording(p)
  BY <1>7 DEF Recording, Storing
<1>8. CASE q = Attributing(p)
  BY <1>8 DEF Attributing, Updating
<1>9. CASE q = Updating(p)
  BY <1>9 DEF Updating
<1>10. CASE q = Storing(p)
  <2>1. Head(q) = SaveOf("strategy") /\ Tail(q) = Attributing(p)
    BY <1>10 DEF Storing, Attributing
  <2> QED
    BY <2>1 DEF Agendas, Stores, Trackers
<1>11. CASE \E store \in {"goals", "strategy"} : q = <<SaveOf(store)>>
  <2>1. PICK store \in {"goals", "strategy"} : q = <<SaveOf(store)>>
    BY <1>11
  <2>2. Head(q) = SaveOf(store) /\ Tail(q) = <<>>
    BY <2>1
  <2> QED
    BY <2>1, <2>2 DEF Agendas, Stores, Trackers
<1>12. CASE q = <<SaveOf("goals"), SaveOf("strategy")>>
  <2>1. Head(q) = SaveOf("goals") /\ Tail(q) = <<SaveOf("strategy")>>
    BY <1>12
  <2> QED
    BY <2>1 DEF Agendas, Stores
<1> QED
  BY <1>4, <1>5, <1>6, <1>7, <1>8, <1>9, <1>10, <1>11, <1>12 DEF Agendas
-----------------------------------------------------------------------------
(* Governors: the inductive invariant *)

GoalsRecord == [pnl : [Enabled -> Int], base : [Enabled -> Int], reached : SUBSET Enabled,
                risk : {"full", "reduced", "none"}, cooling : BOOLEAN]
StatRecord == [trades : Nat, wins : Nat, pnl : Int, peak : Int, quarantined : BOOLEAN]

\* The records in memory and in the files have their fields; a file has one or none.
GovTypes ==
  /\ proc \in {"up", "stopping", "down"}
  /\ goals \in GoalsRecord /\ stats \in [Trackers -> StatRecord]
  /\ equity \in Int
  /\ file \in [Stores -> Seq(GoalsRecord \union StatRecord)]
  /\ Loaded("goals") \in GoalsRecord
  /\ \A k \in Trackers : Loaded(k) \in StatRecord

\* What a start would restore of a store's throttles, and what memory has of them.
OnDisk(store) == IF store = "goals" THEN Loaded(store).reached ELSE Quarantine(Loaded(store))
InForce == Throttles(goals, stats)

\* What runs is one fill's bookkeeping, a shutdown's or a reset's.
OneAgenda == \E p \in Pnls \union {0} : todo \in Agendas(p)

\* A process that is down runs nothing, and has nothing in memory.
DownIsIdle == proc = "down" => todo = <<>>

\* At rest the throttles in memory are those that count.
RestCounts == proc # "down" /\ todo = <<>> => held = InForce

\* What counts is in every file whose last write is whole.
FilesKeep == \A s \in Stores \ damaged : held[s] \subseteq OnDisk(s)

\* Before the last save nothing that counts is lifted, so that a save in the middle
\* of the bookkeeping keeps it.
NothingLifted ==
  todo # <<>> /\ Tail(todo) # <<>> => \A s \in Stores : held[s] \subseteq InForce[s]

\* A throttle that is in memory and in no whole file is saved next.
SavedNext ==
  proc # "down" =>
    \A s \in Stores \ damaged :
      InForce[s] \subseteq OnDisk(s) \/ (todo # <<>> /\ Head(todo) = SaveOf(s))

GovInv == /\ GovTypes /\ OneAgenda /\ DownIsIdle
          /\ RestCounts /\ FilesKeep /\ NothingLifted /\ SavedNext
-----------------------------------------------------------------------------
(* Governors: what the managers' operators do to a record *)

\* A fresh manager, and a tracker with no fills, are records of their types.
LEMMA FreshTyped ==
  ASSUME NEW e \in Int
  PROVE  FreshGoals(e) \in GoalsRecord /\ FreshStats \in StatRecord
BY DEF FreshGoals, FreshStats, GoalsRecord, StatRecord

\* Booking a fill may reach a goal and never unreaches one.
LEMMA UpdatedGrows ==
  ASSUME NEW g \in GoalsRecord, NEW pnl \in Int
  PROVE  Updated(g, pnl) \in GoalsRecord /\ g.reached \subseteq Updated(g, pnl).reached
<1> DEFINE moved == [g EXCEPT !.pnl = [p \in Enabled |-> g.pnl[p] + pnl]]
           new == NewlyReached(moved)
           cools == g.cooling \/ "daily" \in new
<1>1. /\ moved \in GoalsRecord /\ moved.reached = g.reached /\ moved.cooling = g.cooling
      /\ new \subseteq Enabled
  BY DEF GoalsRecord, NewlyReached
<1>2. RiskOf(moved.reached \union new) \in {"full", "reduced", "none"}
  BY DEF RiskOf
<1>3. cools \in BOOLEAN
  OBVIOUS
<1>4. Updated(g, pnl) = [moved EXCEPT !.reached = @ \union new,
                                     !.risk = RiskOf(moved.reached \union new),
                                     !.cooling = cools]
  BY <1>1 DEF Updated
<1> HIDE DEF moved, new, cools
<1> QED
  BY <1>1, <1>2, <1>3, <1>4 DEF GoalsRecord

\* A period's roll unreaches its goal at most.
LEMMA ResetShrinks ==
  ASSUME NEW g \in GoalsRecord, NEW period, NEW e \in Int
  PROVE  ResetGoal(g, period, e) \in GoalsRecord /\ ResetGoal(g, period, e).reached \subseteq g.reached
<1> DEFINE pnls == [p \in Enabled |-> IF p = period THEN 0 ELSE g.pnl[p]]
           bases == [p \in Enabled |-> IF p = period THEN e ELSE g.base[p]]
           cleared == [g EXCEPT !.pnl = pnls, !.base = bases, !.reached = g.reached \ {period}]
<1>1. cleared \in GoalsRecord /\ cleared.reached \subseteq g.reached
  <2>1. pnls \in [Enabled -> Int] /\ bases \in [Enabled -> Int]
    BY DEF GoalsRecord
  <2> HIDE DEF pnls, bases
  <2> QED
    BY <2>1 DEF GoalsRecord
<1>2. [cleared EXCEPT !.risk = "full", !.cooling = FALSE] \in GoalsRecord
  <2> HIDE DEF cleared
  <2> QED
    BY <1>1 DEF GoalsRecord
<1>3. [cleared EXCEPT !.risk = "full", !.cooling = FALSE].reached = cleared.reached
  <2> HIDE DEF cleared
  <2> QED
    BY <1>1 DEF GoalsRecord
<1>4. \/ ResetGoal(g, period, e) = cleared
      \/ ResetGoal(g, period, e) = [cleared EXCEPT !.risk = "full", !.cooling = FALSE]
  BY DEF ResetGoal, GoalsRecord
<1> HIDE DEF cleared
<1> QED
  BY <1>1, <1>2, <1>3, <1>4

\* Booking a fill may quarantine and never lifts a quarantine.
LEMMA RecordedGrows ==
  ASSUME NEW s \in StatRecord, NEW pnl \in Int
  PROVE  /\ Recorded(s, pnl) \in StatRecord
         /\ s.quarantined = TRUE => Recorded(s, pnl).quarantined = TRUE
<1> DEFINE top == Max({s.peak, s.pnl + pnl})
           booked == [s EXCEPT !.trades = @ + 1, !.wins = IF pnl > 0 THEN @ + 1 ELSE @,
                               !.pnl = @ + pnl, !.peak = Max({@, s.pnl + pnl})]
           caught == booked.quarantined \/ Breaches(booked)
<1>1. top \in Int
  <2>1. s.peak \in Int /\ s.pnl + pnl \in Int
    BY DEF StatRecord
  <2> QED
    BY <2>1, MaxOfTwo
<1>2. booked = [s EXCEPT !.trades = @ + 1, !.wins = IF pnl > 0 THEN @ + 1 ELSE @,
                         !.pnl = @ + pnl, !.peak = top]
  BY DEF StatRecord
<1> HIDE DEF top
<1> DEFINE wins == IF pnl > 0 THEN s.wins + 1 ELSE s.wins
<1>3. booked \in StatRecord /\ booked.quarantined = s.quarantined
  <2>1. wins \in Nat /\ s.trades + 1 \in Nat /\ s.pnl + pnl \in Int
    BY DEF StatRecord
  <2>2. booked = [s EXCEPT !.trades = s.trades + 1, !.wins = wins,
                           !.pnl = s.pnl + pnl, !.peak = top]
    BY <1>2 DEF StatRecord
  <2> HIDE DEF wins, booked
  <2> QED
    BY <1>1, <2>1, <2>2 DEF StatRecord
<1>4. caught \in BOOLEAN
  OBVIOUS
<1>5. Recorded(s, pnl) = [booked EXCEPT !.quarantined = caught]
  BY DEF Recorded
<1>6. s.quarantined = TRUE => caught = TRUE
  BY <1>3
<1> HIDE DEF booked, caught
<1> QED
  BY <1>3, <1>4, <1>5, <1>6 DEF StatRecord

\* A release, of one that is not quarantined too.
LEMMA ReleasedShrinks ==
  ASSUME NEW s \in StatRecord
  PROVE  Released(s) \in StatRecord /\ Quarantine(Released(s)) \subseteq Quarantine(s)
<1>1. CASE s.quarantined = TRUE
  BY <1>1 DEF Released, StatRecord, Quarantine
<1>2. CASE s.quarantined = FALSE
  BY <1>2 DEF Released, StatRecord, Quarantine
<1> QED
  BY <1>1, <1>2 DEF StatRecord
-----------------------------------------------------------------------------
(* Governors: the invariant is inductive *)

\* The throttles in memory, per store.
LEMMA InForceOf ==
  InForce["goals"] = goals.reached /\ \A k \in Trackers : InForce[k] = Quarantine(stats[k])
BY DEF InForce, Throttles, Stores, Trackers

\* A store is one of the three, and the managers' is no tracker's.
LEMMA StoresAre == "goals" \in Stores /\ Trackers \subseteq Stores \ {"goals"}
                   /\ Stores = Trackers \union {"goals"}
BY DEF Stores, Trackers

\* What the step that runs was pushed with, and what follows it.
LEMMA RunsWith ==
  ASSUME OneAgenda, todo # <<>>
  PROVE  \E p \in Pnls \union {0} :
           /\ Runs("record") => Current.of = p /\ Tail(todo) = Storing(p)
           /\ Runs("attribute") => Current.of = p /\ Tail(todo) = Updating(p)
           /\ Runs("update") => Current.of = p /\ Tail(todo) = <<SaveOf("goals")>>
           /\ Runs("save") => Current = SaveOf(Current.of) /\ Tail(todo) \in Agendas(p)
<1>1. PICK p \in Pnls \union {0} : todo \in Agendas(p)
  BY DEF OneAgenda
<1>2. \/ Current = Step("record", p) /\ Tail(todo) = Storing(p)
      \/ Current = Step("attribute", p) /\ Tail(todo) = Updating(p)
      \/ Current = Step("update", p) /\ Tail(todo) = <<SaveOf("goals")>>
      \/ \E store \in Stores : Current = SaveOf(store) /\ Tail(todo) \in Agendas(p)
  BY <1>1, AgendaSteps DEF Current
<1> WITNESS p \in Pnls \union {0}
<1> QED
  BY <1>2 DEF Runs, Step, SaveOf

\* The agendas are sequences, and all but the first are not empty.
LEMMA AgendaShapes ==
  ASSUME NEW p
  PROVE  /\ <<>> \in Agendas(p)
         /\ \A q \in {Updating(p), Attributing(p), Storing(p), Recording(p)} :
              q # <<>> /\ q \in Agendas(p) /\ <<>> \o q = q
         /\ <<>> \o StoringSetup(p) = StoringSetup(p) /\ StoringSetup(p) \in Agendas(p)
         /\ \A store \in {"strategy", "goals"} :
              /\ <<SaveOf(store)>> \in Agendas(p) /\ <<SaveOf(store)>> # <<>>
              /\ Head(<<SaveOf(store)>>) = SaveOf(store) /\ Tail(<<SaveOf(store)>>) = <<>>
         /\ LET q == <<SaveOf("strategy")>> \o Storing(p)
            IN  q \in Agendas(p) /\ q # <<>> /\ Head(q) = SaveOf("strategy")
         /\ LET q == <<SaveOf("setup")>> \o StoringSetup(p)
            IN  q \in Agendas(p) /\ q # <<>> /\ Head(q) = SaveOf("setup")
<1> DEFINE S == {Step("record", p), Step("attribute", p), Step("update", p), SaveOf("goals"),
                 SaveOf("strategy"), SaveOf("setup")}
<1>1. /\ Updating(p) \in Seq(S) /\ Updating(p) # <<>>
      /\ Attributing(p) \in Seq(S) /\ Attributing(p) # <<>>
      /\ Storing(p) \in Seq(S) /\ Storing(p) # <<>>
      /\ Recording(p) \in Seq(S) /\ Recording(p) # <<>>
  BY DEF Updating, Attributing, Storing, Recording
<1>2. SaveOf("strategy") \in S /\ SaveOf("setup") \in S
  OBVIOUS
<1> HIDE DEF S
<1>3. StoringSetup(p) \in Seq(S)
  BY <1>1, <1>2, Prepended DEF StoringSetup
<1>4. \A q \in Seq(S) : <<>> \o q = q
  BY ConcatEmptySeq
<1>5. LET q == <<SaveOf("strategy")>> \o Storing(p)
      IN  q # <<>> /\ Head(q) = SaveOf("strategy")
  BY <1>1, <1>2, Prepended
<1>6. LET q == <<SaveOf("setup")>> \o StoringSetup(p)
      IN  q # <<>> /\ Head(q) = SaveOf("setup")
  BY <1>2, <1>3, Prepended
<1>7. \A store \in {"strategy", "goals"} :
        /\ <<SaveOf(store)>> # <<>>
        /\ Head(<<SaveOf(store)>>) = SaveOf(store) /\ Tail(<<SaveOf(store)>>) = <<>>
  OBVIOUS
<1> QED
  BY <1>1, <1>3, <1>4, <1>5, <1>6, <1>7 DEF Agendas

\* A step of the bookkeeping that leaves the files alone and whose throttles are saved
\* next keeps what counts in the files.
LEMMA Settled ==
  ASSUME GovInv, Settles, UNCHANGED file, proc' # "down",
         damaged \subseteq damaged', SavedNext',
         todo' # <<>> /\ Tail(todo') # <<>> => \A s \in Stores : held[s] \subseteq InForce'[s]
  PROVE  DownIsIdle' /\ RestCounts' /\ FilesKeep' /\ NothingLifted'
<1>1. \A s : OnDisk(s)' = OnDisk(s)
  BY DEF OnDisk, Loaded
<1>2. CASE todo' = <<>>
  <2>1. held' = InForce'
    BY <1>2 DEF Settles, InForce
  <2> QED
    BY <1>2, <2>1 DEF GovInv, DownIsIdle, RestCounts, FilesKeep, NothingLifted, SavedNext
<1>3. CASE todo' # <<>>
  <2>1. held' = held
    BY <1>3 DEF Settles
  <2> QED
    BY <1>1, <1>3, <2>1 DEF GovInv, DownIsIdle, RestCounts, FilesKeep, NothingLifted
<1> QED
  BY <1>2, <1>3
\* A start restores the same as long as the files are the same.
LEMMA SameFiles ==
  ASSUME GovTypes, UNCHANGED file
  PROVE  /\ \A s : Loaded(s)' = Loaded(s) /\ OnDisk(s)' = OnDisk(s)
         /\ file' \in [Stores -> Seq(GoalsRecord \union StatRecord)]
         /\ Loaded("goals")' \in GoalsRecord /\ \A k \in Trackers : Loaded(k)' \in StatRecord
BY DEF GovTypes, OnDisk, Loaded

\* The throttles are the same as long as memory is.
LEMMA SameThrottles ==
  ASSUME UNCHANGED <<goals, stats>>
  PROVE  InForce' = InForce
BY DEF InForce

\* A recorded fill: what Book leaves to do, and in memory.
LEMMA Booking ==
  ASSUME GovInv, NEW k \in Trackers, NEW p \in Pnls \union {0}, NEW stored \in BOOLEAN,
         NEW rest, NEW more, rest \in Agendas(p), <<SaveOf(k)>> \o rest = more,
         more \in Agendas(p), more # <<>>, Head(more) = SaveOf(k), <<>> \o rest = rest,
         Book(k, p, rest, stored), UNCHANGED <<goals, file, proc>>, proc # "down",
         todo # <<>>, Tail(todo) # <<>>, Head(todo) \notin {SaveOf(s) : s \in Stores}
  PROVE  /\ stats' \in [Trackers -> StatRecord] /\ OneAgenda' /\ damaged \subseteq damaged'
         /\ SavedNext'
         /\ todo' # <<>> /\ Tail(todo') # <<>> => \A s \in Stores : held[s] \subseteq InForce'[s]
<1> DEFINE next == Recorded(stats[k], p)
           new == next.quarantined /\ ~stats[k].quarantined
<1>0. p \in Int
  BY GovernorsAssumption
<1>1. stats[k] \in StatRecord /\ stats \in [Trackers -> StatRecord]
  BY DEF GovInv, GovTypes
<1>2. next \in StatRecord /\ (stats[k].quarantined = TRUE => next.quarantined = TRUE)
  BY <1>0, <1>1, RecordedGrows
<1>3. /\ stats' = [stats EXCEPT ![k] = next]
      /\ \/ new /\ ~stored /\ todo' = <<>> /\ damaged' = damaged \union {k}
         \/ new /\ stored /\ todo' = more /\ damaged' = damaged
         \/ ~new /\ todo' = rest /\ damaged' = damaged
  BY DEF Book, SaveOf, Damages
<1> HIDE DEF next
<1>4. /\ stats' \in [Trackers -> StatRecord] /\ stats'[k] = next
      /\ \A j \in Trackers \ {k} : stats'[j] = stats[j]
  BY <1>1, <1>2, <1>3
<1>5. OneAgenda'
  BY <1>3, AgendaShapes DEF OneAgenda
<1>6. /\ \A s \in Stores : InForce[s] \subseteq InForce'[s]
      /\ \A s \in Stores \ {k} : InForce'[s] = InForce[s]
      /\ ~new => InForce'[k] = InForce[k]
  <2>1. /\ InForce'["goals"] = goals.reached
        /\ \A j \in Trackers : InForce'[j] = Quarantine(stats'[j])
    BY InForceOf, InForceOf' DEF InForce, Throttles, Stores, Trackers
  <2>2. /\ Quarantine(stats[k]) \subseteq Quarantine(next)
        /\ ~new => Quarantine(next) = Quarantine(stats[k])
    <3>1. CASE stats[k].quarantined = TRUE
      BY <1>2, <3>1 DEF Quarantine
    <3>2. CASE stats[k].quarantined = FALSE
      BY <3>2 DEF Quarantine
    <3> QED
      BY <1>1, <3>1, <3>2 DEF StatRecord
  <2> HIDE DEF new
  <2> QED
    BY ZenonT(60), <1>4, <2>1, <2>2, InForceOf, StoresAre
<1>7. \A s \in Stores \ damaged : InForce[s] \subseteq OnDisk(s)
  BY DEF GovInv, SavedNext
<1>8. \A s : OnDisk(s)' = OnDisk(s)
  BY SameFiles DEF GovInv
<1> HIDE DEF new
<1>9. SavedNext'
  <2> SUFFICES ASSUME NEW s \in Stores \ damaged'
               PROVE  InForce'[s] \subseteq OnDisk(s)' \/ (todo' # <<>> /\ Head(todo') = SaveOf(s))
    BY DEF SavedNext
  <2> QED
    BY <1>3, <1>6, <1>7, <1>8
<1>10. \A s \in Stores : held[s] \subseteq InForce'[s]
  BY <1>6 DEF GovInv, NothingLifted
<1> QED
  BY <1>3, <1>4, <1>5, <1>9, <1>10
\* The strategy's record of a fill, and its quarantine.
LEMMA RecordStep ==
  ASSUME GovInv, NEW stored \in BOOLEAN, RecordStrategy(stored)
  PROVE  GovInv'
<1>1. /\ Runs("record") /\ Book("strategy", Current.of, Tail(todo), stored) /\ Settles
      /\ UNCHANGED <<goals, file, proc, equity>> /\ proc # "down" /\ todo # <<>>
      /\ Current.step = "record"
  BY DEF RecordStrategy, process, outside, Runs
<1>2. PICK p \in Pnls \union {0} : Current.of = p /\ Tail(todo) = Storing(p)
  BY <1>1, RunsWith DEF GovInv
<1>3. /\ Storing(p) \in Agendas(p) /\ Storing(p) # <<>> /\ <<>> \o Storing(p) = Storing(p)
      /\ <<SaveOf("strategy")>> \o Storing(p) \in Agendas(p)
      /\ <<SaveOf("strategy")>> \o Storing(p) # <<>>
      /\ Head(<<SaveOf("strategy")>> \o Storing(p)) = SaveOf("strategy")
  BY AgendaShapes
<1>4. Head(todo) \notin {SaveOf(s) : s \in Stores} /\ "strategy" \in Trackers
  BY <1>1 DEF Current, SaveOf, Step, Trackers
<1>5. Book("strategy", p, Storing(p), stored)
  BY <1>1, <1>2
<1>6. /\ stats' \in [Trackers -> StatRecord] /\ OneAgenda' /\ damaged \subseteq damaged'
      /\ SavedNext'
      /\ todo' # <<>> /\ Tail(todo') # <<>> => \A s \in Stores : held[s] \subseteq InForce'[s]
  BY <1>1, <1>2, <1>3, <1>4, <1>5, Booking
<1>7. GovTypes'
  BY <1>1, <1>6, SameFiles DEF GovInv, GovTypes
<1> QED
  BY <1>1, <1>6, <1>7, Settled DEF GovInv

\* The archetype's record of a fill it opened, and its quarantine.
LEMMA AttributeStep ==
  ASSUME GovInv, NEW stored \in BOOLEAN, AttributeSetup(stored)
  PROVE  GovInv'
<1>1. /\ Runs("attribute") /\ Settles /\ UNCHANGED <<goals, file, proc, equity>>
      /\ proc # "down" /\ todo # <<>> /\ Current.step = "attribute"
      /\ \/ Book("setup", Current.of, <<SaveOf("setup")>> \o Tail(todo), stored)
         \/ todo' = Tail(todo) /\ UNCHANGED <<stats, damaged>>
  BY DEF AttributeSetup, process, outside, Runs, SaveOf
<1>2. PICK p \in Pnls \union {0} : Current.of = p /\ Tail(todo) = Updating(p)
  BY <1>1, RunsWith DEF GovInv
<1>3. /\ Updating(p) \in Agendas(p) /\ Updating(p) # <<>>
      /\ StoringSetup(p) \in Agendas(p) /\ <<>> \o StoringSetup(p) = StoringSetup(p)
      /\ <<SaveOf("setup")>> \o StoringSetup(p) \in Agendas(p)
      /\ <<SaveOf("setup")>> \o StoringSetup(p) # <<>>
      /\ Head(<<SaveOf("setup")>> \o StoringSetup(p)) = SaveOf("setup")
  BY AgendaShapes
<1>4. Head(todo) \notin {SaveOf(s) : s \in Stores} /\ "setup" \in Trackers
  BY <1>1 DEF Current, SaveOf, Step, Trackers
<1>5. CASE Book("setup", Current.of, <<SaveOf("setup")>> \o Tail(todo), stored)
  <2>1. Book("setup", p, StoringSetup(p), stored)
    BY <1>2, <1>5 DEF StoringSetup
  <2>2. /\ stats' \in [Trackers -> StatRecord] /\ OneAgenda' /\ damaged \subseteq damaged'
        /\ SavedNext'
        /\ todo' # <<>> /\ Tail(todo') # <<>> => \A s \in Stores : held[s] \subseteq InForce'[s]
    BY <1>1, <1>2, <1>3, <1>4, <2>1, Booking
  <2>3. GovTypes'
    BY <1>1, <2>2, SameFiles DEF GovInv, GovTypes
  <2> QED
    BY <1>1, <2>2, <2>3, Settled DEF GovInv
<1>6. CASE todo' = Tail(todo) /\ UNCHANGED <<stats, damaged>>
  <2>1. GovTypes'
    BY <1>1, <1>6, SameFiles DEF GovInv, GovTypes
  <2>2. OneAgenda' /\ InForce' = InForce
    BY <1>1, <1>2, <1>3, <1>6, SameThrottles DEF OneAgenda
  <2>3. \A s \in Stores \ damaged : InForce[s] \subseteq OnDisk(s)
    BY <1>1, <1>4 DEF GovInv, SavedNext
  <2>4. SavedNext'
    BY <1>1, <1>6, <2>2, <2>3, SameFiles DEF GovInv, SavedNext
  <2>5. \A s \in Stores : held[s] \subseteq InForce'[s]
    BY <1>1, <1>2, <1>3, <2>2 DEF GovInv, NothingLifted
  <2> QED
    BY <1>1, <1>6, <2>1, <2>2, <2>4, <2>5, Settled DEF GovInv
<1> QED
  BY <1>1, <1>5, <1>6

\* The goals' record of a fill, saved next.
LEMMA UpdateStep ==
  ASSUME GovInv, UpdateGoals
  PROVE  GovInv'
<1>1. /\ Runs("update") /\ Settles /\ UNCHANGED <<stats, file, proc, equity, damaged>>
      /\ proc # "down" /\ todo # <<>> /\ Current.step = "update"
      /\ goals' = Updated(goals, Current.of) /\ todo' = Tail(todo)
  BY DEF UpdateGoals, process, outside, Runs
<1>2. PICK p \in Pnls \union {0} : Current.of = p /\ Tail(todo) = <<SaveOf("goals")>>
  BY <1>1, RunsWith DEF GovInv
<1>3. p \in Int
  BY GovernorsAssumption
<1>4. goals' \in GoalsRecord /\ goals.reached \subseteq goals'.reached
  BY <1>1, <1>2, <1>3, UpdatedGrows DEF GovInv, GovTypes
<1>5. /\ OneAgenda' /\ todo' # <<>> /\ Head(todo') = SaveOf("goals") /\ Tail(todo') = <<>>
  BY <1>1, <1>2, AgendaShapes DEF OneAgenda
<1>6. GovTypes'
  BY <1>1, <1>4, SameFiles DEF GovInv, GovTypes
<1>7. \A k \in Trackers : InForce'[k] = InForce[k]
  BY <1>1 DEF InForce, Throttles, Stores, Trackers
<1>8. \A s \in Stores \ damaged : InForce[s] \subseteq OnDisk(s)
  BY <1>1 DEF GovInv, SavedNext, Current, SaveOf, Step
<1>9. SavedNext'
  <2> SUFFICES ASSUME NEW s \in Stores \ damaged'
               PROVE  InForce'[s] \subseteq OnDisk(s)' \/ (todo' # <<>> /\ Head(todo') = SaveOf(s))
    BY DEF SavedNext
  <2> QED
    BY <1>1, <1>5, <1>7, <1>8, SameFiles, StoresAre DEF GovInv
<1> QED
  BY <1>1, <1>5, <1>6, <1>9, Settled DEF GovInv

\* A save, done or failed.
LEMMA SaveStep ==
  ASSUME GovInv, NEW store \in Stores, NEW ok \in BOOLEAN, Saved(store, ok)
  PROVE  GovInv'
<1>1. /\ Runs("save") /\ Current.of = store /\ Settles /\ UNCHANGED <<proc, goals, stats, equity>>
      /\ proc # "down" /\ todo # <<>> /\ Save(store, ok) /\ todo' = Tail(todo)
  BY DEF Saved, process, outside, memory, Runs
<1>2. PICK p \in Pnls \union {0} : Current = SaveOf(store) /\ Tail(todo) \in Agendas(p)
  BY <1>1, RunsWith DEF GovInv
<1>3. OneAgenda' /\ InForce' = InForce
  BY <1>1, <1>2, SameThrottles DEF OneAgenda
<1>4. \A s \in Stores \ (damaged \union {store}) : InForce[s] \subseteq OnDisk(s)
  <2> SUFFICES ASSUME NEW s \in Stores \ (damaged \union {store})
               PROVE  InForce[s] \subseteq OnDisk(s)
    OBVIOUS
  <2>1. SaveOf(s) # SaveOf(store)
    <3>1. SaveOf(s).of = s /\ SaveOf(store).of = store
      BY DEF SaveOf, Step
    <3> QED
      BY <3>1
  <2> QED
    BY <1>1, <1>2, <2>1 DEF GovInv, SavedNext, Current
<1>5. todo' # <<>> => \A s \in Stores : held[s] \subseteq InForce'[s]
  BY <1>1, <1>3 DEF GovInv, NothingLifted
<1>6. CASE ok = FALSE
  <2>1. UNCHANGED file /\ damaged' = damaged \union {store}
    BY <1>1, <1>6 DEF Save, Damages
  <2>2. GovTypes'
    BY <1>1, <2>1, SameFiles DEF GovInv, GovTypes
  <2>3. SavedNext'
    BY <1>3, <1>4, <2>1, SameFiles DEF GovInv, SavedNext
  <2> QED
    BY <1>1, <1>3, <1>5, <2>1, <2>2, <2>3, Settled DEF GovInv
<1>7. CASE ok = TRUE
  <2>1. file' = [file EXCEPT ![store] = <<Content(store)>>] /\ damaged' = damaged \ {store}
    BY <1>1, <1>7 DEF Save
  <2>2. /\ store = "goals" => Content(store) = goals /\ Content(store) \in GoalsRecord
        /\ store # "goals" => Content(store) = stats[store] /\ Content(store) \in StatRecord
    BY StoresAre DEF Content, GovInv, GovTypes
  <2>3. /\ file' \in [Stores -> Seq(GoalsRecord \union StatRecord)]
        /\ file'[store] = <<Content(store)>> /\ \A s \in Stores \ {store} : file'[s] = file[s]
    <3>1. <<Content(store)>> \in Seq(GoalsRecord \union StatRecord)
      BY <2>2
    <3> QED
      BY <2>1, <3>1 DEF GovInv, GovTypes
  <2>4. /\ Loaded(store)' = Content(store)
        /\ \A s \in Stores \ {store} : Loaded(s)' = Loaded(s)
    BY <2>3 DEF Loaded
  <2>5. GovTypes'
    BY <1>1, <2>2, <2>3, <2>4, StoresAre DEF GovInv, GovTypes
  <2>6. OnDisk(store)' = InForce'[store] /\ \A s \in Stores \ {store} : OnDisk(s)' = OnDisk(s)
    <3>1. OnDisk(store)' = InForce[store]
      BY <2>2, <2>4, InForceOf, StoresAre DEF OnDisk
    <3> QED
      BY <1>3, <2>4, <3>1 DEF OnDisk
  <2>7. SavedNext'
    BY <1>3, <1>4, <2>1, <2>6 DEF SavedNext
  <2>8. CASE todo' = <<>>
    <3>1. held' = InForce'
      BY <1>1, <2>8 DEF Settles, InForce
    <3> QED
      BY <1>1, <1>3, <2>5, <2>7, <2>8, <3>1
         DEF GovInv, DownIsIdle, RestCounts, FilesKeep, NothingLifted, SavedNext
  <2>9. CASE todo' # <<>>
    <3>1. held' = held
      BY <1>1, <2>9 DEF Settles
    <3>2. FilesKeep'
      BY <1>5, <2>1, <2>6, <2>9, <3>1 DEF GovInv, FilesKeep
    <3> QED
      BY <1>1, <1>3, <1>5, <2>5, <2>7, <2>9, <3>1, <3>2
         DEF GovInv, DownIsIdle, RestCounts, NothingLifted
  <2> QED
    BY <2>8, <2>9
<1> QED
  BY <1>6, <1>7
\* A step that begins with nothing to do, adds no throttle, and lifts one only where
\* at most a save is left to do.
LEMMA FromRest ==
  ASSUME GovInv, AtRest, Settles, UNCHANGED file, proc' # "down", damaged \subseteq damaged',
         \A s \in Stores : InForce'[s] \subseteq InForce[s],
         todo' # <<>> /\ Tail(todo') # <<>> => InForce' = InForce,
         GovTypes', OneAgenda'
  PROVE  GovInv'
<1>1. \A s \in Stores \ damaged : InForce[s] \subseteq OnDisk(s)
  BY DEF GovInv, SavedNext, AtRest
<1>2. held = InForce
  BY DEF GovInv, RestCounts, AtRest
<1>3. SavedNext'
  BY <1>1, SameFiles DEF GovInv, SavedNext
<1> QED
  BY <1>2, <1>3, Settled DEF GovInv

\* What leaves both the trackers and the reached goals as they are: a fill arriving,
\* an entry, a cooldown's end, midnight, a signal, a server that stopped.
LEMMA CalmStep ==
  ASSUME GovInv, AtRest, UNCHANGED <<stats, file, held, damaged>>, goals' \in GoalsRecord,
         goals'.reached = goals.reached, equity' \in Int, proc' \in {"up", "stopping"}, OneAgenda'
  PROVE  GovInv'
<1>1. InForce' = InForce
  BY DEF InForce, Throttles
<1>2. Settles
  BY <1>1 DEF GovInv, RestCounts, AtRest, Settles, InForce
<1>3. GovTypes'
  BY SameFiles DEF GovInv, GovTypes
<1> QED
  BY <1>1, <1>2, <1>3, FromRest

\* A closing fill: the account's equity moves, and the bookkeeping is begun.
LEMMA FillStep ==
  ASSUME GovInv, NEW pnl \in Pnls, NEW own \in BOOLEAN, ClosingFill(pnl, own)
  PROVE  GovInv'
<1>1. /\ AtRest /\ equity' = equity + pnl /\ UNCHANGED <<stats, goals, proc, file, held, damaged>>
      /\ todo' \in {Recording(pnl), Updating(pnl)}
  BY DEF ClosingFill, process, memory, history, Recording, Updating, SaveOf
<1>2. pnl \in Int /\ OneAgenda'
  BY <1>1, AgendaShapes, GovernorsAssumption DEF OneAgenda
<1>3. /\ equity' \in Int /\ proc' \in {"up", "stopping"} /\ goals' \in GoalsRecord
      /\ goals'.reached = goals.reached
  BY <1>1, <1>2 DEF GovInv, GovTypes, AtRest
<1> QED
  BY <1>1, <1>2, <1>3, CalmStep

\* The other calm steps; a signal's agenda has both stores.
LEMMA CalmSteps ==
  ASSUME GovInv,
         \/ RecordOpen \/ CooldownOver \/ Signal \/ ApiStopped
         \/ \E periods \in SUBSET (Enabled \union {"daily"}) : Midnight(periods)
  PROVE  GovInv'
<1>1. /\ AtRest /\ UNCHANGED <<stats, file, held, damaged, equity>>
      /\ proc' \in {proc, "stopping"} /\ goals' \in {goals, [goals EXCEPT !.cooling = FALSE]}
      /\ todo' \in {todo, <<SaveOf("goals"), SaveOf("strategy")>>}
  BY DEF RecordOpen, CooldownOver, Signal, ApiStopped, Midnight, process, memory, history, outside,
         SaveOf
<1>2. proc \in {"up", "stopping"} /\ equity \in Int /\ goals \in GoalsRecord
  BY <1>1 DEF GovInv, GovTypes, AtRest
<1>3. goals' \in GoalsRecord /\ goals'.reached = goals.reached
  BY <1>1, <1>2 DEF GoalsRecord
<1>4. OneAgenda'
  <2>1. todo' \in {<<>>, <<SaveOf("goals"), SaveOf("strategy")>>}
    BY <1>1 DEF AtRest
  <2>2. todo' \in Agendas(0)
    BY <2>1 DEF Agendas
  <2> QED
    BY <2>2 DEF OneAgenda
<1> QED
  BY <1>1, <1>2, <1>3, <1>4, CalmStep

\* A period rolled at midnight.
LEMMA RollStep ==
  ASSUME GovInv, NEW period \in Periods, NEW stored \in BOOLEAN, Roll(period, stored)
  PROVE  GovInv'
<1>1. /\ AtRest /\ UNCHANGED <<stats, file, proc, equity>> /\ Settles
      /\ goals' = ResetGoal(goals, period, equity) /\ damaged \subseteq damaged'
      /\ todo' \in {<<>>, <<SaveOf("goals")>>}
  BY DEF Roll, process, outside, SaveOf, Damages
<1>2. goals' \in GoalsRecord /\ goals'.reached \subseteq goals.reached
  BY <1>1, ResetShrinks DEF GovInv, GovTypes
<1>3. GovTypes'
  BY <1>1, <1>2, SameFiles DEF GovInv, GovTypes
<1>4. \A s \in Stores : InForce'[s] \subseteq InForce[s]
  BY <1>1, <1>2 DEF InForce, Throttles
<1>5. OneAgenda' /\ (todo' # <<>> => Tail(todo') = <<>>)
  <2>1. todo' \in Agendas(0)
    BY <1>1 DEF Agendas
  <2>2. todo' # <<>> => todo' = <<SaveOf("goals")>>
    BY <1>1
  <2>3. Tail(<<SaveOf("goals")>>) = <<>>
    OBVIOUS
  <2> QED
    BY <2>1, <2>2, <2>3 DEF OneAgenda
<1>6. proc' # "down"
  BY <1>1 DEF AtRest
<1> QED
  BY <1>1, <1>3, <1>4, <1>5, <1>6, FromRest

\* A release by the operator, in memory only.
LEMMA ReleaseStep ==
  ASSUME GovInv, NEW k \in Trackers, Release(k)
  PROVE  GovInv'
<1>1. /\ AtRest /\ UNCHANGED <<goals, file, proc, equity, todo, damaged>> /\ Settles
      /\ stats' = [stats EXCEPT ![k] = Released(@)]
  BY DEF Release, process, outside
<1>2. stats \in [Trackers -> StatRecord] /\ stats[k] \in StatRecord
  BY DEF GovInv, GovTypes
<1>3. Released(stats[k]) \in StatRecord /\ Quarantine(Released(stats[k])) \subseteq Quarantine(stats[k])
  BY <1>2, ReleasedShrinks
<1>4. /\ stats' \in [Trackers -> StatRecord]
      /\ \A j \in Trackers : Quarantine(stats'[j]) \subseteq Quarantine(stats[j])
  BY <1>1, <1>2, <1>3
<1>5. GovTypes'
  BY <1>1, <1>4, SameFiles DEF GovInv, GovTypes
<1>6. \A s \in Stores : InForce'[s] \subseteq InForce[s]
  BY <1>1, <1>4 DEF InForce, Throttles, Stores, Trackers
<1>7. OneAgenda' /\ todo' = <<>> /\ proc' # "down"
  BY <1>1 DEF AtRest, GovInv, OneAgenda
<1> QED
  BY <1>1, <1>5, <1>6, <1>7, FromRest

\* The paper account's reset: every goal starts anew and every tracker is released.
LEMMA ResetStep ==
  ASSUME GovInv, ResetAccount
  PROVE  GovInv'
<1> DEFINE first == ResetGoal(goals, "daily", StartEquity)
           second == ResetGoal(first, "weekly", StartEquity)
<1>1. /\ AtRest /\ UNCHANGED <<file, proc, held, damaged>> /\ equity' = StartEquity
      /\ goals' = ResetGoal(second, "monthly", StartEquity)
      /\ stats' = [k \in Trackers |-> Released(stats[k])] /\ todo' = <<SaveOf("goals")>>
  BY DEF ResetAccount, process, history, SaveOf
<1>2. StartEquity \in Int
  BY GovernorsAssumption
<1>3. goals' \in GoalsRecord /\ goals'.reached \subseteq goals.reached
  <2>1. first \in GoalsRecord /\ first.reached \subseteq goals.reached
    BY <1>2, ResetShrinks DEF GovInv, GovTypes
  <2> HIDE DEF first
  <2>2. second \in GoalsRecord /\ second.reached \subseteq first.reached
    BY <1>2, <2>1, ResetShrinks
  <2> HIDE DEF second
  <2>3. goals' \in GoalsRecord /\ goals'.reached \subseteq second.reached
    BY <1>1, <1>2, <2>2, ResetShrinks
  <2> QED
    BY <2>1, <2>2, <2>3
<1>4. /\ stats' \in [Trackers -> StatRecord]
      /\ \A j \in Trackers : Quarantine(stats'[j]) \subseteq Quarantine(stats[j])
  BY <1>1, ReleasedShrinks DEF GovInv, GovTypes
<1>5. GovTypes'
  BY <1>1, <1>2, <1>3, <1>4, SameFiles DEF GovInv, GovTypes
<1>6. \A s \in Stores : InForce'[s] \subseteq InForce[s]
  BY <1>3, <1>4 DEF InForce, Throttles, Stores, Trackers
<1>7. OneAgenda' /\ Settles /\ Tail(todo') = <<>> /\ proc' # "down"
  <2>1. todo' \in Agendas(0)
    BY <1>1 DEF Agendas
  <2> QED
    BY <1>1, <2>1 DEF AtRest, OneAgenda, Settles
<1> QED
  BY <1>1, <1>5, <1>6, <1>7, FromRest

\* The process ends, by itself or within a write.
LEMMA EndStep ==
  ASSUME GovInv, Exit \/ ForceExit \/ Crash
  PROVE  GovInv'
<1>1. /\ proc' = "down" /\ todo' = <<>> /\ UNCHANGED <<equity, held>>
      /\ goals' = FreshGoals(StartEquity) /\ stats' = [k \in Trackers |-> FreshStats]
      /\ \/ UNCHANGED <<file, damaged>>
         \/ \E store \in Stores : /\ file' = [file EXCEPT ![store] = <<>>]
                                  /\ damaged' = damaged \union {store}
  BY DEF Exit, ForceExit, Crash, ProcessEnds, outside, Damages
<1>2. /\ goals' \in GoalsRecord /\ stats' \in [Trackers -> StatRecord]
      /\ FreshGoals(StartEquity) \in GoalsRecord /\ FreshStats \in StatRecord
  BY <1>1, FreshTyped, GovernorsAssumption
<1>3. DownIsIdle' /\ RestCounts' /\ NothingLifted' /\ SavedNext' /\ OneAgenda'
  <2>1. todo' \in Agendas(0)
    BY <1>1 DEF Agendas
  <2> QED
    BY <1>1, <2>1 DEF DownIsIdle, RestCounts, NothingLifted, SavedNext, OneAgenda
<1>4. CASE UNCHANGED <<file, damaged>>
  <2>1. GovTypes'
    BY <1>1, <1>2, <1>4, SameFiles DEF GovInv, GovTypes
  <2>2. FilesKeep'
    BY <1>1, <1>4, SameFiles DEF GovInv, FilesKeep
  <2> QED
    BY <1>3, <2>1, <2>2 DEF GovInv
<1>5. ASSUME NEW store \in Stores, file' = [file EXCEPT ![store] = <<>>],
             damaged' = damaged \union {store}
      PROVE  GovInv'
  <2>1. /\ file' \in [Stores -> Seq(GoalsRecord \union StatRecord)]
        /\ file'[store] = <<>> /\ \A s \in Stores \ {store} : file'[s] = file[s]
    BY <1>5 DEF GovInv, GovTypes
  <2>2. /\ Loaded(store)' = IF store = "goals" THEN FreshGoals(StartEquity) ELSE FreshStats
        /\ \A s \in Stores \ {store} : Loaded(s)' = Loaded(s)
    BY <2>1 DEF Loaded
  <2>3. GovTypes'
    <3>1. Loaded("goals")' \in GoalsRecord
      BY <1>2, <2>2, StoresAre DEF GovInv, GovTypes
    <3>2. ASSUME NEW k \in Trackers
          PROVE  Loaded(k)' \in StatRecord
      BY <1>2, <2>2, <3>2, StoresAre DEF GovInv, GovTypes
    <3> QED
      BY <1>1, <1>2, <2>1, <3>1, <3>2 DEF GovInv, GovTypes
  <2>4. \A s \in Stores \ {store} : OnDisk(s)' = OnDisk(s)
    BY <2>2 DEF OnDisk
  <2>5. FilesKeep'
    BY <1>1, <1>5, <2>4 DEF GovInv, FilesKeep
  <2> QED
    BY <1>3, <2>3, <2>5 DEF GovInv
<1> QED
  BY <1>1, <1>4, <1>5

\* A start restores exactly what the files keep.
LEMMA StartLoads ==
  ASSUME GovInv, Start
  PROVE  \A s \in Stores : InForce'[s] = OnDisk(s)
BY DEF Start, InForce, Throttles, OnDisk, Stores, Trackers

\* A start.
LEMMA StartStep ==
  ASSUME GovInv, Start
  PROVE  GovInv'
<1>1. /\ proc = "down" /\ proc' = "up" /\ UNCHANGED <<file, todo, equity, damaged>> /\ Settles
      /\ goals' = Loaded("goals") /\ stats' = [k \in Trackers |-> Loaded(k)]
  BY DEF Start, outside
<1>2. todo' = <<>> /\ held' = InForce'
  BY <1>1 DEF GovInv, DownIsIdle, Settles, InForce
<1>3. GovTypes'
  BY <1>1, SameFiles DEF GovInv, GovTypes
<1>4. \A s \in Stores : InForce'[s] = OnDisk(s)'
  BY <1>1, StartLoads, SameFiles DEF GovInv
<1>5. OneAgenda'
  BY <1>1 DEF GovInv, OneAgenda
<1> QED
  BY <1>1, <1>2, <1>3, <1>4, <1>5
     DEF GovInv, DownIsIdle, RestCounts, FilesKeep, NothingLifted, SavedNext

\* The first process has no throttle and no file.
LEMMA GovInitInv == GovInit => GovInv
<1> SUFFICES ASSUME GovInit PROVE GovInv
  OBVIOUS
<1>1. /\ proc = "up" /\ goals = FreshGoals(StartEquity) /\ stats = [k \in Trackers |-> FreshStats]
      /\ file = [s \in Stores |-> <<>>] /\ todo = <<>> /\ equity = StartEquity
      /\ held = [s \in Stores |-> {}] /\ damaged = {} /\ StartEquity \in Int
  BY GovernorsAssumption DEF GovInit
<1>2. FreshGoals(StartEquity) \in GoalsRecord /\ FreshStats \in StatRecord
  BY <1>1, FreshTyped
<1>3. /\ file \in [Stores -> Seq(GoalsRecord \union StatRecord)]
      /\ Loaded("goals") = FreshGoals(StartEquity) /\ \A k \in Trackers : Loaded(k) = FreshStats
  BY <1>1 DEF Loaded, Stores, Trackers
<1>4. GovTypes
  BY <1>1, <1>2, <1>3 DEF GovTypes
<1>5. OneAgenda
  <2>1. todo \in Agendas(0)
    BY <1>1 DEF Agendas
  <2> QED
    BY <2>1 DEF OneAgenda
<1>6. InForce = [s \in Stores |-> {}]
  <2>1. goals.reached = {}
    BY <1>1 DEF FreshGoals
  <2>2. \A k \in Trackers : Quarantine(stats[k]) = {}
    BY <1>1 DEF FreshStats, Quarantine
  <2> QED
    BY <2>1, <2>2 DEF InForce, Throttles, Stores
<1> QED
  BY <1>1, <1>4, <1>5, <1>6
     DEF GovInv, DownIsIdle, RestCounts, FilesKeep, NothingLifted, SavedNext

\* Every step of the managers, of the operator and of the process keeps the invariant.
LEMMA GovStep == GovInv /\ [GovNext]_govVars => GovInv'
<1> SUFFICES ASSUME GovInv, [GovNext]_govVars PROVE GovInv'
  OBVIOUS
<1>1. CASE GovNext
  BY <1>1, FillStep, RecordStep, AttributeStep, UpdateStep, CalmSteps, SaveStep, RollStep,
     ReleaseStep, ResetStep, EndStep, StartStep DEF GovNext
<1>2. CASE UNCHANGED govVars
  <2>1. UNCHANGED <<proc, goals, stats, file, todo, equity, held, damaged>>
    BY <1>2 DEF govVars, process, memory, outside, history
  <2>2. GovTypes' /\ InForce' = InForce /\ \A s : OnDisk(s)' = OnDisk(s)
    BY <2>1, SameFiles, SameThrottles DEF GovInv, GovTypes
  <2> QED
    BY <2>1, <2>2
       DEF GovInv, OneAgenda, DownIsIdle, RestCounts, FilesKeep, NothingLifted, SavedNext
<1> QED
  BY <1>1, <1>2

\* ThrottlesOutliveProcess: a quarantine or a reached goal that held when the process
\* was last at rest holds after the next start, however it ended, if no write of its
\* file failed or was cut off; a start is the only step it can happen in.
THEOREM ThrottlesOutlive == GovSpec => ThrottlesOutliveProcess
<1>1. GovInv /\ [GovNext]_govVars =>
        [proc = "down" /\ proc' = "up" =>
           \A s \in Stores \ damaged : held[s] \subseteq Throttles(goals', stats')[s]]_govVars
  <2> SUFFICES ASSUME GovInv, GovNext, proc = "down", proc' = "up"
               PROVE  \A s \in Stores \ damaged : held[s] \subseteq Throttles(goals', stats')[s]
    OBVIOUS
  <2>1. Start
    BY DEF GovNext, ClosingFill, RecordStrategy, AttributeSetup, UpdateGoals, RecordOpen,
           CooldownOver, Saved, Midnight, Roll, Release, ResetAccount, Signal, ApiStopped, Exit,
           ForceExit, Crash, AtRest, Runs
  <2> QED
    BY <2>1, StartLoads DEF GovInv, FilesKeep, InForce
<1>2. GovSpec => []GovInv
  BY GovInitInv, GovStep, PTL DEF GovSpec
<1> QED
  BY <1>1, <1>2, PTL DEF GovSpec, ThrottlesOutliveProcess

-----------------------------------------------------------------------------
(* Feed: time and extremes *)

\* A bar begins no earlier for a later time, and each follows the one before it.
LEMMA BarsFollow ==
  ASSUME NEW t \in Nat
  PROVE  BarOf(t) \in Nat /\ BarOf(t) <= BarOf(t + 1) /\ BarOf(t + 1) <= BarOf(t) + 1
<1>1. BarLength \in Nat \ {0}
  BY FeedAssumption
<1> QED
  BY <1>1 DEF BarOf

\* A later time is of no earlier bar.
LEMMA BarsInOrder ==
  ASSUME NEW t \in Nat, NEW u \in Nat, t <= u
  PROVE  BarOf(t) \in Nat /\ BarOf(u) \in Nat /\ BarOf(t) <= BarOf(u)
<1>1. BarLength \in Nat \ {0}
  BY FeedAssumption
<1> QED
  BY <1>1 DEF BarOf

\* The second that passes, or none once the time is up.
LEMMA ClockStep ==
  ASSUME NEW t \in 0..MaxTime
  PROVE  Min({t + 1, MaxTime}) = IF t = MaxTime THEN t ELSE t + 1
<1>1. MaxTime \in Nat
  BY FeedAssumption
<1> QED
  BY <1>1, MinOfTwo

\* An age grows until it is past the oldest that matters.
LEMMA OlderIs ==
  ASSUME NEW a \in Nat
  PROVE  Older(a) \in Nat /\ Older(a) = IF a <= MaxAge THEN a + 1 ELSE MaxAge + 1
<1>1. MaxAge \in Nat
  BY FeedAssumption
<1> QED
  BY <1>1, MinOfTwo DEF Older
-----------------------------------------------------------------------------
(* Feed: candles *)

CandleRecord == [open: Nat, high: Nat, low: Nat, close: Nat, volume: Nat, sealed: BOOLEAN]

\* Of three integers, Max returns one that is no less than any.
LEMMA MaxOfThree ==
  ASSUME NEW a \in Int, NEW b \in Int, NEW c \in Int
  PROVE  /\ Max({a, b, c}) \in {a, b, c}
         /\ Max({a, b, c}) >= a /\ Max({a, b, c}) >= b /\ Max({a, b, c}) >= c
<1> DEFINE S == {a, b, c}
           bound == IF a >= b THEN (IF a >= c THEN a ELSE c) ELSE (IF b >= c THEN b ELSE c)
<1>1. S \subseteq Int /\ S # {} /\ bound \in Int /\ \A x \in S : x <= bound
  OBVIOUS
<1>2. Max(S) \in S /\ \A y \in S : Max(S) >= y
  <2> HIDE DEF S, bound
  <2> QED
    BY <1>1, MaxOfBounded
<1> QED
  BY <1>2

\* A candle is valid if its prices are in order.
LEMMA ValidIs ==
  ASSUME NEW c \in CandleRecord
  PROVE  Valid(c) <=> /\ c.open > 0 /\ c.high >= c.open /\ c.high >= c.low /\ c.high >= c.close
                      /\ c.low <= c.open /\ c.low <= c.close
<1> DEFINE top == Max({c.open, c.low, c.close})
<1>1. c.open \in Int /\ c.high \in Int /\ c.low \in Int /\ c.close \in Int
  BY DEF CandleRecord
<1>2. top \in {c.open, c.low, c.close} /\ top >= c.open /\ top >= c.low /\ top >= c.close
  BY <1>1, MaxOfThree
<1>3. Min({c.open, c.close}) = IF c.open <= c.close THEN c.open ELSE c.close
  BY <1>1, MinOfTwo
<1>4. Valid(c) <=> c.open > 0 /\ c.high >= top /\ c.low <= Min({c.open, c.close})
  BY DEF Valid
<1> HIDE DEF top
<1> QED
  BY <1>1, <1>2, <1>3, <1>4

\* The exchange's candles: one trade, none yet, one trade more.
LEMMA SingleIsValid ==
  ASSUME NEW p \in Nat \ {0}
  PROVE  /\ Single(p) \in CandleRecord /\ Valid(Single(p))
         /\ [Single(p) EXCEPT !.volume = 0] \in CandleRecord
         /\ Valid([Single(p) EXCEPT !.volume = 0])
<1>1. Single(p) \in CandleRecord /\ [Single(p) EXCEPT !.volume = 0] \in CandleRecord
  BY DEF Single, CandleRecord
<1>2. Valid(Single(p))
  BY <1>1, ValidIs DEF Single
<1>3. Valid([Single(p) EXCEPT !.volume = 0])
  BY <1>1, ValidIs DEF Single
<1> QED
  BY <1>1, <1>2, <1>3

\* A trade leaves the candle it goes into valid.
LEMMA ExtendedIsValid ==
  ASSUME NEW c \in CandleRecord, Valid(c), NEW p \in Nat \ {0}
  PROVE  Extended(c, p) \in CandleRecord /\ Valid(Extended(c, p))
<1>1. c.open \in Nat /\ c.high \in Nat /\ c.low \in Nat /\ c.close \in Nat /\ c.volume \in Nat
  BY DEF CandleRecord
<1>2. Max({c.high, p}) \in Nat /\ Max({c.high, p}) >= c.high /\ Max({c.high, p}) >= p
  <2>1. c.high \in Int /\ p \in Int
    BY <1>1
  <2>2. /\ Max({c.high, p}) \in Int /\ Max({c.high, p}) >= c.high /\ Max({c.high, p}) >= p
    BY <2>1, MaxOfTwo
  <2> QED
    BY <1>1, <2>2
<1>3. Min({c.low, p}) = IF c.low <= p THEN c.low ELSE p
  BY <1>1, MinOfTwo
<1> DEFINE e == Extended(c, p)
<1>4. /\ e.open = c.open /\ e.high = Max({c.high, p}) /\ e.low = Min({c.low, p}) /\ e.close = p
      /\ e.volume = c.volume + 1 /\ e.sealed = FALSE
  BY DEF Extended, CandleRecord
<1>5. e \in CandleRecord
  <2>1. /\ Max({c.high, p}) \in Nat /\ Min({c.low, p}) \in Nat /\ c.volume + 1 \in Nat /\ p \in Nat
    BY <1>1, <1>2, <1>3
  <2> QED
    BY <2>1 DEF Extended, CandleRecord
<1>6. /\ c.open > 0 /\ c.high >= c.open /\ c.high >= c.low /\ c.high >= c.close
      /\ c.low <= c.open /\ c.low <= c.close
  BY ValidIs
<1>7. /\ e.open > 0 /\ e.high >= e.open /\ e.high >= e.low /\ e.high >= e.close
      /\ e.low <= e.open /\ e.low <= e.close
  <2> HIDE DEF e
  <2> QED
    BY <1>1, <1>2, <1>3, <1>4, <1>6
<1> QED
  BY <1>5, <1>7, ValidIs

\* A candle that ends keeps its prices, and ends once.
LEMMA SealedIs ==
  ASSUME NEW c \in CandleRecord
  PROVE  /\ Sealed(c) \in CandleRecord /\ Valid(Sealed(c)) <=> Valid(c)
         /\ Sealed(Sealed(c)) = Sealed(c)
<1>1. Sealed(c) \in CandleRecord
  BY DEF Sealed, CandleRecord
<1>2. /\ Sealed(c).open = c.open /\ Sealed(c).high = c.high /\ Sealed(c).low = c.low
      /\ Sealed(c).close = c.close
  BY DEF Sealed, CandleRecord
<1>3. Valid(Sealed(c)) <=> Valid(c)
  BY <1>1, <1>2, ValidIs
<1>4. Sealed(Sealed(c)) = Sealed(c)
  BY DEF Sealed, CandleRecord
<1> QED
  BY <1>1, <1>3, <1>4
-----------------------------------------------------------------------------
(* Feed: the candle store *)

\* One candle comes into a series, or is refused; the others stay as they are.
LEMMA UpsertChangesOne ==
  ASSUME NEW shown, NEW b, NEW c
  PROVE  /\ DOMAIN Upsert(shown, b, c) \subseteq DOMAIN shown \union {b}
         /\ \A x \in DOMAIN Upsert(shown, b, c) :
              IF x = b /\ Valid(c) THEN Upsert(shown, b, c)[x] = c
              ELSE x \in DOMAIN shown /\ Upsert(shown, b, c)[x] = shown[x]
<1>1. CASE ~Valid(c)
  BY <1>1 DEF Upsert
<1>2. CASE Valid(c)
  <2> DEFINE bars == Kept(DOMAIN shown \union {b})
  <2>1. bars \subseteq DOMAIN shown \union {b}
    BY DEF Kept
  <2>2. Upsert(shown, b, c) = [x \in bars |-> IF x = b THEN c ELSE shown[x]]
    BY <1>2 DEF Upsert
  <2> HIDE DEF bars
  <2> QED
    BY <1>2, <2>1, <2>2
<1> QED
  BY <1>1, <1>2

\* A trade changes the candle of its own bar alone.
LEMMA TickChangesOne ==
  ASSUME NEW shown, NEW t, NEW p
  PROVE  /\ DOMAIN ApplyTick(shown, t, p) \subseteq DOMAIN shown \union {BarOf(t)}
         /\ \A x \in DOMAIN ApplyTick(shown, t, p) : x # BarOf(t) =>
              x \in DOMAIN shown /\ ApplyTick(shown, t, p)[x] = shown[x]
<1> DEFINE c == IF DOMAIN shown # {} /\ BarOf(t) = Max(DOMAIN shown)
                THEN Extended(shown[BarOf(t)], p) ELSE Single(p)
<1>1. ApplyTick(shown, t, p) = Upsert(shown, BarOf(t), c)
  BY DEF ApplyTick
<1> HIDE DEF c
<1> QED
  BY <1>1, UpsertChangesOne
-----------------------------------------------------------------------------
(* Feed: the invariant *)

KlineRecord == [b: Nat, c: CandleRecord, closes: BOOLEAN]
TradeRecord == [t: Nat, p: Prints]

\* Bars are numbered from the first to the current one, and what is on its way, in
\* the store or excused is of one of them.
ExchangeShape ==
  /\ now \in 0..MaxTime
  /\ exch = [bars |-> exch.bars, price |-> exch.price, left |-> exch.left, asks |-> exch.asks]
  /\ exch.bars \in [0..CurrentBar -> CandleRecord] /\ \A b \in 0..CurrentBar : Valid(exch.bars[b])
  /\ exch.price \in Prints
InboundShape ==
  /\ inbound = [trades |-> inbound.trades, klines |-> inbound.klines]
  /\ inbound.trades \in Seq(TradeRecord) /\ inbound.klines \in Seq(KlineRecord)
  /\ \A i \in 1..Len(inbound.trades) : inbound.trades[i].t <= now
  /\ \A i \in 1..Len(inbound.klines) : inbound.klines[i].b \in 0..CurrentBar
StoreShape ==
  /\ DOMAIN fetch \subseteq 0..CurrentBar /\ \A b \in DOMAIN fetch : fetch[b] \in CandleRecord
  /\ DOMAIN candles \subseteq 0..CurrentBar
FeedShape == ExchangeShape /\ InboundShape /\ StoreShape

StreamRecord == [pc: {"up", "waiting", "opening", "gaveUp"}, attempts: Nat, fails: Nat, down: Nat, drops: Nat]

\* The quotes are at least as old as the trouble with the connection, and the count
\* of attempts is at most one ahead of the refusals.
LinkShape ==
  /\ stream \in StreamRecord
  /\ quotes.age \in Nat /\ quotes = [age |-> quotes.age, current |-> quotes.current, known |-> quotes.known]
  /\ sup = [age |-> sup.age, price |-> sup.price, active |-> sup.active]
  /\ sup.age \in [Providers -> Nat \union {Gone}]
  /\ sup.active \in Providers
LinkTells ==
  /\ Up => stream.down = 0
  /\ ~Up => inbound = Quiet /\ quotes.age >= stream.down /\ sup.age[Primary] = Gone
  /\ sup.age[sup.active] # Gone \/ sup.active = Primary
  /\ stream.attempts <= stream.fails + (IF Up THEN 0 ELSE 1)
  /\ stream.pc = "gaveUp" => stream.fails >= MaxAttempts

\* An end told is of a bar that has ended, as it ended; and what is told of such a
\* bar before its end is followed by it.
EndsHold(told, bars, current) ==
  \A i \in 1..Len(told) :
    /\ told[i].closes => told[i].b < current /\ told[i].c = bars[told[i].b]
    /\ ~told[i].closes /\ told[i].b < current =>
         \E j \in (i + 1)..Len(told) : told[j].b = told[i].b /\ told[j].closes
EndsAreTrue == EndsHold(inbound.klines, exch.bars, CurrentBar)

\* A bar that has ended is in the store as it ended, or its end is on the way, or
\* there is an excuse.
StoreIsTrue ==
  \A b \in DOMAIN candles : Finished(b) /\ b \notin excused /\ ~EndOnTheWay(b) =>
    Sealed(candles[b]) = Sealed(exch.bars[b])

FeedInv == FeedShape /\ LinkShape /\ LinkTells /\ EndsAreTrue /\ StoreIsTrue

\* Where the store has no gap, it has every bar between two of its own.
LEMMA NoGapNoneMissing ==
  ASSUME NEW n \in Nat, DOMAIN candles \subseteq 0..n, ~HasGaps, NEW top \in DOMAIN candles,
         NEW b \in Min(DOMAIN candles)..top
  PROVE  b \in DOMAIN candles
<1> DEFINE D == DOMAIN candles
           missing == {x \in Min(D)..top : x \notin D}
<1> SUFFICES ASSUME missing # {} PROVE FALSE
  OBVIOUS
<1>1. D \subseteq Nat /\ D \subseteq Int /\ D # {} /\ \A x \in D : x <= n
  OBVIOUS
<1>2. Min(D) \in D /\ \A y \in D : Min(D) <= y
  <2> HIDE DEF D
  <2> QED
    BY <1>1, MinOfNaturals
<1>3. Max(D) \in D /\ \A y \in D : Max(D) >= y
  <2> HIDE DEF D
  <2> QED
    BY <1>1, n \in Int, MaxOfBounded
<1>4. PICK m \in missing : \A x \in missing : m <= x
  <2>1. missing \subseteq Nat
    BY <1>1, <1>2
  <2>2. Min(missing) \in missing /\ \A x \in missing : Min(missing) <= x
    <3> HIDE DEF missing
    <3> QED
      BY <2>1, MinOfNaturals
  <2> QED
    BY <2>2
<1> HIDE DEF D
<1>5. m \in Nat /\ m > Min(D) /\ m <= top /\ m \notin D /\ top \in D
  BY <1>1, <1>2 DEF D
<1>6. m - 1 \in D
  <2>1. Min(D) \in Int /\ top \in Int
    BY <1>1, <1>2, <1>5
  <2>2. m - 1 \in Min(D)..top
    BY <1>5, <2>1
  <2>3. m - 1 \notin missing
    BY <1>4, <1>5
  <2> QED
    BY <2>2, <2>3
<1>7. m - 1 # Max(D)
  BY <1>1, <1>3, <1>5
<1>8. (m - 1) + 1 \in D
  BY <1>6, <1>7 DEF HasGaps, D
<1> QED
  BY <1>5, <1>8

\* The invariant says what FeedIsHonest says.
LEMMA FeedInvGives == FeedInv => FeedIsHonest
<1> SUFFICES ASSUME FeedInv PROVE FeedIsHonest
  OBVIOUS
<1> USE DEF FeedInv
<1>1. ASSUME SyncStatus = "SYNCHRONIZED", NEW b \in Min(DOMAIN candles)..Max(Finals)
      PROVE  /\ b \in DOMAIN candles
             /\ Finished(b) /\ b \notin excused /\ ~EndOnTheWay(b) =>
                  Sealed(candles[b]) = Sealed(exch.bars[b])
  <2>1. Finals # {} /\ ~HasGaps
    BY <1>1 DEF SyncStatus
  <2>2. CurrentBar \in Nat /\ DOMAIN candles \subseteq 0..CurrentBar
    <3>1. now \in Nat
      BY DEF FeedShape, ExchangeShape
    <3> QED
      BY <3>1, BarsFollow DEF FeedShape, StoreShape, CurrentBar
  <2>3. Finals \subseteq DOMAIN candles
    BY DEF Finals
  <2>4. Max(Finals) \in DOMAIN candles
    <3>1. Finals \subseteq Int /\ CurrentBar \in Int /\ \A x \in Finals : x <= CurrentBar
      BY <2>2, <2>3
    <3>2. Max(Finals) \in Finals
      BY <2>1, <3>1, MaxOfBounded
    <3> QED
      BY <2>3, <3>2
  <2>5. b \in DOMAIN candles
    BY <2>1, <2>2, <2>4, NoGapNoneMissing
  <2> QED
    BY <2>5 DEF StoreIsTrue
<1>2. ASSUME ~Up, stream.down > MaxAge
      PROVE  Stale /\ BrokerStale /\ HealthOf(sup, Primary) # "HEALTHY"
  <2>1. quotes.age >= stream.down /\ sup.age[Primary] = Gone
    BY <1>2 DEF LinkTells
  <2>2. MaxAge \in Nat /\ stream.down \in Nat /\ quotes.age \in Nat
    BY FeedAssumption DEF LinkShape, StreamRecord
  <2>3. quotes.age >= MaxAge
    BY <1>2, <2>1, <2>2
  <2> QED
    BY <2>1, <2>3 DEF Stale, BrokerStale, HealthOf
<1>3. /\ sup.age[sup.active] # Gone \/ sup.active = Primary
      /\ stream.pc = "gaveUp" => stream.fails >= MaxAttempts
  BY DEF LinkTells
<1> HIDE DEF FeedInv
<1> QED
  BY <1>1, <1>2, <1>3 DEF FeedIsHonest
-----------------------------------------------------------------------------
(* Feed: the first state, and the types *)

\* Before the first message the invariant holds.
LEMMA FeedInitInv == FeedInit => FeedInv
<1> SUFFICES ASSUME FeedInit PROVE FeedInv
  OBVIOUS
<1>1. now = 0 /\ BarLength \in Nat \ {0} /\ MaxTime \in Nat /\ MaxAge \in Nat /\ Prints \subseteq Nat \ {0}
  BY FeedAssumption DEF FeedInit
<1>2. CurrentBar = 0
  BY <1>1 DEF CurrentBar, BarOf
<1>3. PICK p \in Prints : exch = [bars |-> [b \in {0} |-> Single(p)], price |-> p, left |-> MaxTrades, asks |-> 0]
  BY DEF FeedInit
<1>4. Single(p) \in CandleRecord /\ Valid(Single(p))
  BY <1>1, SingleIsValid
<1>5. inbound.trades = <<>> /\ inbound.klines = <<>> /\ inbound = Quiet
  BY DEF FeedInit, Quiet
<1>6. candles \in {<<>>, [b \in {0} |-> Sealed(exch.bars[0])]}
  BY DEF FeedInit
<1>7. DOMAIN candles \subseteq {0}
  BY <1>6
<1>8. 0..CurrentBar = {0}
  BY <1>2
<1>9. FeedShape
  <2>1. exch.bars = [b \in {0} |-> Single(p)] /\ exch.price = p
    BY <1>3
  <2>2. exch.bars \in [0..CurrentBar -> CandleRecord] /\ \A b \in 0..CurrentBar : Valid(exch.bars[b])
    BY <1>4, <1>8, <2>1
  <2>3. exch = [bars |-> exch.bars, price |-> exch.price, left |-> exch.left, asks |-> exch.asks]
    BY <1>3
  <2>4. /\ inbound = [trades |-> inbound.trades, klines |-> inbound.klines]
        /\ inbound.trades \in Seq(TradeRecord) /\ inbound.klines \in Seq(KlineRecord)
        /\ Len(inbound.trades) = 0 /\ Len(inbound.klines) = 0
    BY <1>5 DEF Quiet
  <2>5. fetch = <<>> /\ DOMAIN fetch = {}
    BY DEF FeedInit
  <2> QED
    BY <1>1, <1>3, <1>7, <1>8, <2>1, <2>2, <2>3, <2>4, <2>5
       DEF FeedShape, ExchangeShape, InboundShape, StoreShape
<1>10. LinkShape
  <2>1. /\ quotes.age = (IF candles = <<>> THEN MaxAge + 1 ELSE 0)
        /\ quotes = [age |-> quotes.age, current |-> quotes.current, known |-> quotes.known]
        /\ sup = [age |-> [q \in Providers |-> Gone], price |-> [q \in Providers |-> 0], active |-> Primary]
    BY DEF FeedInit
  <2>2. stream \in StreamRecord
    BY DEF FeedInit, StreamRecord
  <2> QED
    BY <1>1, <2>1, <2>2 DEF LinkShape, Providers
<1>11. LinkTells
  <2>1. /\ quotes.age \in Nat /\ sup.age[Primary] = Gone /\ sup.active = Primary
    BY <1>10 DEF FeedInit, LinkShape, Providers
  <2>2. stream.pc = "opening" /\ stream.attempts = 0 /\ stream.fails = 0 /\ stream.down = 0
    BY DEF FeedInit
  <2> QED
    BY <1>5, <2>1, <2>2 DEF LinkTells, Up
<1>12. EndsAreTrue
  <2>1. Len(inbound.klines) = 0
    BY <1>5
  <2> QED
    BY <2>1 DEF EndsAreTrue, EndsHold
<1>13. StoreIsTrue
  BY <1>2, <1>7 DEF StoreIsTrue, Finished
<1> QED
  BY <1>9, <1>10, <1>11, <1>12, <1>13 DEF FeedInv

\* A candle on its way, if the connection is up.
LEMMA QueueSet ==
  ASSUME NEW t, NEW k, NEW q, NEW r, r = [trades |-> t, klines |-> k]
  PROVE  [r EXCEPT !["klines"] = q] = [trades |-> t, klines |-> q]
  OBVIOUS

\* What the exchange sends of a candle is on its way while the stream is up, and
\* lost while it is not.
LEMMA KlineSent ==
  ASSUME inbound = [trades |-> inbound.trades, klines |-> inbound.klines], NEW m,
         Send("klines", m)
  PROVE  inbound' = IF Up THEN [trades |-> inbound.trades, klines |-> Append(inbound.klines, m)]
                    ELSE inbound
<1> DEFINE q == Append(inbound.klines, m)
<1>1. inbound["klines"] = inbound.klines
  OBVIOUS
<1>2. inbound' = IF Up THEN [inbound EXCEPT !["klines"] = q] ELSE inbound
  BY <1>1 DEF Send
<1>3. [inbound EXCEPT !["klines"] = q] = [trades |-> inbound.trades, klines |-> q]
  <2> DEFINE t == inbound.trades
             k == inbound.klines
  <2>1. inbound = [trades |-> t, klines |-> k]
    OBVIOUS
  <2> HIDE DEF q, t, k
  <2>2. [inbound EXCEPT !["klines"] = q] = [trades |-> t, klines |-> q]
    BY <2>1, QueueSet
  <2> QED
    BY <2>2 DEF t
<1> QED
  BY <1>2, <1>3

\* What a second changes: nothing of the bars, or the current one ends and another
\* begins.
BarEnds ==
  /\ CurrentBar' = CurrentBar + 1
  /\ exch'.bars = [b \in 0..CurrentBar + 1 |-> IF b <= CurrentBar THEN exch.bars[b]
                                              ELSE [Single(exch.price) EXCEPT !.volume = 0]]
  /\ exch' = [bars |-> exch'.bars, price |-> exch.price, left |-> exch.left, asks |-> exch.asks]
  /\ inbound' = IF Up THEN [trades |-> inbound.trades,
                            klines |-> Append(inbound.klines,
                                         [b |-> CurrentBar, c |-> exch.bars[CurrentBar], closes |-> TRUE])]
                ELSE inbound
  /\ excused' = IF Up THEN excused ELSE excused \union {CurrentBar}
BarGoesOn == CurrentBar' = CurrentBar /\ UNCHANGED <<exch, inbound, excused>>

\* A second passes: the bar goes on, or ends and the next begins.
LEMMA SecondIs ==
  ASSUME FeedShape, SecondPasses
  PROVE  /\ CurrentBar \in Nat /\ now' \in 0..MaxTime /\ now <= now'
         /\ BarEnds \/ BarGoesOn
<1>1. now \in 0..MaxTime /\ now \in Nat /\ MaxTime \in Nat
  BY FeedAssumption DEF FeedShape, ExchangeShape
<1>2. now' = IF now = MaxTime THEN now ELSE now + 1
  BY <1>1, ClockStep DEF SecondPasses
<1>3. /\ CurrentBar \in Nat /\ CurrentBar <= CurrentBar' /\ CurrentBar' <= CurrentBar + 1
      /\ CurrentBar' \in Nat
  <2>1. BarOf(now) \in Nat /\ BarOf(now) <= BarOf(now + 1) /\ BarOf(now + 1) <= BarOf(now) + 1
    BY <1>1, BarsFollow
  <2>2. BarOf(now + 1) \in Nat
    BY <1>1, BarsFollow
  <2>3. CASE now' = now
    BY <2>1, <2>3 DEF CurrentBar
  <2>4. CASE now' = now + 1
    BY <2>1, <2>2, <2>4 DEF CurrentBar
  <2> QED
    BY <1>2, <2>3, <2>4
<1>4. CASE BarOf(now') = CurrentBar
  BY <1>1, <1>2, <1>3, <1>4 DEF SecondPasses, BarGoesOn, CurrentBar
<1>5. CASE BarOf(now') # CurrentBar
  <2>1. CurrentBar' # CurrentBar
    BY <1>5 DEF CurrentBar
  <2>2. CurrentBar' = CurrentBar + 1
    BY <1>3, <2>1
  <2>3. /\ exch' = [exch EXCEPT !.bars =
               [b \in 0..CurrentBar + 1 |-> IF b <= CurrentBar THEN @[b]
                                            ELSE [Single(exch.price) EXCEPT !.volume = 0]]]
        /\ Send("klines", [b |-> CurrentBar, c |-> exch.bars[CurrentBar], closes |-> TRUE])
        /\ excused' = IF Up THEN excused ELSE excused \union {CurrentBar}
    BY <1>5 DEF SecondPasses
  <2>4. exch = [bars |-> exch.bars, price |-> exch.price, left |-> exch.left, asks |-> exch.asks]
        /\ inbound = [trades |-> inbound.trades, klines |-> inbound.klines]
    BY DEF FeedShape, ExchangeShape, InboundShape
  <2>5. exch'.bars = [b \in 0..CurrentBar + 1 |-> IF b <= CurrentBar THEN exch.bars[b]
                                              ELSE [Single(exch.price) EXCEPT !.volume = 0]]
    BY <2>3, <2>4
  <2>6. exch' = [bars |-> exch'.bars, price |-> exch.price, left |-> exch.left, asks |-> exch.asks]
    BY <2>3, <2>4
  <2>7. inbound' = IF Up THEN [trades |-> inbound.trades,
                            klines |-> Append(inbound.klines,
                                         [b |-> CurrentBar, c |-> exch.bars[CurrentBar], closes |-> TRUE])]
                ELSE inbound
    BY <2>3, <2>4, KlineSent
  <2> QED
    BY <1>1, <1>2, <1>3, <2>2, <2>3, <2>5, <2>6, <2>7 DEF BarEnds
<1> QED
  BY <1>4, <1>5

\* A step leaves the exchange with one valid candle for each bar so far.
LEMMA ExchangeShapeKept == ASSUME FeedShape, FeedNext PROVE ExchangeShape'
<1> USE DEF FeedShape
<1>0. Prints \subseteq Nat \ {0} /\ CurrentBar \in Nat
  <2>1. now \in Nat
    BY FeedAssumption DEF ExchangeShape
  <2> QED
    BY <2>1, FeedAssumption, BarsFollow DEF CurrentBar
<1>1. CASE UNCHANGED <<now, exch>>
  BY <1>1 DEF ExchangeShape, CurrentBar
<1>2. ASSUME NEW p \in Prints, Trades(p) PROVE ExchangeShape'
  <2> DEFINE e == Extended(exch.bars[CurrentBar], p)
  <2>1. e \in CandleRecord /\ Valid(e)
    BY <1>0, <1>2, ExtendedIsValid DEF ExchangeShape
  <2>2. now' = now /\ CurrentBar' = CurrentBar
    BY <1>2 DEF Trades, CurrentBar
  <2>3. exch' = [bars |-> [exch.bars EXCEPT ![CurrentBar] = e], price |-> p, left |-> exch.left - 1, asks |-> exch.asks]
    <3> DEFINE v == exch.bars
               w == exch.price
               l == exch.left
               a == exch.asks
    <3>1. exch = [bars |-> v, price |-> w, left |-> l, asks |-> a]
      BY DEF ExchangeShape
    <3>2. exch' = [exch EXCEPT !.bars = [v EXCEPT ![CurrentBar] = e], !.price = p, !.left = l - 1]
      BY <1>2 DEF Trades
    <3> HIDE DEF v, w, l, a, e
    <3>3. exch' = [bars |-> [v EXCEPT ![CurrentBar] = e], price |-> p, left |-> l - 1, asks |-> a]
      BY <3>1, <3>2
    <3> QED
      BY <3>3 DEF v, l, a
  <2> HIDE DEF e
  <2> QED
    BY <1>0, <2>1, <2>2, <2>3 DEF ExchangeShape
<1>3. CASE SecondPasses
  <2>1. now' \in 0..MaxTime /\ (BarEnds \/ BarGoesOn)
    BY <1>3, SecondIs
  <2>2. CASE BarGoesOn
    BY <2>1, <2>2 DEF BarGoesOn, ExchangeShape
  <2>3. CASE BarEnds
    <3> DEFINE fresh == [Single(exch.price) EXCEPT !.volume = 0]
    <3>1. fresh \in CandleRecord /\ Valid(fresh)
      <4>1. exch.price \in Nat \ {0}
        BY <1>0 DEF ExchangeShape
      <4> QED
        BY <4>1, SingleIsValid
    <3>2. exch'.bars = [b \in 0..CurrentBar + 1 |-> IF b <= CurrentBar THEN exch.bars[b] ELSE fresh]
          /\ CurrentBar' = CurrentBar + 1 /\ exch'.price = exch.price
          /\ exch' = [bars |-> exch'.bars, price |-> exch'.price, left |-> exch'.left, asks |-> exch'.asks]
      BY <2>3 DEF BarEnds
    <3> HIDE DEF fresh
    <3>3. ASSUME NEW b \in 0..CurrentBar'
          PROVE  exch'.bars[b] \in CandleRecord /\ Valid(exch'.bars[b])
      <4>1. b \in 0..CurrentBar + 1
        BY <3>2
      <4>2. CASE b <= CurrentBar
        BY <1>0, <3>2, <4>1, <4>2 DEF ExchangeShape
      <4>3. CASE ~(b <= CurrentBar)
        BY <3>1, <3>2, <4>1, <4>3
      <4> QED
        BY <4>2, <4>3
    <3>4. exch'.bars \in [0..CurrentBar' -> CandleRecord]
      BY <3>2, <3>3
    <3> QED
      BY <2>1, <3>2, <3>3, <3>4 DEF ExchangeShape
  <2> QED
    BY <2>1, <2>2, <2>3
<1>4. ASSUME NEW b \in DOMAIN exch.bars, FetchServed(b) PROVE ExchangeShape'
  <2>1. now' = now /\ CurrentBar' = CurrentBar
    BY <1>4 DEF FetchServed, CurrentBar
  <2>2. exch' = [bars |-> exch.bars, price |-> exch.price, left |-> exch.left, asks |-> exch.asks + 1]
    <3> DEFINE v == exch.bars
               w == exch.price
               l == exch.left
               a == exch.asks
    <3>1. exch = [bars |-> v, price |-> w, left |-> l, asks |-> a]
      BY DEF ExchangeShape
    <3>2. exch' = [exch EXCEPT !.asks = a + 1]
      BY <1>4 DEF FetchServed
    <3> HIDE DEF v, w, l, a
    <3>3. exch' = [bars |-> v, price |-> w, left |-> l, asks |-> a + 1]
      BY <3>1, <3>2
    <3> QED
      BY <3>3 DEF v, w, l, a
  <2> QED
    BY <2>1, <2>2 DEF ExchangeShape
<1>5. ASSUME NEW late \in BOOLEAN, TakeBook(late) PROVE UNCHANGED <<now, exch>>
  BY <1>5 DEF TakeBook
<1>6. CASE ReportsBar \/ TakeTrade \/ TakeMark \/ TakeKline
  BY <1>1, <1>6 DEF ReportsBar, TakeTrade, TakeMark, TakeKline
<1>7. CASE FetchArrives \/ FetchFails \/ Opens \/ OpenFails \/ Drops \/ Reconnects
  BY <1>1, <1>7 DEF FetchArrives, FetchFails, Opens, OpenFails, Drops, Reconnects
<1> QED
  BY <1>1, <1>2, <1>3, <1>4, <1>5, <1>6, <1>7 DEF FeedNext

\* What is left of a queue, and what it is with one more.
LEMMA TailIs ==
  ASSUME NEW S, NEW q \in Seq(S), q # <<>>
  PROVE  /\ Head(q) = q[1] /\ Head(q) \in S /\ 1 \in 1..Len(q)
         /\ Tail(q) \in Seq(S) /\ Len(Tail(q)) = Len(q) - 1 /\ Len(q) \in Nat
         /\ \A i \in 1..Len(Tail(q)) : i + 1 \in 1..Len(q) /\ Tail(q)[i] = q[i + 1]
<1>1. Len(q) \in Nat /\ Len(q) # 0 /\ \A i \in 1..Len(q) : q[i] \in S
  OBVIOUS
<1>2. /\ Head(q) = q[1] /\ Tail(q) \in Seq(S) /\ Len(Tail(q)) = Len(q) - 1
      /\ \A i \in 1..Len(Tail(q)) : Tail(q)[i] = q[i + 1]
  BY HeadTailProperties
<1> QED
  BY <1>1, <1>2

\* What a sequence is with one more element.
LEMMA AppendedIs ==
  ASSUME NEW S, NEW q \in Seq(S), NEW e \in S
  PROVE  /\ Append(q, e) \in Seq(S) /\ Len(q) \in Nat /\ Len(Append(q, e)) = Len(q) + 1
         /\ \A i \in 1..Len(q) : Append(q, e)[i] = q[i]
         /\ Append(q, e)[Len(q) + 1] = e
  BY AppendProperties

\* What a sequence is with the same element twice more.
LEMMA PairAppendedIs ==
  ASSUME NEW S, NEW q \in Seq(S), NEW e \in S
  PROVE  /\ q \o <<e, e>> \in Seq(S) /\ Len(q) \in Nat /\ Len(q \o <<e, e>>) = Len(q) + 2
         /\ \A i \in 1..Len(q) : (q \o <<e, e>>)[i] = q[i]
         /\ (q \o <<e, e>>)[Len(q) + 1] = e /\ (q \o <<e, e>>)[Len(q) + 2] = e
<1> DEFINE p == <<e, e>>
<1>1. p \in Seq(S) /\ Len(p) = 2 /\ p[1] = e /\ p[2] = e
  OBVIOUS
<1> HIDE DEF p
<1>2. /\ q \o p \in Seq(S) /\ Len(q \o p) = Len(q) + Len(p)
      /\ \A i \in 1..Len(q) + Len(p) : (q \o p)[i] = IF i <= Len(q) THEN q[i] ELSE p[i - Len(q)]
  BY <1>1, ConcatProperties, Zenon
<1>4. Len(q) \in Nat
  OBVIOUS
<1>3. /\ \A i \in 1..Len(q) : (q \o p)[i] = q[i]
      /\ (q \o p)[Len(q) + 1] = e /\ (q \o p)[Len(q) + 2] = e
  BY <1>1, <1>2, <1>4
<1> QED
  BY <1>1, <1>2, <1>3, <1>4 DEF p

\* A step leaves only candles and trades of the exchange on their way.
LEMMA InboundShapeKept == ASSUME FeedShape, FeedNext PROVE InboundShape'
<1> USE DEF FeedShape
<1>0. now \in Nat /\ CurrentBar \in Nat
  <2>1. now \in Nat
    BY FeedAssumption DEF ExchangeShape
  <2> QED
    BY <2>1, FeedAssumption, BarsFollow DEF CurrentBar
<1> DEFINE tr == inbound.trades
           kl == inbound.klines
<1>in. /\ inbound = [trades |-> tr, klines |-> kl] /\ tr \in Seq(TradeRecord) /\ kl \in Seq(KlineRecord)
       /\ \A i \in 1..Len(tr) : tr[i].t <= now
       /\ \A i \in 1..Len(kl) : kl[i].b \in 0..CurrentBar
  BY DEF InboundShape
<1> HIDE DEF tr, kl
<1>a. ASSUME NEW t, NEW k, inbound' = [trades |-> t, klines |-> k],
             t \in Seq(TradeRecord), k \in Seq(KlineRecord),
             \A i \in 1..Len(t) : t[i].t <= now', \A i \in 1..Len(k) : k[i].b \in 0..CurrentBar'
      PROVE  InboundShape'
  BY <1>a DEF InboundShape
<1>1. CASE UNCHANGED <<now, inbound>>
  BY <1>1 DEF InboundShape, CurrentBar
<1>2. ASSUME NEW p \in Prints, Trades(p) PROVE InboundShape'
  <2>1. now' = now /\ CurrentBar' = CurrentBar
    BY <1>2 DEF Trades, CurrentBar
  <2>2. CASE ~Up
    BY <1>1, <1>2, <2>2 DEF Trades
  <2>3. CASE Up
    <3> DEFINE e == [t |-> now, p |-> p]
               t == tr \o <<e, e>>
    <3>1. e \in TradeRecord /\ e.t = now
      BY <1>0 DEF TradeRecord
    <3>2. inbound' = [trades |-> t, klines |-> kl]
      <4>1. inbound' = [inbound EXCEPT !.trades = t]
        BY <1>2, <2>3 DEF Trades, tr
      <4> HIDE DEF t
      <4> QED
        BY <1>in, <4>1
    <3> HIDE DEF e
    <3>3. /\ t \in Seq(TradeRecord) /\ Len(tr) \in Nat /\ Len(t) = Len(tr) + 2
          /\ \A i \in 1..Len(tr) : t[i] = tr[i]
          /\ t[Len(tr) + 1] = e /\ t[Len(tr) + 2] = e
      BY <1>in, <3>1, PairAppendedIs
    <3> HIDE DEF t
    <3>4. ASSUME NEW i \in 1..Len(t) PROVE t[i].t <= now'
      <4>1. i \in 1..Len(tr) \/ i = Len(tr) + 1 \/ i = Len(tr) + 2
        BY <3>3
      <4>2. CASE i \in 1..Len(tr)
        BY <1>in, <2>1, <3>3, <4>2
      <4>3. CASE i = Len(tr) + 1 \/ i = Len(tr) + 2
        <5>1. t[i] = e
          BY <3>3, <4>3
        <5> QED
          BY <1>0, <2>1, <3>1, <5>1
      <4> QED
        BY <4>1, <4>2, <4>3
    <3> QED
      BY <1>a, <1>in, <2>1, <3>2, <3>3, <3>4
  <2> QED
    BY <2>2, <2>3
<1>3. CASE SecondPasses
  <2>1. now <= now' /\ (BarEnds \/ BarGoesOn) /\ now' \in Nat
    BY <1>3, SecondIs, FeedAssumption
  <2>2. \A i \in 1..Len(tr) : tr[i].t <= now'
    <3>1. \A i \in 1..Len(tr) : tr[i].t \in Nat
      <4>1. \A i \in 1..Len(tr) : tr[i] \in TradeRecord
        BY <1>in
      <4> QED
        BY <4>1 DEF TradeRecord
    <3> QED
      BY <1>0, <1>in, <2>1, <3>1
  <2>3. CASE BarGoesOn
    BY <1>a, <1>in, <2>2, <2>3 DEF BarGoesOn
  <2>4. CASE BarEnds
    <3> DEFINE e == [b |-> CurrentBar, c |-> exch.bars[CurrentBar], closes |-> TRUE]
               k == Append(kl, e)
    <3>1. e \in KlineRecord /\ e.b = CurrentBar
      <4>1. exch.bars[CurrentBar] \in CandleRecord
        BY <1>0 DEF ExchangeShape
      <4> QED
        BY <1>0, <4>1 DEF KlineRecord
    <3>2. inbound' = IF Up THEN [trades |-> tr, klines |-> k] ELSE inbound
      BY <2>4 DEF BarEnds, tr, kl
    <3>3. CurrentBar' = CurrentBar + 1
      BY <2>4 DEF BarEnds
    <3>4. \A i \in 1..Len(kl) : kl[i].b \in 0..CurrentBar'
      BY <1>0, <1>in, <3>3
    <3> HIDE DEF e
    <3>5. /\ k \in Seq(KlineRecord) /\ Len(kl) \in Nat /\ Len(k) = Len(kl) + 1
          /\ \A i \in 1..Len(kl) : k[i] = kl[i]
          /\ k[Len(kl) + 1] = e
      BY <1>in, <3>1, AppendedIs
    <3> HIDE DEF k
    <3>6. \A i \in 1..Len(k) : k[i].b \in 0..CurrentBar'
      <4>1. ASSUME NEW i \in 1..Len(k) PROVE k[i].b \in 0..CurrentBar'
        <5>1. CASE i \in 1..Len(kl)
          BY <3>4, <3>5, <5>1
        <5>2. CASE i = Len(kl) + 1
          BY <1>0, <3>1, <3>3, <3>5, <5>2
        <5> QED
          BY <3>5, <5>1, <5>2
      <4> QED
        BY <4>1
    <3>7. CASE Up
      BY <1>a, <1>in, <2>2, <3>2, <3>5, <3>6, <3>7
    <3>8. CASE ~Up
      BY <1>a, <1>in, <2>2, <3>2, <3>4, <3>8
    <3> QED
      BY <3>7, <3>8
  <2> QED
    BY <2>1, <2>3, <2>4
<1>4. CASE ReportsBar
  <2> DEFINE e == [b |-> CurrentBar, c |-> exch.bars[CurrentBar], closes |-> FALSE]
             k == Append(kl, e)
  <2>1. e \in KlineRecord /\ e.b = CurrentBar
    <3>1. exch.bars[CurrentBar] \in CandleRecord
      BY <1>0 DEF ExchangeShape
    <3> QED
      BY <1>0, <3>1 DEF KlineRecord
  <2>2. inbound' = [trades |-> tr, klines |-> k] /\ now' = now /\ CurrentBar' = CurrentBar
    <3>1. Up /\ Send("klines", e) /\ now' = now
      BY <1>4 DEF ReportsBar
    <3> HIDE DEF e
    <3>2. inbound' = [trades |-> tr, klines |-> k]
      BY <1>in, <3>1, KlineSent DEF tr, kl
    <3> QED
      BY <3>1, <3>2 DEF CurrentBar
  <2> HIDE DEF e
  <2>3. /\ k \in Seq(KlineRecord) /\ Len(kl) \in Nat /\ Len(k) = Len(kl) + 1
        /\ \A i \in 1..Len(kl) : k[i] = kl[i]
        /\ k[Len(kl) + 1] = e
    BY <1>in, <2>1, AppendedIs
  <2> HIDE DEF k
  <2>4. \A i \in 1..Len(k) : k[i].b \in 0..CurrentBar'
    <3>1. ASSUME NEW i \in 1..Len(k) PROVE k[i].b \in 0..CurrentBar'
      <4>1. CASE i \in 1..Len(kl)
        BY <1>in, <2>2, <2>3, <4>1
      <4>2. CASE i = Len(kl) + 1
        BY <1>0, <2>1, <2>2, <2>3, <4>2
      <4> QED
        BY <2>3, <4>1, <4>2
    <3> QED
      BY <3>1
  <2> QED
    BY <1>a, <1>in, <2>2, <2>3, <2>4
<1>5. CASE TakeTrade
  <2> DEFINE t == Tail(tr)
  <2>1. tr # <<>> /\ now' = now /\ CurrentBar' = CurrentBar
    BY <1>5 DEF TakeTrade, CurrentBar, tr
  <2>2. inbound' = [trades |-> t, klines |-> kl]
    <3>1. inbound' = [inbound EXCEPT !.trades = t]
      BY <1>5 DEF TakeTrade, tr
    <3> HIDE DEF t
    <3> QED
      BY <1>in, <3>1
  <2>3. t \in Seq(TradeRecord) /\ \A i \in 1..Len(t) : i + 1 \in 1..Len(tr) /\ t[i] = tr[i + 1]
    BY <1>in, <2>1, TailIs
  <2> HIDE DEF t
  <2> QED
    BY <1>a, <1>in, <2>1, <2>2, <2>3
<1>6. CASE TakeKline
  <2> DEFINE k == Tail(kl)
  <2>1. kl # <<>> /\ now' = now /\ CurrentBar' = CurrentBar
    BY <1>6 DEF TakeKline, CurrentBar, kl
  <2>2. inbound' = [trades |-> tr, klines |-> k]
    <3>1. inbound' = [inbound EXCEPT !.klines = k]
      BY <1>6 DEF TakeKline, kl
    <3> HIDE DEF k
    <3> QED
      BY <1>in, <3>1
  <2>3. k \in Seq(KlineRecord) /\ \A i \in 1..Len(k) : i + 1 \in 1..Len(kl) /\ k[i] = kl[i + 1]
    BY <1>in, <2>1, TailIs
  <2> HIDE DEF k
  <2> QED
    BY <1>a, <1>in, <2>1, <2>2, <2>3
<1>7. CASE Drops
  <2>1. inbound' = [trades |-> <<>>, klines |-> <<>>]
    BY <1>7 DEF Drops, Quiet
  <2> DEFINE q == <<>>
  <2>2. q \in Seq(TradeRecord) /\ q \in Seq(KlineRecord) /\ Len(q) = 0
    OBVIOUS
  <2>3. inbound' = [trades |-> q, klines |-> q]
    BY <2>1
  <2> HIDE DEF q
  <2>4. (\A i \in 1..Len(q) : q[i].t <= now') /\ \A i \in 1..Len(q) : q[i].b \in 0..CurrentBar'
    BY <2>2
  <2> QED
    BY <1>a, <2>2, <2>3, <2>4
<1>8. ASSUME NEW late \in BOOLEAN, TakeBook(late) PROVE UNCHANGED <<now, inbound>>
  BY <1>8 DEF TakeBook
<1>9. ASSUME NEW b \in DOMAIN exch.bars, FetchServed(b) PROVE UNCHANGED <<now, inbound>>
  BY <1>9 DEF FetchServed
<1>10. CASE TakeMark \/ FetchArrives \/ FetchFails \/ Opens \/ OpenFails \/ Reconnects
  BY <1>1, <1>10 DEF TakeMark, FetchArrives, FetchFails, Opens, OpenFails, Reconnects
<1> QED
  BY <1>1, <1>2, <1>3, <1>4, <1>5, <1>6, <1>7, <1>8, <1>9, <1>10 DEF FeedNext

\* A step leaves candles only of bars that have begun, in the store and in a fetch.
LEMMA StoreShapeKept == ASSUME FeedShape, FeedNext PROVE StoreShape'
<1> USE DEF FeedShape
<1>0. now \in Nat /\ CurrentBar \in Nat
  <2>1. now \in Nat
    BY FeedAssumption DEF ExchangeShape
  <2> QED
    BY <2>1, FeedAssumption, BarsFollow DEF CurrentBar
<1>1. CASE UNCHANGED <<now, fetch, candles>>
  BY <1>1 DEF StoreShape, CurrentBar
<1>2. CASE SecondPasses
  <2>1. CurrentBar' = CurrentBar \/ CurrentBar' = CurrentBar + 1
    BY <1>2, SecondIs DEF BarEnds, BarGoesOn
  <2>2. 0..CurrentBar \subseteq 0..CurrentBar' /\ UNCHANGED <<fetch, candles>>
    BY <1>0, <1>2, <2>1 DEF SecondPasses
  <2> QED
    BY <2>2 DEF StoreShape
<1>3. CASE TakeTrade
  <2> DEFINE m == Head(inbound.trades)
  <2>1. m = inbound.trades[1] /\ m \in TradeRecord /\ 1 \in 1..Len(inbound.trades)
    BY <1>3, TailIs DEF TakeTrade, InboundShape
  <2>2. m.t \in Nat /\ m.t <= now
    BY <2>1 DEF InboundShape, TradeRecord
  <2>3. now' = now /\ CurrentBar' = CurrentBar /\ fetch' = fetch /\ candles' = ApplyTick(candles, m.t, m.p)
    BY <1>3 DEF TakeTrade, CurrentBar
  <2> HIDE DEF m
  <2>4. BarOf(m.t) \in 0..CurrentBar
    BY <1>0, <2>2, BarsInOrder DEF CurrentBar
  <2>5. DOMAIN candles' \subseteq DOMAIN candles \union {BarOf(m.t)}
    BY <2>3, TickChangesOne
  <2> QED
    BY <2>3, <2>4, <2>5 DEF StoreShape
<1>4. CASE TakeKline
  <2> DEFINE m == Head(inbound.klines)
  <2>1. m = inbound.klines[1] /\ 1 \in 1..Len(inbound.klines)
    BY <1>4, TailIs DEF TakeKline, InboundShape
  <2>2. m.b \in 0..CurrentBar
    BY <2>1 DEF InboundShape
  <2>3. now' = now /\ CurrentBar' = CurrentBar /\ fetch' = fetch /\ candles' = Upsert(candles, m.b, m.c)
    BY <1>4 DEF TakeKline, CurrentBar
  <2> HIDE DEF m
  <2>4. DOMAIN candles' \subseteq DOMAIN candles \union {m.b}
    BY <2>3, UpsertChangesOne
  <2> QED
    BY <2>2, <2>3, <2>4 DEF StoreShape
<1>5. ASSUME NEW b \in DOMAIN exch.bars, FetchServed(b) PROVE StoreShape'
  <2>1. now' = now /\ CurrentBar' = CurrentBar /\ candles' = candles
        /\ fetch' = [x \in 0..b |-> Sealed(exch.bars[x])]
    BY <1>5 DEF FetchServed, CurrentBar
  <2>2. DOMAIN exch.bars = 0..CurrentBar /\ 0..b \subseteq 0..CurrentBar
    BY <1>0 DEF ExchangeShape
  <2>3. \A x \in 0..b : Sealed(exch.bars[x]) \in CandleRecord
    BY <2>2, SealedIs DEF ExchangeShape
  <2> QED
    BY <2>1, <2>2, <2>3 DEF StoreShape
<1>6. CASE FetchArrives
  <2>1. now' = now /\ CurrentBar' = CurrentBar /\ fetch' = <<>>
        /\ DOMAIN candles' = Kept(DOMAIN candles \union DOMAIN fetch)
    BY <1>6 DEF FetchArrives, CurrentBar
  <2>2. Kept(DOMAIN candles \union DOMAIN fetch) \subseteq DOMAIN candles \union DOMAIN fetch
    BY DEF Kept
  <2> DEFINE none == <<>>
  <2>3. DOMAIN none = {} /\ fetch' = none
    BY <2>1
  <2> HIDE DEF none
  <2> QED
    BY <2>1, <2>2, <2>3 DEF StoreShape
<1>7. CASE FetchFails
  BY <1>7 DEF FetchFails, StoreShape, CurrentBar
<1>8. ASSUME NEW late \in BOOLEAN, TakeBook(late) PROVE UNCHANGED <<now, fetch, candles>>
  BY <1>8 DEF TakeBook
<1>9. ASSUME NEW p \in Prints, Trades(p) PROVE UNCHANGED <<now, fetch, candles>>
  BY <1>9 DEF Trades
<1>10. CASE ReportsBar \/ TakeMark \/ Opens \/ OpenFails \/ Drops \/ Reconnects
  BY <1>1, <1>10 DEF ReportsBar, TakeMark, Opens, OpenFails, Drops, Reconnects
<1> QED
  BY <1>1, <1>2, <1>3, <1>4, <1>5, <1>6, <1>7, <1>8, <1>9, <1>10 DEF FeedNext
-----------------------------------------------------------------------------
(* Feed: the connection, the quotes and the supervisor *)

\* A tick leaves a provider's clock at nothing, and moves to a provider that ticks.
LEMMA TickedIs ==
  ASSUME LinkShape, NEW p \in Providers, NEW price, NEW t, t = ProcessTick(p, price)
  PROVE  /\ t = [age |-> t.age, price |-> t.price, active |-> t.active]
         /\ t.age = [sup.age EXCEPT ![p] = 0] /\ t.age \in [Providers -> Nat \union {Gone}]
         /\ t.active \in Providers
         /\ t.active = sup.active \/ t.active = Primary \/ t.age[t.active] # Gone
<1> DEFINE a == sup.age
           c == sup.price
           v == sup.active
           s == [sup EXCEPT !.age[p] = 0, !.price[p] = price]
<1>1. sup = [age |-> a, price |-> c, active |-> v] /\ a \in [Providers -> Nat \union {Gone}] /\ v \in Providers
  BY DEF LinkShape
<1>2. s = [age |-> [a EXCEPT ![p] = 0], price |-> [c EXCEPT ![p] = price], active |-> v]
  <2> DEFINE d == [a EXCEPT ![p] = 0]
             e == [c EXCEPT ![p] = price]
  <2>1. s = [sup EXCEPT !.age = d, !.price = e]
    OBVIOUS
  <2> HIDE DEF a, c, v, d, e, s
  <2>2. s = [age |-> d, price |-> e, active |-> v]
    BY <1>1, <2>1
  <2> QED
    BY <2>2 DEF d, e
<1> DEFINE after == IF s.active = Primary /\ HealthOf(s, Primary) # "HEALTHY"
                       /\ HealthOf(s, Fallback) = "HEALTHY" /\ ~Divergent(s) THEN Fallback
                    ELSE IF s.active = Fallback /\ HealthOf(s, Primary) = "HEALTHY" THEN Primary
                    ELSE s.active
<1>3. t = [s EXCEPT !.active = after]
  BY DEF ProcessTick
<1>4. after = v \/ after = Primary \/ (after = Fallback /\ s.age[Fallback] # Gone)
  <2>1. HealthOf(s, Fallback) = "HEALTHY" => s.age[Fallback] # Gone
    BY DEF HealthOf
  <2>2. s.active = v
    BY <1>2
  <2> HIDE DEF s, v
  <2> QED
    BY <2>1, <2>2
<1>5. after \in Providers
  <2> HIDE DEF s, after
  <2> QED
    BY <1>1, <1>4 DEF Providers
<1> HIDE DEF after
<1>6. t = [age |-> [a EXCEPT ![p] = 0], price |-> [c EXCEPT ![p] = price], active |-> after]
  BY <1>2, <1>3
<1>7. s.age = [a EXCEPT ![p] = 0]
  BY <1>2
<1> HIDE DEF s, a, c, v
<1>8. [a EXCEPT ![p] = 0] \in [Providers -> Nat \union {Gone}]
  BY <1>1
<1> QED
  BY <1>1, <1>4, <1>5, <1>6, <1>7, <1>8 DEF a, v

\* What closes asks once more, or has asked often enough.
LEMMA ClosedIs ==
  ASSUME NEW s \in StreamRecord, NEW r, r = StreamClosed(s)
  PROVE  /\ r \in StreamRecord /\ r.pc \in {"waiting", "gaveUp"} /\ r.fails = s.fails /\ r.down = s.down
         /\ r.pc = "gaveUp" => r.attempts = s.attempts /\ s.attempts >= MaxAttempts
         /\ r.pc = "waiting" => r.attempts = s.attempts + 1
<1>1. s.attempts \in Nat /\ MaxAttempts \in Nat
  BY FeedAssumption DEF StreamRecord
<1>2. CASE s.attempts >= MaxAttempts
  BY <1>1, <1>2 DEF StreamClosed, StreamRecord
<1>3. CASE ~(s.attempts >= MaxAttempts)
  <2>1. r = [s EXCEPT !.pc = "waiting", !.attempts = s.attempts + 1]
    BY <1>3 DEF StreamClosed
  <2>2. s.attempts + 1 \in Nat
    BY <1>1
  <2> QED
    BY <2>1, <2>2 DEF StreamRecord
<1> QED
  BY <1>2, <1>3

\* What one step makes of the connection, the quotes and the supervisor, from what
\* each of the three becomes.
LEMMA LinkFrom ==
  ASSUME stream' \in StreamRecord, NEW age \in Nat, NEW cu, NEW kn,
         quotes' = [age |-> age, current |-> cu, known |-> kn],
         NEW ages \in [Providers -> Nat \union {Gone}], NEW pr, NEW ac \in Providers,
         sup' = [age |-> ages, price |-> pr, active |-> ac],
         stream'.pc = "up" => stream'.down = 0,
         stream'.pc # "up" => inbound' = Quiet /\ age >= stream'.down /\ ages[Primary] = Gone,
         ages[ac] # Gone \/ ac = Primary,
         stream'.attempts <= stream'.fails + (IF stream'.pc = "up" THEN 0 ELSE 1),
         stream'.pc = "gaveUp" => stream'.fails >= MaxAttempts
  PROVE  LinkShape' /\ LinkTells'
<1>1. LinkShape'
  BY DEF LinkShape, StreamRecord
<1>2. quotes'.age = age /\ sup'.age = ages /\ sup'.active = ac
  OBVIOUS
<1>3. LinkTells'
  BY <1>2 DEF LinkTells, Up
<1> QED
  BY <1>1, <1>3

\* A step keeps what the supervisor says of the link true of the link.
LEMMA LinkKept ==
  ASSUME FeedShape, LinkShape, LinkTells, FeedNext
  PROVE  LinkShape' /\ LinkTells'
<1> DEFINE ages == sup.age
           age == quotes.age
           cu == quotes.current
           kn == quotes.known
           pr == sup.price
           ac == sup.active
<1>in. /\ stream \in StreamRecord /\ age \in Nat /\ quotes = [age |-> age, current |-> cu, known |-> kn]
       /\ sup = [age |-> ages, price |-> pr, active |-> ac]
       /\ ages \in [Providers -> Nat \union {Gone}] /\ ac \in Providers
  BY DEF LinkShape
<1>tells. /\ Up => stream.down = 0
          /\ ~Up => inbound = Quiet /\ age >= stream.down /\ ages[Primary] = Gone
          /\ ages[ac] # Gone \/ ac = Primary
          /\ stream.attempts <= stream.fails + (IF Up THEN 0 ELSE 1)
          /\ stream.pc = "gaveUp" => stream.fails >= MaxAttempts
  BY DEF LinkTells
<1>max. MaxAttempts \in Nat /\ MaxAge \in Nat /\ Primary \in Providers /\ Gone \notin Nat
  BY FeedAssumption DEF Providers, Gone
<1>st. /\ stream.attempts \in Nat /\ stream.fails \in Nat /\ stream.down \in Nat /\ stream.drops \in Nat
       /\ stream.pc \in {"up", "waiting", "opening", "gaveUp"}
  BY <1>in DEF StreamRecord
<1> HIDE DEF ages, age, cu, kn, pr, ac
<1>1. ASSUME UNCHANGED <<stream, sup>>, ~Up => inbound' = inbound, NEW g \in Nat, NEW q, NEW k,
             quotes' = [age |-> g, current |-> q, known |-> k], Up \/ g = age
      PROVE  LinkShape' /\ LinkTells'
  BY <1>in, <1>tells, <1>1, LinkFrom DEF Up
<1>2. CASE UNCHANGED <<stream, sup, quotes>> /\ (~Up => inbound' = inbound)
  BY <1>1, <1>2, <1>in
<1>3. ASSUME NEW p \in Prints, Trades(p) PROVE LinkShape' /\ LinkTells'
  BY <1>2, <1>3 DEF Trades
<1>4. CASE ReportsBar
  BY <1>2, <1>4 DEF ReportsBar
<1>5. ASSUME TakeTrade \/ TakeKline PROVE Up
  <2>1. CASE TakeTrade
    BY <1>tells, <2>1 DEF TakeTrade, Quiet
  <2>2. CASE TakeKline
    BY <1>tells, <2>2 DEF TakeKline, Quiet
  <2> QED
    BY <1>5, <2>1, <2>2
<1>6. CASE TakeTrade
  BY <1>1, <1>5, <1>6 DEF TakeTrade, Heard
<1>7. CASE TakeKline
  BY <1>2, <1>5, <1>7 DEF TakeKline
<1>8. CASE TakeMark
  BY <1>1, <1>8 DEF TakeMark, Heard
<1>9. ASSUME NEW late \in BOOLEAN, TakeBook(late) PROVE LinkShape' /\ LinkTells'
  <2>1. Up /\ stream' = stream /\ sup' = ProcessTick(Primary, exch.price)
    BY <1>9 DEF TakeBook
  <2>2. PICK g, q, k : g \in Nat /\ quotes' = [age |-> g, current |-> q, known |-> k]
    <3>1. CASE quotes' = quotes
      BY <1>in, <3>1
    <3>2. CASE quotes' = Heard(IF late THEN now - 1 ELSE now, {"book"})
      BY <3>2 DEF Heard
    <3> QED
      BY <1>9, <3>1, <3>2 DEF TakeBook
  <2>3. /\ sup' = [age |-> sup'.age, price |-> sup'.price, active |-> sup'.active]
        /\ sup'.age \in [Providers -> Nat \union {Gone}] /\ sup'.active \in Providers
        /\ sup'.age = [ages EXCEPT ![Primary] = 0]
        /\ sup'.active = ac \/ sup'.active = Primary \/ sup'.age[sup'.active] # Gone
    BY <1>max, <2>1, TickedIs DEF ages, ac
  <2>4. sup'.age[sup'.active] # Gone \/ sup'.active = Primary
    BY <1>in, <1>tells, <1>max, <2>3
  <2> DEFINE b == sup'.age
             d == sup'.price
             e == sup'.active
  <2>5. /\ sup' = [age |-> b, price |-> d, active |-> e] /\ b \in [Providers -> Nat \union {Gone}]
        /\ e \in Providers /\ (b[e] # Gone \/ e = Primary)
    BY <2>3, <2>4
  <2> HIDE DEF b, d, e
  <2> QED
    BY <1>in, <1>tells, <2>1, <2>2, <2>5, LinkFrom DEF Up
<1>10. CASE SecondPasses
  <2>1. ~Up => inbound' = inbound
    BY <1>10, SecondIs DEF BarEnds, BarGoesOn
  <2>2. quotes' = [age |-> Older(age), current |-> FALSE, known |-> kn] /\ Older(age) \in Nat
    <3>1. quotes' = [quotes EXCEPT !.age = Older(age), !.current = FALSE]
      BY <1>10 DEF SecondPasses, age
    <3> QED
      BY <1>in, <3>1, OlderIs
  <2> DEFINE b == [p \in Providers |-> IF ages[p] = Gone THEN Gone ELSE Older(ages[p])]
  <2>3. sup' = [age |-> b, price |-> pr, active |-> ac]
    <3>1. sup' = [sup EXCEPT !.age = b]
      BY <1>10 DEF SecondPasses, ages
    <3> HIDE DEF b
    <3> QED
      BY <1>in, <3>1
  <2>4. b \in [Providers -> Nat \union {Gone}] /\ b[Primary] = (IF ages[Primary] = Gone THEN Gone ELSE Older(ages[Primary]))
        /\ (b[ac] # Gone \/ ac = Primary)
    <3>1. \A p \in Providers : ages[p] # Gone => Older(ages[p]) \in Nat
      BY <1>in, OlderIs
    <3> QED
      BY <1>in, <1>tells, <1>max, <3>1
  <2> HIDE DEF b
  <2>5. stream' = [stream EXCEPT !.down = IF Up THEN 0 ELSE Older(stream.down)]
    BY <1>10 DEF SecondPasses
  <2>6. Older(stream.down) \in Nat /\ (age >= stream.down => Older(age) >= Older(stream.down))
    BY <1>in, <1>st, <1>max, OlderIs
  <2>7. stream' \in StreamRecord /\ stream'.pc = stream.pc /\ stream'.attempts = stream.attempts
        /\ stream'.fails = stream.fails /\ stream'.down = IF Up THEN 0 ELSE Older(stream.down)
    BY <1>in, <2>5, <2>6 DEF StreamRecord
  <2> QED
    BY <1>in, <1>tells, <2>1, <2>2, <2>3, <2>4, <2>6, <2>7, LinkFrom DEF Up
<1>11. CASE Opens
  <2>1. stream' = [stream EXCEPT !.pc = "up", !.attempts = 0, !.fails = 0, !.down = 0] /\ UNCHANGED <<quotes, sup>>
    BY <1>11 DEF Opens, StreamOpened
  <2>2. stream' \in StreamRecord /\ stream'.pc = "up" /\ stream'.down = 0 /\ stream'.attempts = 0 /\ stream'.fails = 0
    BY <1>in, <2>1 DEF StreamRecord
  <2> QED
    BY <1>in, <1>tells, <2>1, <2>2, LinkFrom
<1>12. CASE OpenFails \/ Drops
  <2> DEFINE b == [ages EXCEPT ![Primary] = Gone]
  <2>1. /\ sup' = [age |-> b, price |-> pr, active |-> ac] /\ quotes' = quotes
        /\ b \in [Providers -> Nat \union {Gone}] /\ b[Primary] = Gone
        /\ (b[ac] # Gone \/ ac = Primary)
    <3>1. sup' = [sup EXCEPT !.age = b] /\ quotes' = quotes
      BY <1>12 DEF OpenFails, Drops, Disconnected, ages
    <3>2. sup' = [age |-> b, price |-> pr, active |-> ac]
      <4> HIDE DEF b
      <4> QED
        BY <1>in, <3>1
    <3> QED
      BY <1>in, <1>tells, <1>max, <3>1, <3>2
  <2> HIDE DEF b
  <2>2. PICK s \in StreamRecord :
          /\ stream' = StreamClosed(s) /\ s.attempts = stream.attempts /\ s.down = stream.down
          /\ s.fails = stream.fails + (IF Up THEN 0 ELSE 1)
    <3>1. CASE OpenFails
      <4> DEFINE s == [stream EXCEPT !.fails = stream.fails + 1]
      <4>1. s \in StreamRecord /\ s.attempts = stream.attempts /\ s.down = stream.down
            /\ s.fails = stream.fails + 1
        BY <1>in, <1>st DEF StreamRecord
      <4>2. stream' = StreamClosed(s) /\ ~Up
        BY <3>1 DEF OpenFails, Up
      <4> QED
        BY <4>1, <4>2
    <3>2. CASE Drops
      <4> DEFINE s == [stream EXCEPT !.drops = stream.drops + 1]
      <4>1. s \in StreamRecord /\ s.attempts = stream.attempts /\ s.down = stream.down
            /\ s.fails = stream.fails
        BY <1>in, <1>st DEF StreamRecord
      <4>2. stream' = StreamClosed(s) /\ Up
        BY <3>2 DEF Drops
      <4> HIDE DEF s
      <4> QED
        BY <1>st, <4>1, <4>2
    <3> QED
      BY <1>12, <3>1, <3>2
  <2>3. inbound' = Quiet
    BY <1>12, <1>tells DEF OpenFails, Drops, Up
  <2>4. /\ stream' \in StreamRecord /\ stream'.pc \in {"waiting", "gaveUp"}
        /\ stream'.fails = s.fails /\ stream'.down = s.down
        /\ stream'.pc = "gaveUp" => stream'.attempts = s.attempts /\ s.attempts >= MaxAttempts
        /\ stream'.pc = "waiting" => stream'.attempts = s.attempts + 1
    BY <2>2, ClosedIs
  <2>5. stream'.pc # "up"
    BY <2>4
  <2>6. age >= stream'.down
    BY <1>in, <1>tells, <2>2, <2>4
  <2>7. /\ stream'.attempts <= stream'.fails + 1
        /\ stream'.pc = "gaveUp" => stream'.fails >= MaxAttempts
    BY <1>st, <1>tells, <1>max, <2>2, <2>4
  <2> QED
    BY <1>in, <2>1, <2>3, <2>4, <2>5, <2>6, <2>7, LinkFrom
<1>13. CASE Reconnects
  <2>1. stream' = [stream EXCEPT !.pc = "opening"] /\ UNCHANGED <<quotes, sup, inbound>> /\ stream.pc = "waiting"
    BY <1>13 DEF Reconnects
  <2>2. stream' \in StreamRecord /\ stream'.pc = "opening" /\ stream'.down = stream.down
        /\ stream'.attempts = stream.attempts /\ stream'.fails = stream.fails
    BY <1>in, <2>1 DEF StreamRecord
  <2> QED
    BY <1>in, <1>tells, <2>1, <2>2, LinkFrom DEF Up
<1>14. ASSUME NEW b \in DOMAIN exch.bars, FetchServed(b) PROVE LinkShape' /\ LinkTells'
  BY <1>2, <1>14 DEF FetchServed
<1>15. CASE FetchArrives \/ FetchFails
  BY <1>2, <1>15 DEF FetchArrives, FetchFails
<1> QED
  BY <1>3, <1>4, <1>6, <1>7, <1>8, <1>9, <1>10, <1>11, <1>12, <1>13, <1>14, <1>15 DEF FeedNext
-----------------------------------------------------------------------------
(* Feed: the ends of the bars *)

\* One more report, or an end, is told.
LEMMA EndsWithOneMore ==
  ASSUME NEW told \in Seq(KlineRecord), NEW bars, NEW current \in Nat, EndsHold(told, bars, current),
         NEW m \in KlineRecord, m.b = current, NEW next \in Nat, NEW after,
         \A b \in 0..current : b < current \/ next # current => after[b] = bars[b],
         IF m.closes THEN next = current + 1 /\ m.c = bars[current]
         ELSE next = current /\ told = <<>>
  PROVE  EndsHold(Append(told, m), after, next)
<1> DEFINE k == Append(told, m)
<1>1. /\ k \in Seq(KlineRecord) /\ Len(told) \in Nat /\ Len(k) = Len(told) + 1
      /\ \A i \in 1..Len(told) : k[i] = told[i]
      /\ k[Len(told) + 1] = m
  BY AppendedIs
<1>2. \A i \in 1..Len(told) : told[i].b \in Nat
  <2>1. \A i \in 1..Len(told) : told[i] \in KlineRecord
    OBVIOUS
  <2> QED
    BY <2>1 DEF KlineRecord
<1> HIDE DEF k
<1>3. ASSUME NEW i \in 1..Len(k)
      PROVE  /\ k[i].closes => k[i].b < next /\ k[i].c = after[k[i].b]
             /\ ~k[i].closes /\ k[i].b < next =>
                  \E j \in (i + 1)..Len(k) : k[j].b = k[i].b /\ k[j].closes
  <2>1. CASE i \in 1..Len(told)
    <3>1. k[i] = told[i] /\ told[i].b \in Nat /\ m.closes /\ next = current + 1
      BY <1>1, <1>2, <2>1
    <3>2. told[i].closes => told[i].b < current /\ told[i].c = bars[told[i].b]
      BY <2>1 DEF EndsHold
    <3>3. ASSUME told[i].closes PROVE told[i].b < next /\ told[i].c = after[told[i].b]
      BY <3>1, <3>2, <3>3
    <3>4. ASSUME ~told[i].closes, told[i].b < next
          PROVE  \E j \in (i + 1)..Len(k) : k[j].b = told[i].b /\ k[j].closes
      <4>1. CASE told[i].b < current
        <5>1. PICK j \in (i + 1)..Len(told) : told[j].b = told[i].b /\ told[j].closes
          BY <2>1, <3>4, <4>1 DEF EndsHold
        <5>2. j \in (i + 1)..Len(k) /\ k[j] = told[j]
          BY <1>1, <2>1, <5>1
        <5> QED
          BY <5>1, <5>2
      <4>2. CASE told[i].b = current
        <5>1. Len(told) + 1 \in (i + 1)..Len(k)
          BY <1>1, <2>1
        <5> QED
          BY <1>1, <3>1, <4>2, <5>1
      <4> QED
        BY <3>1, <3>4, <4>1, <4>2
    <3> QED
      BY <3>1, <3>3, <3>4
  <2>2. CASE i = Len(told) + 1
    <3>1. k[i] = m
      BY <1>1, <2>2
    <3>2. CASE m.closes
      BY <3>1, <3>2
    <3>3. CASE ~m.closes
      BY <3>1, <3>3
    <3> QED
      BY <3>2, <3>3
  <2> QED
    BY <1>1, <2>1, <2>2
<1> QED
  BY <1>3 DEF EndsHold, k

\* Without the first of the messages, the others still tell the truth of the bars
\* that have ended.
LEMMA EndsWithoutFirst ==
  ASSUME NEW told \in Seq(KlineRecord), told # <<>>, NEW bars, NEW current, EndsHold(told, bars, current)
  PROVE  EndsHold(Tail(told), bars, current)
<1> DEFINE k == Tail(told)
<1>1. /\ Len(k) = Len(told) - 1 /\ Len(told) \in Nat
      /\ \A i \in 1..Len(k) : i + 1 \in 1..Len(told) /\ k[i] = told[i + 1]
  BY TailIs
<1> HIDE DEF k
<1>2. ASSUME NEW i \in 1..Len(k)
      PROVE  /\ k[i].closes => k[i].b < current /\ k[i].c = bars[k[i].b]
             /\ ~k[i].closes /\ k[i].b < current =>
                  \E j \in (i + 1)..Len(k) : k[j].b = k[i].b /\ k[j].closes
  <2>1. i + 1 \in 1..Len(told) /\ k[i] = told[i + 1]
    BY <1>1
  <2>2. k[i].closes => k[i].b < current /\ k[i].c = bars[k[i].b]
    BY <2>1 DEF EndsHold
  <2>3. ASSUME ~k[i].closes, k[i].b < current
        PROVE  \E j \in (i + 1)..Len(k) : k[j].b = k[i].b /\ k[j].closes
    <3>1. PICK j \in ((i + 1) + 1)..Len(told) : told[j].b = told[i + 1].b /\ told[j].closes
      BY <2>1, <2>3 DEF EndsHold
    <3>2. j - 1 \in (i + 1)..Len(k)
      BY <1>1, <3>1
    <3>3. k[j - 1] = told[j]
      <4>1. j - 1 \in 1..Len(k) /\ (j - 1) + 1 = j
        BY <1>1, <3>1
      <4> QED
        BY <1>1, <4>1
    <3> QED
      BY <2>1, <3>1, <3>2, <3>3
  <2> QED
    BY <2>2, <2>3
<1> QED
  BY <1>2 DEF EndsHold, k

\* Only the current bar is still changed.
LEMMA EndsOfTheCurrent ==
  ASSUME NEW told \in Seq(KlineRecord), NEW bars, NEW current \in Nat, EndsHold(told, bars, current),
         NEW after, \A b \in 0..current : b < current => after[b] = bars[b]
  PROVE  EndsHold(told, after, current)
<1>1. \A i \in 1..Len(told) : told[i].b \in Nat
  <2>1. \A i \in 1..Len(told) : told[i] \in KlineRecord
    OBVIOUS
  <2> QED
    BY <2>1 DEF KlineRecord
<1> QED
  BY <1>1 DEF EndsHold

\* A step leaves only messages on their way that tell the truth of a bar's end.
LEMMA EndsKept ==
  ASSUME FeedShape, LinkTells, EndsAreTrue, FeedNext
  PROVE  EndsAreTrue'
<1> DEFINE kl == inbound.klines
<1>0. /\ now \in Nat /\ CurrentBar \in Nat /\ kl \in Seq(KlineRecord)
      /\ exch.bars \in [0..CurrentBar -> CandleRecord]
      /\ inbound = [trades |-> inbound.trades, klines |-> kl] /\ EndsHold(kl, exch.bars, CurrentBar)
  <2>1. now \in Nat
    BY FeedAssumption DEF FeedShape, ExchangeShape
  <2> QED
    BY <2>1, FeedAssumption, BarsFollow DEF CurrentBar, FeedShape, ExchangeShape, InboundShape, EndsAreTrue
<1>1. CASE now' = now /\ inbound'.klines = kl /\ exch'.bars = exch.bars
  BY <1>0, <1>1 DEF EndsAreTrue, CurrentBar
<1>2. ASSUME NEW p \in Prints, Trades(p) PROVE EndsAreTrue'
  <2>1. CurrentBar' = CurrentBar /\ inbound'.klines = kl
    BY <1>0, <1>2 DEF Trades, CurrentBar
  <2>2. exch'.bars = [exch.bars EXCEPT ![CurrentBar] = Extended(exch.bars[CurrentBar], p)]
    BY <1>2 DEF Trades, FeedShape, ExchangeShape
  <2>3. \A b \in 0..CurrentBar : b < CurrentBar => exch'.bars[b] = exch.bars[b]
    BY <1>0, <2>2
  <2> DEFINE after == exch'.bars
  <2> HIDE DEF kl, after
  <2>4. EndsHold(kl, after, CurrentBar)
    BY <1>0, <2>3, EndsOfTheCurrent DEF after
  <2> QED
    BY <2>1, <2>4 DEF EndsAreTrue, after
<1>3. CASE SecondPasses
  <2>1. BarEnds \/ BarGoesOn
    BY <1>3, SecondIs
  <2>2. CASE BarGoesOn
    BY <2>2 DEF BarGoesOn, EndsAreTrue
  <2>3. CASE BarEnds /\ Up
    <3> DEFINE e == [b |-> CurrentBar, c |-> exch.bars[CurrentBar], closes |-> TRUE]
               after == exch'.bars
    <3>1. inbound'.klines = Append(kl, e) /\ CurrentBar' = CurrentBar + 1
      BY <2>3 DEF BarEnds
    <3>2. e \in KlineRecord /\ e.b = CurrentBar /\ e.closes /\ e.c = exch.bars[CurrentBar]
      BY <1>0 DEF KlineRecord
    <3>3. \A b \in 0..CurrentBar : after[b] = exch.bars[b]
      BY <1>0, <2>3 DEF BarEnds
    <3> HIDE DEF e, after, kl
    <3>4. EndsHold(Append(kl, e), after, CurrentBar + 1)
      <4>1. CurrentBar + 1 \in Nat
        BY <1>0
      <4>2. IF e.closes THEN CurrentBar + 1 = CurrentBar + 1 /\ e.c = exch.bars[CurrentBar]
            ELSE CurrentBar + 1 = CurrentBar /\ kl = <<>>
        BY <3>2
      <4>3. \A b \in 0..CurrentBar : b < CurrentBar \/ CurrentBar + 1 # CurrentBar =>
              after[b] = exch.bars[b]
        BY <3>3
      <4> QED
        BY <1>0, <3>2, <4>1, <4>2, <4>3, EndsWithOneMore
    <3> QED
      BY <3>1, <3>4 DEF EndsAreTrue, after
  <2>4. CASE ~Up
    <3>1. inbound' = inbound /\ inbound = Quiet
      BY <2>1, <2>4 DEF BarEnds, BarGoesOn, LinkTells
    <3>2. Len(inbound'.klines) = 0
      BY <3>1 DEF Quiet
    <3> QED
      BY <3>2 DEF EndsAreTrue, EndsHold
  <2> QED
    BY <2>1, <2>2, <2>3, <2>4
<1>4. CASE ReportsBar
  <2> DEFINE e == [b |-> CurrentBar, c |-> exch.bars[CurrentBar], closes |-> FALSE]
  <2>1. Up /\ kl = <<>> /\ Send("klines", e) /\ now' = now /\ exch' = exch
    BY <1>4 DEF ReportsBar
  <2>2. e \in KlineRecord /\ e.b = CurrentBar /\ ~e.closes
    BY <1>0 DEF KlineRecord
  <2> HIDE DEF e
  <2>3. inbound'.klines = Append(kl, e) /\ CurrentBar' = CurrentBar
    BY <1>0, <2>1, KlineSent DEF CurrentBar
  <2> HIDE DEF kl
  <2>4. EndsHold(Append(kl, e), exch.bars, CurrentBar)
    BY <1>0, <2>1, <2>2, EndsWithOneMore
  <2> QED
    BY <2>1, <2>3, <2>4 DEF EndsAreTrue
<1>5. CASE TakeKline
  <2>1. kl # <<>> /\ now' = now /\ exch' = exch /\ inbound'.klines = Tail(kl)
    BY <1>0, <1>5 DEF TakeKline
  <2> HIDE DEF kl
  <2>2. EndsHold(Tail(kl), exch.bars, CurrentBar)
    BY <1>0, <2>1, EndsWithoutFirst
  <2> QED
    BY <2>1, <2>2 DEF EndsAreTrue, CurrentBar
<1>6. CASE Drops
  <2>1. Len(inbound'.klines) = 0
    BY <1>6 DEF Drops, Quiet
  <2> QED
    BY <2>1 DEF EndsAreTrue, EndsHold
<1>7. CASE TakeTrade
  BY <1>0, <1>1, <1>7 DEF TakeTrade
<1>8. ASSUME NEW late \in BOOLEAN, TakeBook(late) PROVE EndsAreTrue'
  BY <1>1, <1>8 DEF TakeBook
<1>9. ASSUME NEW b \in DOMAIN exch.bars, FetchServed(b) PROVE EndsAreTrue'
  <2>1. exch'.bars = exch.bars
    BY <1>9 DEF FetchServed, FeedShape, ExchangeShape
  <2> QED
    BY <1>1, <1>9, <2>1 DEF FetchServed
<1>10. CASE TakeMark \/ FetchArrives \/ FetchFails \/ Opens \/ OpenFails \/ Reconnects
  BY <1>1, <1>10 DEF TakeMark, FetchArrives, FetchFails, Opens, OpenFails, Reconnects
<1> QED
  BY <1>1, <1>2, <1>3, <1>4, <1>5, <1>6, <1>7, <1>8, <1>9, <1>10 DEF FeedNext
-----------------------------------------------------------------------------
(* Feed: the store *)

\* The end of a bar is among what is told.
EndIn(told, b) == \E i \in 1..Len(told) : told[i].b = b /\ told[i].closes

\* What holds of the store still does when the store and the ended bars stay, and
\* no end or excuse is taken away.
LEMMA StoreStays ==
  ASSUME StoreIsTrue, candles' = candles,
         \A b \in DOMAIN candles : Finished(b)' /\ b \notin excused' /\ ~EndOnTheWay(b)' =>
           /\ Finished(b) /\ b \notin excused /\ ~EndOnTheWay(b)
           /\ exch'.bars[b] = exch.bars[b]
  PROVE  StoreIsTrue'
  BY DEF StoreIsTrue

\* A step keeps the stored candles of bars that have ended what they were on the
\* exchange.
LEMMA StoreKept ==
  ASSUME FeedShape, LinkTells, EndsAreTrue, StoreIsTrue, FeedNext
  PROVE  StoreIsTrue'
<1> DEFINE kl == inbound.klines
<1>0. /\ now \in Nat /\ CurrentBar \in Nat /\ kl \in Seq(KlineRecord)
      /\ exch.bars \in [0..CurrentBar -> CandleRecord] /\ DOMAIN candles \subseteq 0..CurrentBar
      /\ inbound = [trades |-> inbound.trades, klines |-> kl] /\ EndsHold(kl, exch.bars, CurrentBar)
  <2>1. now \in Nat
    BY FeedAssumption DEF FeedShape, ExchangeShape
  <2> QED
    BY <2>1, FeedAssumption, BarsFollow
       DEF CurrentBar, FeedShape, ExchangeShape, InboundShape, StoreShape, EndsAreTrue
<1>1. CASE /\ now' = now /\ inbound'.klines = kl /\ exch'.bars = exch.bars /\ candles' = candles
           /\ excused' = excused
  <2>1. \A b : (Finished(b)' <=> Finished(b)) /\ (EndOnTheWay(b)' <=> EndOnTheWay(b))
    BY <1>1 DEF Finished, CurrentBar, EndOnTheWay
  <2> QED
    BY <1>1, <2>1, StoreStays
<1>2. ASSUME NEW p \in Prints, Trades(p) PROVE StoreIsTrue'
  <2>1. now' = now /\ inbound'.klines = kl /\ candles' = candles /\ excused' = excused
    BY <1>0, <1>2 DEF Trades
  <2>2. exch'.bars = [exch.bars EXCEPT ![CurrentBar] = Extended(exch.bars[CurrentBar], p)]
    BY <1>2 DEF Trades, FeedShape, ExchangeShape
  <2>3. \A b : (Finished(b)' <=> Finished(b)) /\ (EndOnTheWay(b)' <=> EndOnTheWay(b))
    BY <2>1 DEF Finished, CurrentBar, EndOnTheWay
  <2>4. \A b \in DOMAIN candles : Finished(b) => exch'.bars[b] = exch.bars[b]
    BY <1>0, <2>2 DEF Finished
  <2> QED
    BY <2>1, <2>3, <2>4, StoreStays
<1>end. \A b : EndOnTheWay(b)' <=> EndIn(inbound'.klines, b)
  BY DEF EndOnTheWay, EndIn
<1>3. ASSUME NEW m \in KlineRecord, inbound'.klines = Append(kl, m)
      PROVE  /\ \A b : EndOnTheWay(b) => EndIn(inbound'.klines, b)
             /\ m.closes => EndIn(inbound'.klines, m.b)
  <2> DEFINE k == Append(kl, m)
  <2> HIDE DEF kl
  <2>1. /\ Len(kl) \in Nat /\ Len(k) = Len(kl) + 1 /\ \A i \in 1..Len(kl) : k[i] = kl[i]
        /\ k[Len(kl) + 1] = m
    BY <1>0, AppendedIs
  <2> HIDE DEF k
  <2>2. \A i \in 1..Len(kl) : i \in 1..Len(k)
    BY <2>1
  <2>3. Len(kl) + 1 \in 1..Len(k)
    BY <2>1
  <2>4. inbound'.klines = k
    BY <1>3 DEF k
  <2> QED
    BY <2>1, <2>2, <2>3, <2>4 DEF EndOnTheWay, EndIn, kl
<1>4. CASE SecondPasses
  <2>1. (BarEnds \/ BarGoesOn) /\ candles' = candles
    BY <1>4, SecondIs DEF SecondPasses
  <2>2. CASE BarGoesOn
    <3>1. \A b : (Finished(b)' <=> Finished(b)) /\ (EndOnTheWay(b)' <=> EndOnTheWay(b))
      BY <2>2 DEF BarGoesOn, Finished, EndOnTheWay
    <3> QED
      BY <2>1, <2>2, <3>1, StoreStays DEF BarGoesOn
  <2>3. CASE BarEnds
    <3> DEFINE e == [b |-> CurrentBar, c |-> exch.bars[CurrentBar], closes |-> TRUE]
    <3>1. /\ CurrentBar' = CurrentBar + 1 /\ inbound' = IF Up THEN inbound' ELSE inbound
          /\ Up => inbound'.klines = Append(kl, e)
          /\ excused' = IF Up THEN excused ELSE excused \union {CurrentBar}
      BY <2>3 DEF BarEnds
    <3>2. e \in KlineRecord /\ e.b = CurrentBar /\ e.closes
      BY <1>0 DEF KlineRecord
    <3> HIDE DEF e
    <3>3. \A b \in 0..CurrentBar : exch'.bars[b] = exch.bars[b]
      BY <1>0, <2>3 DEF BarEnds
    <3>4. \A b : EndOnTheWay(b) => EndOnTheWay(b)'
      <4>1. CASE Up
        BY <1>end, <1>3, <3>1, <3>2, <4>1
      <4>2. CASE ~Up
        <5>1. inbound' = inbound
          BY <2>3, <4>2 DEF BarEnds
        <5> QED
          BY <5>1 DEF EndOnTheWay
      <4> QED
        BY <4>1, <4>2
    <3>5. CurrentBar \in excused' \/ EndIn(inbound'.klines, CurrentBar)
      <4>1. CASE Up
        BY <1>3, <3>1, <3>2, <4>1
      <4>2. CASE ~Up
        BY <3>1, <4>2
      <4> QED
        BY <4>1, <4>2
    <3>6. ASSUME NEW b \in DOMAIN candles, Finished(b)', b \notin excused', ~EndOnTheWay(b)'
          PROVE  Finished(b) /\ b \notin excused /\ ~EndOnTheWay(b) /\ exch'.bars[b] = exch.bars[b]
      <4>1. b \in 0..CurrentBar /\ exch'.bars[b] = exch.bars[b] /\ b \notin excused /\ ~EndOnTheWay(b)
        BY <1>0, <3>1, <3>3, <3>4, <3>6
      <4>2. b # CurrentBar
        BY <1>end, <3>5, <3>6
      <4> QED
        BY <1>0, <4>1, <4>2 DEF Finished
    <3> QED
      BY <2>1, <3>6, StoreStays
  <2> QED
    BY <2>1, <2>2, <2>3
<1>5. CASE ReportsBar
  <2> DEFINE e == [b |-> CurrentBar, c |-> exch.bars[CurrentBar], closes |-> FALSE]
  <2>1. Up /\ Send("klines", e) /\ UNCHANGED <<now, exch, candles, excused>>
    BY <1>5 DEF ReportsBar
  <2>2. e \in KlineRecord
    BY <1>0 DEF KlineRecord
  <2> HIDE DEF e
  <2>3. inbound'.klines = Append(kl, e)
    BY <1>0, <2>1, KlineSent
  <2>4. \A b : EndOnTheWay(b) => EndOnTheWay(b)'
    BY <1>end, <1>3, <2>2, <2>3
  <2>5. \A b : Finished(b)' <=> Finished(b)
    BY <2>1 DEF Finished, CurrentBar
  <2> QED
    BY <2>1, <2>4, <2>5, StoreStays
<1>6. CASE TakeTrade
  <2> DEFINE m == Head(inbound.trades)
             x == BarOf(m.t)
  <2>1. /\ now' = now /\ inbound'.klines = kl /\ exch' = exch /\ candles' = ApplyTick(candles, m.t, m.p)
        /\ excused' = IF Finished(x) /\ ~EndOnTheWay(x) THEN excused \union {x} ELSE excused
    BY <1>0, <1>6 DEF TakeTrade
  <2>2. \A b : (Finished(b)' <=> Finished(b)) /\ (EndOnTheWay(b)' <=> EndOnTheWay(b))
    BY <2>1 DEF Finished, CurrentBar, EndOnTheWay
  <2>3. \A b \in DOMAIN candles' : b # x => b \in DOMAIN candles /\ candles'[b] = candles[b]
    BY <2>1, TickChangesOne
  <2> HIDE DEF m, x
  <2>4. ASSUME NEW b \in DOMAIN candles', Finished(b), b \notin excused', ~EndOnTheWay(b)
        PROVE  Sealed(candles'[b]) = Sealed(exch.bars[b])
    <3>1. b # x /\ b \notin excused
      BY <2>1, <2>4
    <3> QED
      BY <2>3, <2>4, <3>1 DEF StoreIsTrue
  <2> QED
    BY <2>1, <2>2, <2>4 DEF StoreIsTrue
<1>7. CASE TakeKline
  <2> DEFINE m == Head(kl)
             k == Tail(kl)
  <2>1. /\ kl # <<>> /\ now' = now /\ exch' = exch /\ excused' = excused
        /\ candles' = Upsert(candles, m.b, m.c) /\ inbound'.klines = k
    BY <1>0, <1>7 DEF TakeKline
  <2> HIDE DEF kl
  <2>2. /\ m = kl[1] /\ m \in KlineRecord /\ 1 \in 1..Len(kl) /\ Len(kl) \in Nat
        /\ Len(k) = Len(kl) - 1 /\ \A i \in 1..Len(k) : k[i] = kl[i + 1]
    BY <1>0, <2>1, TailIs
  <2>3. \A b : Finished(b)' <=> Finished(b)
    BY <2>1 DEF Finished, CurrentBar
  <2>4. ASSUME NEW b, NEW j \in 2..Len(kl), kl[j].b = b, kl[j].closes PROVE EndIn(inbound'.klines, b)
    <3>1. j - 1 \in 1..Len(k) /\ (j - 1) + 1 = j
      BY <2>2
    <3>2. k[j - 1] = kl[j]
      BY <2>2, <3>1
    <3> HIDE DEF k
    <3> QED
      BY <2>1, <2>4, <3>1, <3>2 DEF EndIn
  <2>5. \A b : b # m.b /\ EndOnTheWay(b) => EndOnTheWay(b)'
    <3>1. SUFFICES ASSUME NEW b, b # m.b, EndOnTheWay(b) PROVE EndOnTheWay(b)'
      OBVIOUS
    <3>2. PICK i \in 1..Len(kl) : kl[i].b = b /\ kl[i].closes
      BY <3>1 DEF EndOnTheWay, kl
    <3>3. i \in 2..Len(kl)
      BY <2>2, <3>1, <3>2
    <3> QED
      BY <1>end, <2>4, <3>2, <3>3
  <2>6. CASE m.closes
    <3>1. m.b < CurrentBar /\ m.c = exch.bars[m.b] /\ m.b \in Nat
      BY <1>0, <2>2, <2>6 DEF EndsHold, KlineRecord
    <3>2. Valid(m.c)
      BY <1>0, <3>1 DEF FeedShape, ExchangeShape
    <3> HIDE DEF m, k
    <3>3. \A b \in DOMAIN candles' : IF b = m.b THEN candles'[b] = m.c
                                     ELSE b \in DOMAIN candles /\ candles'[b] = candles[b]
      BY <2>1, <3>2, UpsertChangesOne
    <3>4. ASSUME NEW b \in DOMAIN candles', Finished(b)', b \notin excused', ~EndOnTheWay(b)'
          PROVE  Sealed(candles'[b]) = Sealed(exch.bars[b])
      <4>1. CASE b = m.b
        BY <3>1, <3>3, <4>1
      <4>2. CASE b # m.b
        BY <2>1, <2>3, <2>5, <3>3, <3>4, <4>2 DEF StoreIsTrue
      <4> QED
        BY <4>1, <4>2
    <3> QED
      BY <2>1, <3>4 DEF StoreIsTrue
  <2>7. CASE ~m.closes
    <3>1. m.b < CurrentBar => EndIn(inbound'.klines, m.b)
      <4>1. SUFFICES ASSUME m.b < CurrentBar PROVE EndIn(inbound'.klines, m.b)
        OBVIOUS
      <4>2. PICK j \in (1 + 1)..Len(kl) : kl[j].b = kl[1].b /\ kl[j].closes
        BY <1>0, <2>2, <2>7, <4>1 DEF EndsHold
      <4>3. j \in 2..Len(kl)
        OBVIOUS
      <4> QED
        BY <2>2, <2>4, <4>2, <4>3
    <3> HIDE DEF m, k
    <3>2. \A b \in DOMAIN candles' : b # m.b => b \in DOMAIN candles /\ candles'[b] = candles[b]
      BY <2>1, UpsertChangesOne
    <3>3. ASSUME NEW b \in DOMAIN candles', Finished(b)', b \notin excused', ~EndOnTheWay(b)'
          PROVE  Sealed(candles'[b]) = Sealed(exch.bars[b])
      <4>1. b < CurrentBar
        BY <2>3, <3>3 DEF Finished
      <4>2. b # m.b
        BY <1>end, <3>1, <3>3, <4>1
      <4> QED
        BY <2>1, <2>3, <2>5, <3>2, <3>3, <4>2 DEF StoreIsTrue
    <3> QED
      BY <2>1, <3>3 DEF StoreIsTrue
  <2> QED
    BY <2>6, <2>7
<1>8. CASE FetchArrives
  <2>1. /\ now' = now /\ exch' = exch /\ inbound' = inbound
        /\ \A b \in DOMAIN candles' :
             /\ b \in DOMAIN candles \union DOMAIN fetch
             /\ candles'[b] = IF b \in DOMAIN fetch THEN fetch[b] ELSE candles[b]
        /\ excused' = excused \union
             {b \in DOMAIN fetch : Finished(b) /\ fetch[b] # Sealed(exch.bars[b]) /\ ~EndOnTheWay(b)}
    BY <1>8 DEF FetchArrives, Kept
  <2>2. \A b : (Finished(b)' <=> Finished(b)) /\ (EndOnTheWay(b)' <=> EndOnTheWay(b))
    BY <2>1 DEF Finished, CurrentBar, EndOnTheWay
  <2>3. ASSUME NEW b \in DOMAIN candles', Finished(b), b \notin excused', ~EndOnTheWay(b)
        PROVE  Sealed(candles'[b]) = Sealed(exch.bars[b])
    <3>1. CASE b \in DOMAIN fetch
      <4>1. fetch[b] = Sealed(exch.bars[b]) /\ candles'[b] = fetch[b]
        BY <2>1, <2>3, <3>1
      <4>2. b \in 0..CurrentBar
        BY <3>1 DEF FeedShape, StoreShape
      <4> QED
        BY <1>0, <4>1, <4>2, SealedIs
    <3>2. CASE b \notin DOMAIN fetch
      BY <2>1, <2>3, <3>2 DEF StoreIsTrue
    <3> QED
      BY <3>1, <3>2
  <2> QED
    BY <2>1, <2>2, <2>3 DEF StoreIsTrue
<1>9. CASE Drops
  <2>1. /\ now' = now /\ exch' = exch /\ candles' = candles
        /\ excused' = excused \union {b \in 0..CurrentBar : EndOnTheWay(b)}
    BY <1>9 DEF Drops
  <2>2. \A b : Finished(b)' <=> Finished(b)
    BY <2>1 DEF Finished, CurrentBar
  <2> QED
    BY <1>0, <2>1, <2>2, StoreStays
<1>10. ASSUME NEW late \in BOOLEAN, TakeBook(late) PROVE StoreIsTrue'
  BY <1>1, <1>10 DEF TakeBook
<1>11. ASSUME NEW b \in DOMAIN exch.bars, FetchServed(b) PROVE StoreIsTrue'
  <2>1. exch'.bars = exch.bars
    BY <1>11 DEF FetchServed, FeedShape, ExchangeShape
  <2> QED
    BY <1>1, <1>11, <2>1 DEF FetchServed
<1>12. CASE TakeMark \/ FetchFails \/ Opens \/ OpenFails \/ Reconnects
  BY <1>1, <1>12 DEF TakeMark, FetchFails, Opens, OpenFails, Reconnects
<1> QED
  BY <1>2, <1>4, <1>5, <1>6, <1>7, <1>8, <1>9, <1>10, <1>11, <1>12 DEF FeedNext

\* Every step keeps the invariant.
LEMMA FeedInvKept == FeedInv /\ [FeedNext]_feedVars => FeedInv'
<1> SUFFICES ASSUME FeedInv, [FeedNext]_feedVars PROVE FeedInv'
  OBVIOUS
<1>1. CASE FeedNext
  BY <1>1, ExchangeShapeKept, InboundShapeKept, StoreShapeKept, LinkKept, EndsKept, StoreKept
     DEF FeedInv, FeedShape
<1>2. CASE UNCHANGED feedVars
  <2>1. ExchangeShape' /\ InboundShape' /\ StoreShape'
    BY <1>2 DEF FeedInv, FeedShape, feedVars, ExchangeShape, InboundShape, StoreShape, CurrentBar
  <2>2. LinkShape' /\ LinkTells'
    BY <1>2 DEF FeedInv, feedVars, LinkShape, LinkTells, Up
  <2>3. EndsAreTrue'
    BY <1>2 DEF FeedInv, feedVars, EndsAreTrue, CurrentBar
  <2>4. StoreIsTrue'
    <3>1. \A b : (Finished(b)' <=> Finished(b)) /\ (EndOnTheWay(b)' <=> EndOnTheWay(b))
      BY <1>2 DEF feedVars, Finished, CurrentBar, EndOnTheWay
    <3> QED
      BY <1>2, <3>1 DEF FeedInv, feedVars, StoreIsTrue
  <2> QED
    BY <2>1, <2>2, <2>3, <2>4 DEF FeedInv, FeedShape
<1> QED
  BY <1>1, <1>2

\* The market data is the exchange's (FeedIsHonest), for every length of a bar, every
\* limit and every length of a history.
THEOREM FeedTruth == FeedSpec => []FeedIsHonest
<1>1. FeedSpec => []FeedInv
  BY FeedInitInv, FeedInvKept, PTL DEF FeedSpec
<1> QED
  BY <1>1, FeedInvGives, PTL
-----------------------------------------------------------------------------
(* The market analysis: what it says of the same candles *)

Candle == [open : Nat, high : Nat, low : Nat, close : Nat, timed : BOOLEAN]
SwingRecord == [side : Edges, at : Nat \ {0}, price : Int]
LevelRecord == [side : Edges, price : Int, at : Nat \ {0}, equal : BOOLEAN]

\* Two series of the same first n candles.
Agree(b, c, n) == n <= Len(b) /\ n <= Len(c) /\ \A i \in 1..n : b[i] = c[i]

\* Prices seen from a side are numbers.
LEMMA PricesOfCandle ==
  ASSUME NEW c \in Candle, NEW t \in Edges
  PROVE  Top(c, t) \in Int /\ Bottom(c, t) \in Int /\ Close(c, t) \in Int
BY DEF Candle, Edges, Top, Bottom, Close, Signed

\* A price, seen from its side, is a number.
LEMMA PriceOfSide ==
  ASSUME NEW p \in Int, NEW t
  PROVE  Signed(p, t) \in Int
BY DEF Signed

\* The candles of two series that agree are those of the one and of the other.
LEMMA AgreeIs ==
  ASSUME NEW b \in Seq(Candle), NEW c \in Seq(Candle), NEW n \in Nat, Agree(b, c, n)
  PROVE  /\ Agree(c, b, n)
         /\ \A m \in Nat : m <= n => Agree(b, c, m)
         /\ \A i \in 1..n : /\ i \in 1..Len(b) /\ i \in 1..Len(c)
                            /\ b[i] = c[i] /\ b[i] \in Candle /\ c[i] \in Candle
<1>1. Len(b) \in Nat /\ Len(c) \in Nat
  OBVIOUS
<1>2. \A i \in 1..Len(b) : b[i] \in Candle
  OBVIOUS
<1> QED
  BY <1>1, <1>2 DEF Agree

\* A swing is one of the candles, with as many after it as it takes to confirm it.
LEMMA SwingIs ==
  ASSUME NEW b \in Seq(Candle), NEW s \in Swings(b)
  PROVE  /\ s \in SwingRecord /\ s.at \in 1..Len(b)
         /\ s.at + RightBars <= Len(b) /\ s.at + RightBars \in Nat \ {0}
         /\ s = SwingAt(b, s.at, s.side) /\ IsSwing(b, s)
<1>1. PICK i \in 1..Len(b), t \in Edges : s = SwingAt(b, i, t)
  BY DEF Swings
<1>2. IsSwing(b, s)
  BY DEF Swings
<1>3. s.at = i /\ s.side = t /\ s.price = Signed(Top(b[i], t), t)
  BY <1>1 DEF SwingAt
<1>4. b[i] \in Candle
  OBVIOUS
<1>5. s.price \in Int
  BY <1>3, <1>4, PricesOfCandle, PriceOfSide
<1>6. s \in SwingRecord
  BY <1>1, <1>3, <1>5 DEF SwingRecord, SwingAt
<1>7. s.at + RightBars <= Len(b)
  BY <1>2 DEF IsSwing
<1>8. s.at + RightBars \in Nat \ {0}
  BY <1>3, SmartAssumption
<1> QED
  BY <1>1, <1>2, <1>3, <1>6, <1>7, <1>8

\* A swing that n candles confirm is one of every series of those n candles.
LEMMA SwingKept ==
  ASSUME NEW b \in Seq(Candle), NEW c \in Seq(Candle), NEW n \in Nat, Agree(b, c, n),
         NEW s \in Swings(b), s.at + RightBars <= n
  PROVE  s \in Swings(c)
<1>1. /\ s \in SwingRecord /\ s.at \in 1..Len(b)
      /\ s = SwingAt(b, s.at, s.side) /\ IsSwing(b, s)
  BY SwingIs
<1>2. \A i \in 1..n : b[i] = c[i] /\ i \in 1..Len(c)
  BY AgreeIs
<1>3. LeftBars \in Nat \ {0} /\ RightBars \in Nat \ {0}
  BY SmartAssumption
<1>4. s.at \in 1..n /\ s.at \in Nat /\ s.side \in Edges
  BY <1>1, <1>3 DEF SwingRecord
<1>5. s = SwingAt(c, s.at, s.side)
  BY <1>1, <1>2, <1>4 DEF SwingAt
<1>6. s.at + RightBars <= Len(c) /\ s.at > LeftBars
  <2>1. n <= Len(c) /\ Len(c) \in Nat
    BY DEF Agree
  <2> QED
    BY <1>1, <1>3, <1>4, <2>1 DEF IsSwing
<1>7. \A j \in s.at - LeftBars .. s.at - 1 : j \in 1..n
  BY <1>3, <1>4, <1>6
<1>8. \A k \in s.at + 1 .. s.at + RightBars : k \in 1..n
  BY <1>3, <1>4
<1>9. IsSwing(c, s)
  BY <1>1, <1>2, <1>4, <1>6, <1>7, <1>8 DEF IsSwing
<1> QED
  BY <1>2, <1>4, <1>5, <1>9 DEF Swings

\* Of some swings, no later than a bound, there is a latest.
LEMMA LatestIs ==
  ASSUME NEW S, S \subseteq SwingRecord, S # {}, NEW m \in Nat, \A s \in S : s.at <= m
  PROVE  Latest(S) \in S /\ \A o \in S : o.at <= Latest(S).at
<1> DEFINE T == {s.at : s \in S}
<1>1. T \subseteq Int /\ T # {} /\ \A x \in T : x <= m
  BY DEF SwingRecord
<1>2. Max(T) \in T /\ \A y \in T : Max(T) >= y
  <2>1. m \in Int
    OBVIOUS
  <2> HIDE DEF T
  <2> QED
    BY ONLY <1>1, <2>1, MaxOfBounded
<1>3. PICK s \in S : s.at = Max(T)
  BY <1>2
<1>4. \A o \in S : o.at <= s.at
  <2>1. \A o \in S : o.at \in T /\ o.at \in Int
    BY <1>1
  <2> HIDE DEF T
  <2> QED
    BY <1>1, <1>2, <1>3, <2>1
<1> QED
  BY <1>4 DEF Latest

\* Two series that agree confirm the same swings by then, and before each of these
\* there are the same.
LEMMA ConfirmedKept ==
  ASSUME NEW b \in Seq(Candle), NEW c \in Seq(Candle), NEW n \in Nat, Agree(b, c, n)
  PROVE  /\ \A m \in Nat : m <= n => Confirmed(Swings(b), m) = Confirmed(Swings(c), m)
         /\ \A s \in SwingRecord : s.at + RightBars <= n =>
              /\ {p \in Swings(b) : p.at <= s.at} = {p \in Swings(c) : p.at <= s.at}
              /\ Before(Swings(b), s) = Before(Swings(c), s)
<1>1. Agree(c, b, n)
  BY AgreeIs
<1>2. \A s \in Swings(b) : s.at \in Nat /\ (s.at + RightBars <= n => s \in Swings(c))
  BY SwingIs, SwingKept DEF SwingRecord
<1>3. \A s \in Swings(c) : s.at \in Nat /\ (s.at + RightBars <= n => s \in Swings(b))
  BY <1>1, SwingIs, SwingKept DEF SwingRecord
<1>4. RightBars \in Nat
  BY SmartAssumption
<1>5. ASSUME NEW m \in Nat, m <= n PROVE Confirmed(Swings(b), m) = Confirmed(Swings(c), m)
  BY <1>2, <1>3, <1>4, <1>5 DEF Confirmed
<1>6. ASSUME NEW s \in SwingRecord, s.at + RightBars <= n
      PROVE  /\ {p \in Swings(b) : p.at <= s.at} = {p \in Swings(c) : p.at <= s.at}
             /\ Before(Swings(b), s) = Before(Swings(c), s)
  <2>1. s.at \in Nat
    BY DEF SwingRecord
  <2>2. \A p \in Swings(b) : p.at <= s.at => p \in Swings(c)
    BY <1>2, <1>4, <1>6, <2>1
  <2>3. \A p \in Swings(c) : p.at <= s.at => p \in Swings(b)
    BY <1>3, <1>4, <1>6, <2>1
  <2>4. \A p \in Swings(b) \union Swings(c) : p.at < s.at => p.at <= s.at
    BY <1>2, <1>3, <2>1
  <2> QED
    BY <2>2, <2>3, <2>4 DEF Before, OnSide
<1> QED
  BY <1>5, <1>6

\* What a swing is called depends on the swings before it.
LEMMA ClassKept ==
  ASSUME NEW b \in Seq(Candle), NEW c \in Seq(Candle), NEW n \in Nat, Agree(b, c, n),
         NEW s \in SwingRecord, s.at + RightBars <= n
  PROVE  /\ Class(Swings(b), s) = Class(Swings(c), s)
         /\ SwingFact(Swings(b), s) = SwingFact(Swings(c), s)
<1>1. Before(Swings(b), s) = Before(Swings(c), s)
  BY ConfirmedKept
<1>2. Class(Swings(b), s) = Class(Swings(c), s)
  BY <1>1 DEF Class
<1> QED
  BY <1>2 DEF SwingFact

\* The swing a candle breaks is one that was confirmed by then.
LEMMA BrokenSwingIs ==
  ASSUME NEW b \in Seq(Candle), NEW d \in Nat, NEW t \in Edges,
         OnSide(Confirmed(Swings(b), d), t) # {}
  PROVE  /\ BrokenSwing(Swings(b), d, t) \in Swings(b)
         /\ BrokenSwing(Swings(b), d, t) \in SwingRecord
         /\ BrokenSwing(Swings(b), d, t).at + RightBars <= d
<1> DEFINE S == OnSide(Confirmed(Swings(b), d), t)
<1>1. \A s \in S : s \in Swings(b) /\ s.at + RightBars <= d
  BY DEF OnSide, Confirmed
<1>2. \A s \in Swings(b) : s \in SwingRecord /\ s.at \in Nat
  BY SwingIs DEF SwingRecord
<1>3. RightBars \in Nat
  BY SmartAssumption
<1>4. S \subseteq SwingRecord /\ \A s \in S : s.at <= d
  BY <1>1, <1>2, <1>3
<1>5. BrokenSwing(Swings(b), d, t) = Latest(S)
  BY DEF BrokenSwing, LastOnSide
<1>6. Latest(S) \in S
  <2>1. S # {}
    OBVIOUS
  <2> HIDE DEF S
  <2> QED
    BY ONLY <1>4, <2>1, LatestIs, d \in Nat
<1> QED
  BY <1>1, <1>2, <1>5, <1>6

\* Two series that agree show a candle of theirs breaking the same swing, as the same.
LEMMA BreakAtKept ==
  ASSUME NEW b \in Seq(Candle), NEW c \in Seq(Candle), NEW n \in Nat, Agree(b, c, n),
         NEW d \in 1..n, NEW t \in Edges
  PROVE  /\ Beyond(b, Swings(b), d, t) <=> Beyond(c, Swings(c), d, t)
         /\ BrokenSwing(Swings(b), d, t) = BrokenSwing(Swings(c), d, t)
         /\ Beyond(b, Swings(b), d, t) => BreakAt(b, Swings(b), d, t) = BreakAt(c, Swings(c), d, t)
<1>1. d \in Nat /\ d <= n
  OBVIOUS
<1>2. Confirmed(Swings(b), d) = Confirmed(Swings(c), d)
  BY <1>1, ConfirmedKept
<1>3. BrokenSwing(Swings(b), d, t) = BrokenSwing(Swings(c), d, t)
  BY <1>2 DEF BrokenSwing
<1>4. b[d] = c[d]
  BY AgreeIs
<1>5. Beyond(b, Swings(b), d, t) <=> Beyond(c, Swings(c), d, t)
  BY <1>2, <1>3, <1>4 DEF Beyond
<1>6. ASSUME Beyond(b, Swings(b), d, t)
      PROVE  BreakAt(b, Swings(b), d, t) = BreakAt(c, Swings(c), d, t)
  <2> DEFINE s == BrokenSwing(Swings(b), d, t)
  <2>1. s \in SwingRecord /\ s.at + RightBars <= d
    BY <1>1, <1>6, BrokenSwingIs DEF Beyond
  <2>2. s.at + RightBars <= n
    BY <1>1, <2>1, SmartAssumption DEF SwingRecord
  <2>3. Class(Swings(b), s) = Class(Swings(c), s)
    <3> HIDE DEF s
    <3> QED
      BY <2>1, <2>2, ClassKept
  <2>4. Turns(Swings(b), d, t) = Turns(Swings(c), d, t)
    BY <1>2, <1>3, <2>3, Zenon DEF Turns
  <2> QED
    BY <1>3, <1>4, <2>4 DEF BreakAt
<1> QED
  BY <1>3, <1>5, <1>6

\* A break is at a candle, of a swing of its side.
LEMMA BreakIs ==
  ASSUME NEW b \in Seq(Candle), NEW e \in Breaks(b)
  PROVE  /\ e.at \in 1..Len(b) /\ e.at \in Nat \ {0} /\ e.side \in Edges
         /\ e = BreakAt(b, Swings(b), e.at, e.side) /\ BreaksAt(b, Swings(b), e.at, e.side)
<1>1. PICK d \in 1..Len(b) : e \in {BreakAt(b, Swings(b), d, t) : t \in {t \in Edges : BreaksAt(b, Swings(b), d, t)}}
  BY DEF Breaks
<1>2. PICK t \in Edges : e = BreakAt(b, Swings(b), d, t) /\ BreaksAt(b, Swings(b), d, t)
  BY <1>1
<1>3. e.at = d /\ e.side = t
  BY <1>2 DEF BreakAt
<1> QED
  BY <1>2, <1>3

\* A break in the first n candles is one of every series of those.
LEMMA BreaksKept ==
  ASSUME NEW b \in Seq(Candle), NEW c \in Seq(Candle), NEW n \in Nat, Agree(b, c, n),
         NEW e \in Breaks(b), e.at <= n
  PROVE  e \in Breaks(c)
<1> DEFINE t == e.side
           d == e.at
<1>1. /\ d \in 1..n /\ t \in Edges /\ d \in 1..Len(c)
      /\ e = BreakAt(b, Swings(b), d, t) /\ BreaksAt(b, Swings(b), d, t)
  BY BreakIs, AgreeIs
<1> HIDE DEF t, d
<1>2. Beyond(b, Swings(b), d, t)
  BY <1>1 DEF BreaksAt
<1>3. e = BreakAt(c, Swings(c), d, t) /\ Beyond(c, Swings(c), d, t)
  BY <1>1, <1>2, BreakAtKept
<1>4. \A k \in 1..d - 1 : k \in 1..n
  BY <1>1
<1>5. ASSUME NEW k \in 1..d - 1, Beyond(c, Swings(c), k, t)
      PROVE  BrokenSwing(Swings(c), k, t) # BrokenSwing(Swings(c), d, t)
  <2>1. k \in 1..n
    BY <1>4
  <2>2. /\ Beyond(b, Swings(b), k, t)
        /\ BrokenSwing(Swings(b), k, t) = BrokenSwing(Swings(c), k, t)
    BY <1>1, <1>5, <2>1, BreakAtKept
  <2>3. BrokenSwing(Swings(b), d, t) = BrokenSwing(Swings(c), d, t)
    BY <1>1, BreakAtKept
  <2> QED
    BY <1>1, <2>2, <2>3 DEF BreaksAt
<1>6. BreaksAt(c, Swings(c), d, t)
  BY <1>3, <1>5 DEF BreaksAt
<1> QED
  BY <1>1, <1>3, <1>6 DEF Breaks

\* A level is a swing's, there once that is confirmed.
LEMMA LevelIs ==
  ASSUME NEW b \in Seq(Candle), NEW l \in LiquidityLevels(Swings(b))
  PROVE  /\ l.at \in Nat \ {0} /\ l.at <= Len(b) /\ l.side \in Edges /\ l.price \in Int
         /\ \E s \in Swings(b) : l = LevelOf(Swings(b), s) /\ l.at = s.at + RightBars
<1>1. PICK s \in Swings(b) : l = LevelOf(Swings(b), s)
  BY DEF LiquidityLevels
<1>2. l.at = s.at + RightBars /\ l.side = s.side /\ l.price = s.price
  BY <1>1 DEF LevelOf
<1>3. s \in SwingRecord /\ s.at + RightBars <= Len(b) /\ s.at + RightBars \in Nat \ {0}
  BY SwingIs
<1> QED
  BY <1>1, <1>2, <1>3 DEF SwingRecord

\* A level of the first n candles is one of every series of those.
LEMMA LevelsKept ==
  ASSUME NEW b \in Seq(Candle), NEW c \in Seq(Candle), NEW n \in Nat, Agree(b, c, n),
         NEW l \in LiquidityLevels(Swings(b)), l.at <= n
  PROVE  l \in LiquidityLevels(Swings(c))
<1>1. PICK s \in Swings(b) : l = LevelOf(Swings(b), s) /\ l.at = s.at + RightBars
  BY LevelIs
<1>2. s \in Swings(c) /\ s \in SwingRecord /\ s.at \in Nat
  BY <1>1, SwingKept, SwingIs DEF SwingRecord
<1>3. /\ Before(Swings(b), s) = Before(Swings(c), s)
      /\ {p \in Swings(b) : p.at <= s.at} = {p \in Swings(c) : p.at <= s.at}
  BY <1>1, <1>2, ConfirmedKept
<1>4. \A o \in Swings(b) \union Swings(c) : o.at \in Nat
  BY SwingIs DEF SwingRecord
<1>5. \A o \in Swings(b) \union Swings(c) : Precedes(o, s) => o.at <= s.at
  BY <1>2, <1>4 DEF Precedes
<1>6. \A o : o \in Swings(b) /\ Precedes(o, s) <=> o \in Swings(c) /\ Precedes(o, s)
  BY <1>3, <1>5
<1>7. Repeats(Swings(b), s) = Repeats(Swings(c), s)
  BY <1>3, <1>6 DEF Repeats
<1>8. l = LevelOf(Swings(c), s)
  BY <1>1, <1>7 DEF LevelOf
<1> QED
  BY <1>2, <1>8 DEF LiquidityLevels

\* A sweep in the first n candles is one of every series of those that has its level.
LEMMA SweepsKept ==
  ASSUME NEW b \in Seq(Candle), NEW c \in Seq(Candle), NEW n \in Nat, Agree(b, c, n),
         NEW L, NEW M, \A l \in L : l.at \in Nat \ {0} /\ (l.at <= n => l \in M),
         NEW f \in Sweeps(b, L), f.at <= n
  PROVE  f \in Sweeps(c, M)
<1>1. /\ f \in [at : 1..Len(b), level : L]
      /\ f.at >= f.level.at /\ Sweeping(b[f.at], f.level)
      /\ \A d \in f.level.at .. f.at - 1 : ~Sweeping(b[d], f.level)
  BY DEF Sweeps
<1> DEFINE l == f.level
           k == f.at
<1>2. l \in L /\ k \in Nat /\ k \in 1..n /\ l.at \in Nat \ {0} /\ l.at <= k
  BY <1>1
<1>3. l \in M
  <2>1. l.at <= n
    BY <1>2
  <2> QED
    BY <1>2, <2>1
<1>4. \A i \in 1..n : b[i] = c[i] /\ i \in 1..Len(c)
  BY AgreeIs
<1>5. f \in [at : 1..Len(c), level : M]
  BY <1>1, <1>2, <1>3, <1>4
<1>6. \A d \in l.at .. k - 1 : d \in 1..n
  BY <1>2
<1> QED
  BY <1>1, <1>2, <1>4, <1>5, <1>6 DEF Sweeps

\* A sweep is at a candle.
LEMMA SweepIs ==
  ASSUME NEW b \in Seq(Candle), NEW L, NEW f \in Sweeps(b, L)
  PROVE  f.at \in 1..Len(b) /\ f.at \in Nat \ {0} /\ f.level \in L
BY DEF Sweeps

\* A gap is at a candle, between numbers.
LEMMA GapIs ==
  ASSUME NEW b \in Seq(Candle), NEW g \in Gaps(b)
  PROVE  /\ g.at \in 3..Len(b) /\ g.at \in Nat \ {0} /\ g.side \in Edges
         /\ g = GapAt(b, g.at, g.side) /\ g.near \in Int /\ g.far \in Int /\ g.far < g.near
         /\ g.since = g.at + 1
<1>1. PICK i \in 3..Len(b), t \in Edges : g = GapAt(b, i, t)
  BY DEF Gaps
<1>2. /\ g.at = i /\ g.side = t
      /\ g.near = Bottom(b[i], t) /\ g.far = Top(b[i - 2], t) /\ g.since = i + 1
  BY <1>1 DEF GapAt
<1>3. b[i] \in Candle /\ b[i - 2] \in Candle
  <2>1. i \in 1..Len(b) /\ i - 2 \in 1..Len(b)
    OBVIOUS
  <2> QED
    BY <2>1
<1>4. g.near \in Int /\ g.far \in Int
  BY <1>2, <1>3, PricesOfCandle
<1>5. g.far < g.near
  BY DEF Gaps
<1> QED
  BY <1>1, <1>2, <1>4, <1>5

\* A gap in the first n candles is one of every series of those.
LEMMA GapsKept ==
  ASSUME NEW b \in Seq(Candle), NEW c \in Seq(Candle), NEW n \in Nat, Agree(b, c, n),
         NEW g \in Gaps(b), g.at <= n
  PROVE  g \in Gaps(c)
<1>1. g.at \in 3..Len(b) /\ g.side \in Edges /\ g = GapAt(b, g.at, g.side) /\ g.far < g.near
  BY GapIs
<1>2. g.at \in 1..n /\ g.at - 2 \in 1..n /\ g.at \in Nat
  BY <1>1
<1>3. \A i \in 1..n : b[i] = c[i] /\ i \in 1..Len(c)
  BY AgreeIs
<1>4. g = GapAt(c, g.at, g.side)
  BY <1>1, <1>2, <1>3 DEF GapAt
<1>5. g.at \in 3..Len(c)
  BY <1>1, <1>2, <1>3
<1> QED
  BY <1>1, <1>4, <1>5 DEF Gaps

\* A block begins at a candle before the break.
LEMMA OriginIs ==
  ASSUME NEW b \in Seq(Candle), NEW e, e.at \in 1..Len(b), e.at > 1
  PROVE  Origin(b, e) \in 1..e.at - 1
<1> DEFINE against == {i \in 1..e.at - 1 : /\ i >= e.at - Lookback
                                           /\ Close(b[i], e.side) < Signed(b[i].open, e.side)}
<1>1. e.at \in Nat /\ e.at - 1 \in 1..e.at - 1
  OBVIOUS
<1>2. Origin(b, e) = IF against = {} THEN e.at - 1
                     ELSE CHOOSE i \in against : \A j \in against : j <= i
  BY DEF Origin
<1>3. against \subseteq 1..e.at - 1
  OBVIOUS
<1>4. against \subseteq Int /\ \A i \in against : i <= e.at - 1
  BY <1>1, <1>3
<1> HIDE DEF against
<1>5. CASE against = {}
  BY <1>1, <1>2, <1>5
<1>6. CASE against # {}
  <2>1. e.at - 1 \in Int
    BY <1>1
  <2>2. Max(against) \in against /\ \A j \in against : Max(against) >= j
    BY ONLY <1>4, <1>6, <2>1, MaxOfBounded
  <2>3. \A j \in against : j <= Max(against)
    BY <1>4, <2>2
  <2>4. Origin(b, e) \in against
    BY <1>2, <1>6, <2>2, <2>3
  <2> QED
    BY <1>3, <2>4
<1> QED
  BY <1>5, <1>6

\* Two series that agree have a block's origin in the same place.
LEMMA OriginKept ==
  ASSUME NEW b \in Seq(Candle), NEW c \in Seq(Candle), NEW n \in Nat, Agree(b, c, n),
         NEW e, e.at \in 1..n, e.at > 1
  PROVE  Origin(b, e) = Origin(c, e) /\ Origin(b, e) \in 1..n /\ BlockOf(b, e) = BlockOf(c, e)
<1>1. \A i \in 1..n : b[i] = c[i] /\ i \in 1..Len(b)
  BY AgreeIs
<1>2. \A i \in 1..e.at - 1 : i \in 1..n
  OBVIOUS
<1>3. Origin(b, e) = Origin(c, e)
  <2> DEFINE Against(q) == {i \in 1..e.at - 1 : /\ i >= e.at - Lookback
                                              /\ Close(q[i], e.side) < Signed(q[i].open, e.side)}
  <2>1. Against(b) = Against(c)
    BY <1>1, <1>2
  <2>2. \A q : Origin(q, e) = IF Against(q) = {} THEN e.at - 1
                             ELSE CHOOSE i \in Against(q) : \A j \in Against(q) : j <= i
    BY DEF Origin
  <2> HIDE DEF Against
  <2> QED
    BY ONLY <2>1, <2>2
<1>4. Origin(b, e) \in 1..n
  BY <1>1, <1>2, OriginIs
<1> QED
  BY <1>1, <1>3, <1>4 DEF BlockOf

\* A block is at the candle of its break, between numbers.
LEMMA BlockIs ==
  ASSUME NEW b \in Seq(Candle), NEW K, \A e \in K : e.at \in 1..Len(b) /\ e.side \in Edges,
         NEW z \in Blocks(b, K)
  PROVE  /\ z.at \in 1..Len(b) /\ z.at \in Nat \ {0} /\ z.side \in Edges
         /\ z.near \in Int /\ z.far \in Int /\ z.since \in Nat /\ z.at <= z.since
<1>1. PICK e \in K : e.at > 1 /\ z = BlockOf(b, e)
  BY DEF Blocks
<1>2. Origin(b, e) \in 1..e.at - 1
  BY <1>1, OriginIs
<1>3. b[Origin(b, e)] \in Candle
  <2>1. Origin(b, e) \in 1..Len(b)
    BY <1>2
  <2> QED
    BY <2>1
<1>4. /\ z.at = e.at /\ z.side = e.side
      /\ z.near = Top(b[Origin(b, e)], e.side) /\ z.far = Bottom(b[Origin(b, e)], e.side)
  BY <1>1 DEF BlockOf
<1>5. e.at \in 1..Len(b) /\ e.at \in Nat \ {0} /\ e.side \in Edges
  <2>1. e.at \in 1..Len(b) /\ e.side \in Edges
    OBVIOUS
  <2> QED
    BY <2>1
<1>7. z.since \in Nat /\ z.at <= z.since
  <2>1. z.since = e.at \/ z.since = e.at + 1
    BY <1>1 DEF BlockOf
  <2> QED
    BY <1>4, <1>5, <2>1
<1>6. z.near \in Int /\ z.far \in Int
  <2> DEFINE at == b[Origin(b, e)]
  <2>1. at \in Candle
    BY <1>3
  <2>2. z.near = Top(at, e.side) /\ z.far = Bottom(at, e.side)
    BY <1>4
  <2> HIDE DEF at
  <2> QED
    BY <1>5, <2>1, <2>2, PricesOfCandle
<1> QED
  BY <1>4, <1>5, <1>6, <1>7

\* A block in the first n candles is one of every series of those that has its break.
LEMMA BlocksKept ==
  ASSUME NEW b \in Seq(Candle), NEW c \in Seq(Candle), NEW n \in Nat, Agree(b, c, n),
         NEW K, NEW J, \A e \in K : e.at \in Nat \ {0} /\ (e.at <= n => e \in J),
         NEW z \in Blocks(b, K), z.at <= n
  PROVE  z \in Blocks(c, J)
<1>1. PICK e \in K : /\ e.at > 1 /\ z = BlockOf(b, e)
                     /\ Close(b[e.at], e.side) - Bottom(b[Origin(b, e)], e.side) >= Displacement
  BY DEF Blocks
<1>2. e.at = z.at
  BY <1>1 DEF BlockOf
<1>3. e \in J /\ e.at \in 1..n
  BY <1>2
<1>4. Origin(b, e) = Origin(c, e) /\ Origin(b, e) \in 1..n /\ BlockOf(b, e) = BlockOf(c, e)
  BY <1>1, <1>3, OriginKept
<1>5. b[e.at] = c[e.at] /\ b[Origin(b, e)] = c[Origin(b, e)]
  BY <1>3, <1>4, AgreeIs
<1> QED
  BY <1>1, <1>3, <1>4, <1>5 DEF Blocks

\* What the first n candles did to a zone they did in every series of those.
LEMMA StatusesKept ==
  ASSUME NEW b \in Seq(Candle), NEW c \in Seq(Candle), NEW n \in Nat, Agree(b, c, n),
         NEW Z, NEW Y,
         \A z \in Z : /\ z.at \in Nat \ {0} /\ z.since \in Nat /\ z.at <= z.since
                      /\ z.at <= n => z \in Y,
         NEW f \in Statuses(b, Z), f.at <= n
  PROVE  f \in Statuses(c, Y)
<1>1. PICK k \in 1..Len(b), z \in Z : f = [at |-> k, zone |-> z, depth |-> Depth(b[k], z)]
  BY DEF Statuses
<1>2. f.at = k /\ f.zone = z
  BY <1>1
<1>3. /\ k >= z.since /\ f.depth > 0
      /\ \A d \in z.since .. k - 1 : f.depth > Depth(b[d], z)
  BY <1>2 DEF Statuses
<1>4. k \in 1..n /\ z.at \in Nat \ {0} /\ z.since \in Nat /\ z.at <= z.since
  BY <1>2
<1>5. z \in Y
  <2>1. z.at <= n
    BY <1>3, <1>4
  <2> QED
    BY <2>1
<1>6. \A i \in 1..n : b[i] = c[i] /\ i \in 1..Len(c)
  BY AgreeIs
<1>7. f = [at |-> k, zone |-> z, depth |-> Depth(c[k], z)] /\ k \in 1..Len(c)
  BY <1>1, <1>4, <1>6
<1>8. \A d \in z.since .. k - 1 : d \in 1..n
  BY <1>4
<1>9. \A d \in z.since .. k - 1 : f.depth > Depth(c[d], z)
  BY <1>3, <1>6, <1>8
<1> DEFINE A == {[at |-> q, zone |-> y, depth |-> Depth(c[q], y)] : q \in 1..Len(c), y \in Y}
<1>10. f \in A
  BY <1>5, <1>7
<1>11. Statuses(c, Y) = {s \in A : /\ s.at >= s.zone.since /\ s.depth > 0
                                   /\ \A d \in s.zone.since .. s.at - 1 :
                                        s.depth > Depth(c[d], s.zone)}
  BY DEF Statuses
<1> HIDE DEF A
<1> QED
  BY <1>2, <1>3, <1>9, <1>10, <1>11

\* The analysis, apart: swings, breaks, levels, sweeps, zones and what became of them.
Zones(b, x, early) == KnownGaps(b, early) \union Blocks(b, Breaks(x))
LEMMA AnalysisParts ==
  ASSUME NEW b, NEW x, NEW early
  PROVE  Analysis(b, x, early) =
           {SwingFact(Swings(x), s) : s \in Swings(x)} \union Breaks(x)
             \union LiquidityLevels(Swings(x)) \union Sweeps(b, LiquidityLevels(Swings(x)))
             \union Zones(b, x, early) \union Statuses(b, Zones(b, x, early))
BY DEF Analysis, Zones

\* A zone of the first n candles is one of every series of those, unless it is a gap too
\* new to be known there.
LEMMA ZonesKept ==
  ASSUME NEW b \in Seq(Candle), NEW c \in Seq(Candle), NEW n \in Nat, Agree(b, c, n),
         NEW x \in Seq(Candle), NEW y \in Seq(Candle), Agree(x, y, n), Len(x) = Len(b),
         NEW early, NEW late, late => n < Len(c),
         NEW z \in Zones(b, x, early)
  PROVE  /\ z.at \in Nat \ {0} /\ z.since \in Nat /\ z.at <= z.since
         /\ z.at <= n => z \in Zones(c, y, late)
<1>1. \A e \in Breaks(x) : /\ e.at \in 1..Len(b) /\ e.at \in Nat \ {0} /\ e.side \in Edges
                           /\ e.at <= n => e \in Breaks(y)
  BY BreakIs, BreaksKept
<1>2. CASE z \in KnownGaps(b, early)
  <2>1. z \in Gaps(b)
    BY <1>2 DEF KnownGaps
  <2>2. z.at \in Nat \ {0} /\ z.since = z.at + 1 /\ (z.at <= n => z \in Gaps(c))
    BY <2>1, GapIs, GapsKept
  <2>3. z.at <= n /\ late => z.at < Len(c)
    <3>1. Len(c) \in Nat
      OBVIOUS
    <3> QED
      BY <2>2, <3>1
  <2>4. z.at <= n => z \in KnownGaps(c, late)
    BY <2>2, <2>3 DEF KnownGaps
  <2> QED
    BY <2>2, <2>4 DEF Zones
<1>3. CASE z \in Blocks(b, Breaks(x))
  <2> DEFINE K == Breaks(x)
             J == Breaks(y)
  <2>0. /\ \A e \in K : e.at \in 1..Len(b) /\ e.side \in Edges
        /\ \A e \in K : e.at \in Nat \ {0} /\ (e.at <= n => e \in J)
    BY <1>1
  <2> HIDE DEF K, J
  <2>1. z.at \in Nat \ {0} /\ z.since \in Nat /\ z.at <= z.since
    BY <1>3, <2>0, BlockIs DEF K
  <2>2. z.at <= n => z \in Blocks(c, Breaks(y))
    BY <1>3, <2>0, BlocksKept DEF K, J
  <2> QED
    BY <2>1, <2>2 DEF Zones
<1> QED
  BY <1>2, <1>3 DEF Zones

\* What the analysis says of the first n candles it says of every series of those.
LEMMA AnalysisKept ==
  ASSUME NEW b \in Seq(Candle), NEW c \in Seq(Candle), NEW n \in Nat, Agree(b, c, n),
         NEW x \in Seq(Candle), NEW y \in Seq(Candle), Agree(x, y, n), Len(x) = Len(b),
         NEW early, NEW late, late => n < Len(c),
         NEW f \in Analysis(b, x, early), f.at <= n
  PROVE  f \in Analysis(c, y, late)
<1>1. CASE f \in {SwingFact(Swings(x), s) : s \in Swings(x)}
  <2>1. PICK s \in Swings(x) : f = SwingFact(Swings(x), s)
    BY <1>1
  <2>2. s.at + RightBars <= n
    BY <2>1 DEF SwingFact
  <2>3. s \in Swings(y) /\ s \in SwingRecord
    BY <2>2, SwingKept, SwingIs
  <2>4. f = SwingFact(Swings(y), s)
    BY <2>1, <2>2, <2>3, ClassKept
  <2> QED
    BY <2>3, <2>4, AnalysisParts
<1>2. CASE f \in Breaks(x)
  BY <1>2, BreaksKept, AnalysisParts
<1>3. CASE f \in LiquidityLevels(Swings(x))
  BY <1>3, LevelsKept, AnalysisParts
<1>4. CASE f \in Sweeps(b, LiquidityLevels(Swings(x)))
  <2>1. \A l \in LiquidityLevels(Swings(x)) :
          l.at \in Nat \ {0} /\ (l.at <= n => l \in LiquidityLevels(Swings(y)))
    BY LevelIs, LevelsKept
  <2>2. f \in Sweeps(c, LiquidityLevels(Swings(y)))
    BY <1>4, <2>1, SweepsKept
  <2> QED
    BY <2>2, AnalysisParts
<1>5. CASE f \in Zones(b, x, early)
  BY <1>5, ZonesKept, AnalysisParts
<1>6. CASE f \in Statuses(b, Zones(b, x, early))
  <2>1. \A z \in Zones(b, x, early) :
          /\ z.at \in Nat \ {0} /\ z.since \in Nat /\ z.at <= z.since
          /\ z.at <= n => z \in Zones(c, y, late)
    BY ZonesKept
  <2>2. f \in Statuses(c, Zones(c, y, late))
    BY <1>6, <2>1, StatusesKept
  <2> QED
    BY <2>2, AnalysisParts
<1> QED
  BY <1>1, <1>2, <1>3, <1>4, <1>5, <1>6, AnalysisParts

\* What the analysis says of some first candles, it says alike of two series of those.
Alike(b, x, c, n, early) ==
  Agree(b, c, n) /\ Agree(x, c, n) /\ Len(x) = Len(b) /\ (early => n < Len(b))
LEMMA AnalysesAgree ==
  \A b, x, c \in Seq(Candle), n \in Nat, early \in BOOLEAN :
    Alike(b, x, c, n, early) =>
      UpTo(Analysis(b, x, early), n) = UpTo(Analysis(c, c, FALSE), n)
<1> TAKE b, x, c \in Seq(Candle), n \in Nat, early \in BOOLEAN
<1> HAVE Alike(b, x, c, n, early)
<1>0. Agree(b, c, n) /\ Agree(x, c, n) /\ Len(x) = Len(b) /\ (early => n < Len(b))
  BY DEF Alike
<1>1. Agree(c, b, n) /\ Agree(c, x, n)
  BY <1>0, AgreeIs
<1>2. \A f \in Analysis(b, x, early) : f.at <= n => f \in Analysis(c, c, FALSE)
  BY <1>0, AnalysisKept
<1>3. \A f \in Analysis(c, c, FALSE) : f.at <= n => f \in Analysis(b, x, early)
  BY <1>0, <1>1, AnalysisKept
<1> QED
  BY <1>2, <1>3 DEF UpTo

\* What the analysis says, it says of a candle.
LEMMA FactsHaveTheirTime ==
  ASSUME NEW b \in Seq(Candle)
  PROVE  \A f \in Analysis(b, b, FALSE) : f.at \in Nat \ {0}
<1>1. \A f \in {SwingFact(Swings(b), s) : s \in Swings(b)} : f.at \in Nat \ {0}
  <2>1. \A s \in Swings(b) : s.at \in Nat \ {0}
    BY SwingIs DEF SwingRecord
  <2> QED
    BY <2>1, SmartAssumption DEF SwingFact
<1>2. \A f \in Breaks(b) : f.at \in Nat \ {0}
  BY BreakIs
<1>3. \A f \in LiquidityLevels(Swings(b)) : f.at \in Nat \ {0}
  BY LevelIs
<1>4. \A f \in Sweeps(b, LiquidityLevels(Swings(b))) : f.at \in Nat \ {0}
  BY SweepIs
<1>5. \A f \in Zones(b, b, FALSE) : f.at \in Nat \ {0}
  <2>1. Agree(b, b, 0)
    BY DEF Agree
  <2> QED
    BY <2>1, ZonesKept
<1>6. \A f \in Statuses(b, Zones(b, b, FALSE)) : f.at \in Nat \ {0}
  <2> DEFINE Z == Zones(b, b, FALSE)
  <2> HIDE DEF Z
  <2>1. ASSUME NEW f \in Statuses(b, Z) PROVE f.at \in Nat \ {0}
    <3>1. PICK i \in 1..Len(b), z \in Z : f = [at |-> i, zone |-> z, depth |-> Depth(b[i], z)]
      BY DEF Statuses
    <3> QED
      BY <3>1
  <2> QED
    BY <2>1 DEF Z
<1> QED
  BY <1>1, <1>2, <1>3, <1>4, <1>5, <1>6, AnalysisParts
-----------------------------------------------------------------------------
(* The engines: nothing said of settled candles is unsaid *)

\* The series and what is remembered of it are candles, and what is remembered was
\* made of the candles that had settled as they are now.
Shaped(b) == Len(b) <= Len(Shapes) /\ \A i \in 1..Len(b) : b[i] \in Shapes[i]
Candles ==
  /\ series \in Seq(Candle) /\ Shaped(series)
  /\ cached.of \in Seq(Candle) /\ Shaped(cached.of)
  /\ settled \in 0..Len(series) /\ Len(series) <= settled + 2
  /\ cached.firm \in 0..settled /\ said.sure \in 0..settled
Remembered ==
  \A i \in 1..Len(cached.of) : i <= cached.firm => cached.of[i] = series[i]
SmartInv == Candles /\ Remembered /\ AnalysisNeverRepaints

\* The candles a shape admits are candles.
LEMMA ShapesAreCandles ==
  /\ Len(Shapes) \in Nat /\ DOMAIN Shapes = 1..Len(Shapes)
  /\ \A i \in 1..Len(Shapes) : \A c \in Shapes[i] : c \in Candle
BY SmartAssumption DEF Candle

\* The first candles of a series.
LEMMA FirstCandles ==
  ASSUME NEW s \in Seq(Candle), NEW n \in 1..Len(s)
  PROVE  LET r == SubSeq(s, 1, n) IN
         /\ r \in Seq(Candle) /\ Len(r) = n
         /\ \A i \in 1..n : r[i] = s[i]
<1> DEFINE r == SubSeq(s, 1, n)
<1>1. Len(s) \in Nat /\ n \in Nat /\ 1 <= n /\ n <= Len(s) /\ 1 \in Int /\ n \in Int
  OBVIOUS
<1>2. \A i \in 1..n : s[i] \in Candle
  <2>1. \A i \in 1..Len(s) : s[i] \in Candle
    OBVIOUS
  <2> QED
    BY <1>1, <2>1
<1>3. /\ r \in Seq(Candle) /\ Len(r) = (IF 1 <= n THEN n - 1 + 1 ELSE 0)
      /\ \A i \in 1..n - 1 + 1 : r[i] = s[1 + i - 1]
  BY ONLY <1>1, <1>2, SubSeqProperties
<1>4. Len(r) = n /\ \A i \in 1..n : r[i] = s[i]
  <2> HIDE DEF r
  <2>1. \A i \in 1..n : i \in 1..n - 1 + 1 /\ 1 + i - 1 = i
    BY <1>1
  <2> QED
    BY <1>1, <1>3, <2>1
<1> QED
  BY <1>3, <1>4

\* What a question is asked of: the first candles, and a structure of as many.  Both are
\* the candles as they stand now, up to where the answer binds.
LEMMA AskedIs ==
  ASSUME Candles, Remembered, NEW asked \in Askable, asked >= 1, NEW early \in BOOLEAN
  PROVE  LET b == KnownBars(asked)
             x == StructureBars(b)
             k == SureOf(x.firm, asked, early)
         IN  /\ b \in Seq(Candle) /\ Len(b) = asked /\ asked \in 1..Len(series)
             /\ x.of \in Seq(Candle) /\ Len(x.of) = asked /\ Shaped(x.of)
             /\ x.firm \in 0..settled
             /\ \A i \in 1..asked : i <= x.firm => x.of[i] = series[i]
             /\ k \in 0..settled /\ (early => k < asked)
             /\ Agree(b, series, k) /\ Agree(x.of, series, k)
<1> DEFINE b == KnownBars(asked)
           x == StructureBars(b)
           k == SureOf(x.firm, asked, early)
<1>1. /\ series \in Seq(Candle) /\ Len(series) \in Nat /\ settled \in Nat
      /\ settled <= Len(series) /\ cached.firm \in 0..settled /\ cached.firm \in Nat
  BY DEF Candles
<1>2. asked \in Nat /\ asked \in 1..Len(series)
  BY <1>1 DEF Askable
<1>3. b \in Seq(Candle) /\ Len(b) = asked /\ \A i \in 1..asked : b[i] = series[i]
  BY <1>1, <1>2, FirstCandles DEF KnownBars
<1>4. Shaped(b)
  <2>1. Len(Shapes) \in Nat /\ Len(series) <= Len(Shapes)
        /\ \A i \in 1..Len(series) : series[i] \in Shapes[i]
    BY ShapesAreCandles DEF Candles, Shaped
  <2> HIDE DEF b
  <2> QED
    BY <1>1, <1>2, <1>3, <2>1 DEF Shaped
<1> HIDE DEF b
<1>5. /\ x.of \in Seq(Candle) /\ Len(x.of) = asked /\ Shaped(x.of)
      /\ x.firm \in 0..settled
      /\ \A i \in 1..asked : i <= x.firm => x.of[i] = series[i]
  <2>1. CASE Len(cached.of) = Len(b)
    <3>1. x = cached
      BY <2>1 DEF StructureBars
    <3> HIDE DEF x
    <3> QED
      BY <1>3, <2>1, <3>1 DEF Candles, Remembered
  <2>2. CASE Len(cached.of) # Len(b)
    <3>1. x.of = b /\ x.firm = settled
      BY <2>2 DEF StructureBars
    <3> HIDE DEF x
    <3> QED
      BY <1>1, <1>3, <1>4, <3>1
  <2> QED
    BY <2>1, <2>2
<1>6. k \in 0..settled /\ k <= x.firm /\ k <= asked /\ (early => k < asked)
  <2> DEFINE a == IF early THEN asked - 1 ELSE asked
             f == x.firm
  <2>1. a \in Int /\ a >= 0 /\ a <= asked /\ (early => a < asked)
    BY <1>2
  <2>2. f \in 0..settled /\ f \in Int
    BY <1>1, <1>5
  <2>3. k = Min({f, a})
    BY DEF SureOf
  <2> HIDE DEF a, f, x, k
  <2>4. k = IF f <= a THEN f ELSE a
    BY <2>1, <2>2, <2>3, MinOfTwo
  <2>5. f = x.firm
    BY DEF f
  <2> QED
    BY <1>1, <1>2, <2>1, <2>2, <2>4, <2>5
<1> HIDE DEF x, k
<1>7. k \in Nat /\ k <= Len(series) /\ \A i \in 1..k : i \in 1..asked /\ i <= x.firm
  <2>1. x.firm \in Nat
    BY <1>1, <1>5
  <2> QED
    BY <1>1, <1>2, <1>6, <2>1
<1>8. Agree(b, series, k)
  BY <1>3, <1>6, <1>7 DEF Agree
<1>9. Agree(x.of, series, k)
  BY <1>5, <1>6, <1>7 DEF Agree
<1> QED
  BY <1>2, <1>3, <1>5, <1>6, <1>8, <1>9 DEF b, x, k

\* A question is answered in the words of hindsight, where it binds.
LEMMA AnalyseStep ==
  ASSUME SmartInv, NEW asked \in Askable, NEW early \in BOOLEAN, Analyse(asked, early)
  PROVE  SmartInv'
<1> DEFINE b == KnownBars(asked)
           x == StructureBars(b)
           k == SureOf(x.firm, asked, early)
           facts == Analysis(b, x.of, early)
<1>1. /\ asked >= 1 /\ cached' = x /\ series' = series /\ settled' = settled
      /\ said' = [facts |-> facts, sure |-> k]
  BY DEF Analyse
<1>2. Candles /\ Remembered
  BY DEF SmartInv
<1>3. /\ b \in Seq(Candle) /\ Len(b) = asked /\ asked \in 1..Len(series)
      /\ x.of \in Seq(Candle) /\ Len(x.of) = asked /\ Shaped(x.of)
      /\ x.firm \in 0..settled
      /\ \A i \in 1..asked : i <= x.firm => x.of[i] = series[i]
      /\ k \in 0..settled /\ (early => k < asked)
      /\ Agree(b, series, k) /\ Agree(x.of, series, k)
  BY <1>1, <1>2, AskedIs
<1>4. said'.facts = facts /\ said'.sure = k
  BY <1>1
<1>5. series \in Seq(Candle) /\ settled \in Nat /\ k \in Nat
  BY <1>2, <1>3 DEF Candles
<1> HIDE DEF b, x, k
<1>6. Candles'
  BY <1>1, <1>2, <1>3, <1>4 DEF Candles
<1>7. Remembered'
  BY <1>1, <1>3 DEF Remembered
<1>8. UpTo(facts, k) = UpTo(Analysis(series, series, FALSE), k)
  <2> DEFINE y == x.of
  <2>1. b \in Seq(Candle) /\ y \in Seq(Candle) /\ Alike(b, y, series, k, early)
    BY <1>3 DEF Alike
  <2>2. facts = Analysis(b, y, early)
    OBVIOUS
  <2> HIDE DEF y, facts
  <2>3. UpTo(Analysis(b, y, early), k) = UpTo(Analysis(series, series, FALSE), k)
    BY <1>5, <2>1, AnalysesAgree, ZenonT(60)
  <2> QED
    BY <2>2, <2>3
<1>9. AnalysisNeverRepaints'
  <2> HIDE DEF facts
  <2> QED
    BY <1>1, <1>4, <1>8 DEF AnalysisNeverRepaints
<1> QED
  BY <1>6, <1>7, <1>9 DEF SmartInv

\* The market leaves the candles that have settled as they are.
LEMMA MovesKeepCandles ==
  ASSUME Candles, Remembered, SeriesMoves
  PROVE  /\ Candles' /\ Remembered' /\ Agree(series, series', settled)
         /\ cached' = cached /\ said' = said /\ settled <= settled' /\ settled' \in Nat
<1>1. /\ series \in Seq(Candle) /\ Len(series) \in Nat /\ settled \in Nat
      /\ settled <= Len(series) /\ Len(series) <= settled + 2
      /\ cached.of \in Seq(Candle) /\ Shaped(cached.of) /\ Len(cached.of) \in Nat
      /\ cached.firm \in 0..settled /\ said.sure \in 0..settled
      /\ Len(series) <= Len(Shapes) /\ \A i \in 1..Len(series) : series[i] \in Shapes[i]
  <2>1. /\ series \in Seq(Candle) /\ Shaped(series) /\ cached.of \in Seq(Candle)
        /\ Shaped(cached.of) /\ settled \in 0..Len(series) /\ Len(series) <= settled + 2
        /\ cached.firm \in 0..settled /\ said.sure \in 0..settled
    BY DEF Candles
  <2>2. Len(series) <= Len(Shapes) /\ \A i \in 1..Len(series) : series[i] \in Shapes[i]
    BY <2>1 DEF Shaped
  <2>3. Len(series) \in Nat /\ Len(cached.of) \in Nat
    BY <2>1
  <2>4. settled \in Nat /\ settled <= Len(series)
    BY <2>1, <2>3
  <2> QED
    BY <2>1, <2>2, <2>3, <2>4
<1>2. Len(Shapes) \in Nat /\ DOMAIN Shapes = 1..Len(Shapes)
      /\ \A i \in 1..Len(Shapes) : \A c \in Shapes[i] : c \in Candle
  BY ShapesAreCandles
<1>3. ASSUME series' \in Seq(Candle), Shaped(series'), settled' \in 0..Len(series'),
             Len(series') <= settled' + 2, Agree(series, series', settled),
             settled <= settled', settled' \in Nat, cached' = cached, said' = said
      PROVE  Candles' /\ Remembered'
  <2>1. Candles'
    BY <1>1, <1>3 DEF Candles
  <2>2. \A i \in 1..Len(cached.of) : i <= cached.firm => i \in 1..settled
    BY <1>1
  <2>3. Remembered'
    BY <1>3, <2>2 DEF Remembered, Agree
  <2> QED
    BY <2>1, <2>3
<1>4. ASSUME NEW c, BarOpens(c)
      PROVE  /\ series' \in Seq(Candle) /\ Shaped(series') /\ settled' \in 0..Len(series')
             /\ Len(series') <= settled' + 2 /\ Agree(series, series', settled)
             /\ settled <= settled' /\ settled' \in Nat /\ cached' = cached /\ said' = said
  <2>1. /\ Len(series) < Len(Shapes) /\ settled >= Len(series) - 1
        /\ c \in Shapes[Len(series) + 1]
        /\ series' = Append(series, c)
        /\ settled' = settled /\ cached' = cached /\ said' = said
    BY <1>4 DEF BarOpens
  <2>2. c \in Candle
    BY <1>1, <1>2, <2>1
  <2>3. /\ series' \in Seq(Candle) /\ Len(series') = Len(series) + 1
        /\ series'[Len(series) + 1] = c
        /\ \A i \in 1..Len(series) : series'[i] = series[i]
    BY <1>1, <2>1, <2>2
  <2>4. Shaped(series')
    BY <1>1, <1>2, <2>1, <2>3 DEF Shaped
  <2>5. Agree(series, series', settled)
    BY <1>1, <2>3 DEF Agree
  <2> QED
    BY <1>1, <2>1, <2>3, <2>4, <2>5
<1>5. ASSUME NEW i, NEW c, BarChanges(i, c)
      PROVE  /\ series' \in Seq(Candle) /\ Shaped(series') /\ settled' \in 0..Len(series')
             /\ Len(series') <= settled' + 2 /\ Agree(series, series', settled)
             /\ settled <= settled' /\ settled' \in Nat /\ cached' = cached /\ said' = said
  <2>1. /\ i \in settled + 1 .. Len(series) /\ c \in Shapes[i]
        /\ series' = [series EXCEPT ![i] = c]
        /\ settled' = settled /\ cached' = cached /\ said' = said
    BY <1>5 DEF BarChanges
  <2>2. i \in 1..Len(series) /\ i \in 1..Len(Shapes) /\ c \in Candle
    BY <1>1, <1>2, <2>1
  <2>3. /\ series' \in Seq(Candle) /\ Len(series') = Len(series)
        /\ series'[i] = c
        /\ \A j \in 1..Len(series) : j # i => series'[j] = series[j]
    BY <1>1, <2>1, <2>2
  <2>4. Shaped(series')
    BY <1>1, <1>2, <2>1, <2>3 DEF Shaped
  <2>5. Agree(series, series', settled)
    BY <1>1, <2>1, <2>3 DEF Agree
  <2> QED
    BY <1>1, <2>1, <2>3, <2>4, <2>5
<1>6. ASSUME BarSettles
      PROVE  /\ series' \in Seq(Candle) /\ Shaped(series') /\ settled' \in 0..Len(series')
             /\ Len(series') <= settled' + 2 /\ Agree(series, series', settled)
             /\ settled <= settled' /\ settled' \in Nat /\ cached' = cached /\ said' = said
  <2>1. /\ settled < Len(series) /\ settled' = settled + 1
        /\ series' = series /\ cached' = cached /\ said' = said
    BY <1>6 DEF BarSettles
  <2> QED
    BY <1>1, <2>1 DEF Agree, Shaped
<1>7. \/ \E c : BarOpens(c) \/ \E i : BarChanges(i, c)
      \/ BarSettles
  BY DEF SeriesMoves
<1> QED
  BY <1>3, <1>4, <1>5, <1>6, <1>7

\* So hindsight says the same of them.
LEMMA HindsightKept ==
  ASSUME Candles, Candles', NEW k \in 0..settled, Agree(series, series', settled)
  PROVE  UpTo(Analysis(series, series, FALSE), k) = UpTo(Analysis(series', series', FALSE), k)
<1>1. series \in Seq(Candle) /\ series' \in Seq(Candle) /\ settled \in Nat /\ k \in Nat
      /\ k <= settled
  BY DEF Candles
<1>2. Agree(series, series', k) /\ Agree(series', series', k)
  BY <1>1, AgreeIs DEF Agree
<1>3. Agree(series, series, k)
  BY <1>1, <1>2 DEF Agree
<1> DEFINE before == series
           after == series'
<1>4. /\ before \in Seq(Candle) /\ after \in Seq(Candle)
      /\ Alike(before, before, after, k, FALSE) /\ FALSE \in BOOLEAN
  BY <1>1, <1>2 DEF Alike
<1> HIDE DEF before, after
<1>5. UpTo(Analysis(before, before, FALSE), k) = UpTo(Analysis(after, after, FALSE), k)
  BY <1>1, <1>4, AnalysesAgree, ZenonT(60)
<1> QED
  BY <1>5 DEF before, after
-----------------------------------------------------------------------------
(* The setups: a plan stands on what the analysis said *)

\* The oldest of some facts is one of them.
LEMMA OldestIs ==
  ASSUME NEW S, \A x \in S : x.at \in Nat
  PROVE  Oldest(S) \subseteq S
<1>1. CASE S = {}
  BY <1>1 DEF Oldest
<1>2. CASE S # {}
  <2> DEFINE T == {x.at : x \in S}
  <2>1. T \subseteq Nat /\ T # {}
    BY <1>2
  <2>2. Min(T) \in T /\ \A y \in T : Min(T) <= y
    <3> HIDE DEF T
    <3> QED
      BY <2>1, MinOfNaturals
  <2>3. PICK x \in S : x.at = Min(T)
    BY <2>2
  <2>4. \A y \in S : x.at <= y.at
    <3>1. \A y \in S : y.at \in T
      OBVIOUS
    <3> HIDE DEF T
    <3> QED
      BY <2>2, <2>3, <3>1
  <2> QED
    BY <1>2, <2>4 DEF Oldest
<1> QED
  BY <1>1, <1>2

\* What the strategy sees of candles b and the structure of x.
Seen(v, b, x, early) ==
  /\ v = View(b, x, early)
  /\ b \in Seq(Candle) /\ x \in Seq(Candle) /\ Len(x) = Len(b)
\* What a view is of.
LEMMA SeenIs ==
  ASSUME NEW v, NEW b, NEW x, NEW early, Seen(v, b, x, early)
  PROVE  /\ v.bars = b /\ v.swings = Swings(x) /\ v.breaks = Breaks(x)
         /\ v.sweeps = Sweeps(b, LiquidityLevels(Swings(x)))
         /\ v.gaps = KnownGaps(b, early) /\ v.blocks = Blocks(b, Breaks(x))
         /\ b \in Seq(Candle) /\ x \in Seq(Candle) /\ Len(x) = Len(b)
BY DEF Seen, View

\* What evidence there is, of each kind, is of what is seen.
LEMMA EvidenceIs ==
  ASSUME NEW v, NEW b, NEW x, NEW early, Seen(v, b, x, early), NEW t \in Edges
  PROVE  /\ Sweep(v, t) \subseteq Sweeps(b, LiquidityLevels(Swings(x)))
         /\ Structure(v, t) \subseteq Breaks(x)
         /\ Gap(v, t) \subseteq KnownGaps(b, early) /\ Block(v, t) \subseteq Blocks(b, Breaks(x))
<1> DEFINE S1 == {s \in v.sweeps : s.level.side = Turned(t)}
           S2 == {e \in v.breaks : e.side = t /\ e.turn}
           S3 == {e \in v.breaks : e.side = t}
           S4 == {g \in v.gaps : g.side = t}
           S5 == {o \in v.blocks : o.side = t}
<1>1. /\ Sweep(v, t) = Oldest(S1) /\ Gap(v, t) = Oldest(S4) /\ Block(v, t) = Oldest(S5)
      /\ Structure(v, t) = (IF S2 # {} THEN Oldest(S2) ELSE Oldest(S3))
  BY DEF Sweep, Gap, Block, Structure
<1>2. /\ v.breaks = Breaks(x)
      /\ v.sweeps = Sweeps(b, LiquidityLevels(Swings(x)))
      /\ v.gaps = KnownGaps(b, early) /\ v.blocks = Blocks(b, Breaks(x))
      /\ b \in Seq(Candle) /\ x \in Seq(Candle) /\ Len(x) = Len(b)
  BY SeenIs
<1>3. /\ \A y \in S1 : y.at \in Nat
      /\ \A y \in S2 : y.at \in Nat
      /\ \A y \in S3 : y.at \in Nat
      /\ \A y \in S4 : y.at \in Nat
      /\ \A y \in S5 : y.at \in Nat
  <2>1. \A y \in Sweeps(b, LiquidityLevels(Swings(x))) : y.at \in Nat
    BY <1>2, SweepIs
  <2>2. \A y \in Breaks(x) : y.at \in Nat /\ y.at \in 1..Len(b) /\ y.side \in Edges
    BY <1>2, BreakIs
  <2>3. \A y \in KnownGaps(b, early) : y.at \in Nat
    BY <1>2, GapIs DEF KnownGaps
  <2>4. \A y \in Blocks(b, Breaks(x)) : y.at \in Nat
    BY <1>2, <2>2, BlockIs
  <2> QED
    BY <1>2, <2>1, <2>2, <2>3, <2>4
<1>4. /\ Oldest(S1) \subseteq S1 /\ Oldest(S2) \subseteq S2 /\ Oldest(S3) \subseteq S3
      /\ Oldest(S4) \subseteq S4 /\ Oldest(S5) \subseteq S5
  <2> HIDE DEF S1, S2, S3, S4, S5
  <2> QED
    BY <1>3, OldestIs
<1> QED
  BY <1>1, <1>2, <1>4

\* All of it is in the analysis of the same candles.
LEMMA EvidenceIsSaid ==
  ASSUME NEW v, NEW b, NEW x, NEW early, Seen(v, b, x, early), NEW t \in Edges
  PROVE  Evidence(v, t) \subseteq Analysis(b, x, early)
BY EvidenceIs, AnalysisParts DEF Evidence, Zones

\* The least of one, two or three numbers.
LEMMA LeastOfThree ==
  ASSUME NEW S, S # {}, NEW u \in Int, NEW v \in Int, NEW w \in Int, S \subseteq {u, v, w}
  PROVE  (CHOOSE x \in S : \A y \in S : x <= y) \in Int
<1>1. \E x \in S : \A y \in S : x <= y
  <2>1. CASE u \in S /\ (v \in S => u <= v) /\ (w \in S => u <= w)
    BY <2>1
  <2>2. CASE v \in S /\ (u \in S => v <= u) /\ (w \in S => v <= w)
    BY <2>2
  <2>3. CASE w \in S /\ (u \in S => w <= u) /\ (v \in S => w <= v)
    BY <2>3
  <2>4. u \in S \/ v \in S \/ w \in S
    OBVIOUS
  <2> QED
    BY <2>1, <2>2, <2>3, <2>4
<1>2. (CHOOSE x \in S : \A y \in S : x <= y) \in S
  BY <1>1
<1> QED
  BY <1>2

\* A plan that is executable has an entry, and a stop that is a number.
LEMMA PricesOfPlan ==
  ASSUME NEW v, NEW b, NEW x, NEW early, Seen(v, b, x, early), NEW t \in Edges, NEW ctx,
         Executable(v, ctx, t)
  PROVE  Entry(v, t) \in Int /\ PlanStop(v, t) \in Int /\ PlanStop(v, t) < Entry(v, t)
<1>1. /\ Gap(v, t) \union Block(v, t) # {} /\ Anchors(v, t) # {}
      /\ PlanStop(v, t) < Entry(v, t)
  BY DEF Executable
<1>0. /\ v.bars = b /\ v.swings = Swings(x)
      /\ b \in Seq(Candle) /\ x \in Seq(Candle) /\ Len(x) = Len(b)
  BY SeenIs
<1>2. \A z \in Gap(v, t) \union Block(v, t) :
        z.near \in Int /\ z.far \in Int
  <2>1. \A e \in Breaks(x) : e.at \in 1..Len(b) /\ e.side \in Edges
    BY <1>0, BreakIs
  <2> QED
    BY <1>0, <2>1, EvidenceIs, GapIs, BlockIs DEF KnownGaps
<1>3. Entry(v, t) \in Int
  <2> DEFINE Z == IF Gap(v, t) # {} THEN Gap(v, t) ELSE Block(v, t)
             z == CHOOSE y \in Z : TRUE
  <2>1. z \in Z /\ Z \subseteq Gap(v, t) \union Block(v, t)
    BY <1>1
  <2>2. z.near \in Int /\ z.far \in Int
    <3> HIDE DEF Z, z
    <3> QED
      BY <1>2, <2>1
  <2>3. Entry(v, t) = z.near + z.far
    BY DEF Entry
  <2> HIDE DEF z
  <2> QED
    BY <2>2, <2>3
<1>4. PICK u \in Int : \A s \in Sweep(v, t) : Bottom(b[s.at], t) = u
  <2>1. \A s \in Sweep(v, t) : s.at \in 1..Len(b)
    BY <1>0, EvidenceIs, SweepIs
  <2>2. \A s \in Sweep(v, t) : Bottom(b[s.at], t) \in Int
    <3> SUFFICES ASSUME NEW s \in Sweep(v, t) PROVE Bottom(b[s.at], t) \in Int
      OBVIOUS
    <3>1. b[s.at] \in Candle
      BY <1>0, <2>1
    <3> QED
      BY <3>1, PricesOfCandle
  <2>3. \A r, s \in Sweep(v, t) : r = s
    BY DEF Sweep, Oldest
  <2> QED
    BY <2>2, <2>3
<1>5. PICK h \in Int : \A o \in Block(v, t) : o.far = h
  <2>1. \A r, s \in Block(v, t) : r = s
    BY DEF Block, Oldest
  <2> QED
    BY <1>2, <2>1
<1>6. PICK w \in Int : \A s \in LastSwing(v, Turned(t)) : Signed(s.price, t) = w
  <2>1. \A r, s \in LastSwing(v, Turned(t)) : r = s
    BY DEF LastSwing
  <2>2. \A s \in LastSwing(v, Turned(t)) : s \in Swings(x)
    BY <1>0 DEF LastSwing, OnSide
  <2>3. \A s \in LastSwing(v, Turned(t)) : s.price \in Int
    BY <1>0, <2>2, SwingIs DEF SwingRecord
  <2>4. \A s \in LastSwing(v, Turned(t)) : Signed(s.price, t) \in Int
    BY <2>3, PriceOfSide
  <2> QED
    BY <2>1, <2>4
<1>7. Anchors(v, t) \subseteq {u, h, w}
  BY <1>0, <1>4, <1>5, <1>6 DEF Anchors
<1>8. PlanStop(v, t) \in Int
  <2> DEFINE least == CHOOSE a \in Anchors(v, t) : \A y \in Anchors(v, t) : a <= y
  <2>1. least \in Int
    BY ONLY <1>1, <1>7, LeastOfThree, u \in Int, h \in Int, w \in Int
  <2>2. PlanStop(v, t) = 2 * least - StopBuffer
    BY DEF PlanStop
  <2> HIDE DEF least
  <2> QED
    BY <2>1, <2>2, SetupAssumption
<1> QED
  BY <1>1, <1>3, <1>8

\* What a plan stands on was sure, and is there in the candles as they stand now.
PlanStands ==
  plan # NoPlan =>
    /\ plan.side \in Edges /\ {plan.entry, plan.stop} \subseteq Int /\ plan.stop < plan.entry
    /\ plan.evidence # {} /\ plan.sure \in 0..settled
    /\ UpTo(plan.evidence, plan.sure) \subseteq Analysis(series, series, FALSE)
SetupInv == SmartInv /\ PlanStands

\* The market takes back nothing that a plan stands on.
LEMMA PlanOutlivesMoves ==
  ASSUME SetupInv, SeriesMoves, UNCHANGED plan
  PROVE  SetupInv'
<1>1. Candles /\ Remembered /\ AnalysisNeverRepaints
  BY DEF SetupInv, SmartInv
<1>2. /\ Candles' /\ Remembered' /\ Agree(series, series', settled)
      /\ cached' = cached /\ said' = said /\ settled <= settled' /\ settled' \in Nat
  BY <1>1, MovesKeepCandles
<1>3. said.sure \in 0..settled /\ settled \in Nat
  BY <1>1 DEF Candles
<1>4. AnalysisNeverRepaints'
  <2>1. UpTo(Analysis(series, series, FALSE), said.sure)
          = UpTo(Analysis(series', series', FALSE), said.sure)
    BY <1>1, <1>2, <1>3, HindsightKept
  <2> QED
    BY <1>1, <1>2, <2>1 DEF AnalysisNeverRepaints
<1>5. PlanStands'
  <2> SUFFICES ASSUME plan # NoPlan
               PROVE  /\ plan.sure \in 0..settled'
                      /\ UpTo(plan.evidence, plan.sure) \subseteq Analysis(series', series', FALSE)
    BY DEF PlanStands, SetupInv
  <2> SUFFICES ASSUME NEW f \in UpTo(plan.evidence, plan.sure)
               PROVE  plan.sure \in 0..settled' /\ f \in Analysis(series', series', FALSE)
    <3>1. plan.sure \in 0..settled'
      BY <1>2, <1>3 DEF PlanStands, SetupInv
    <3> QED
      BY <3>1
  <2>1. plan.sure \in 0..settled /\ f \in Analysis(series, series, FALSE) /\ f.at <= plan.sure
    BY DEF PlanStands, SetupInv, UpTo
  <2>2. UpTo(Analysis(series, series, FALSE), plan.sure)
          = UpTo(Analysis(series', series', FALSE), plan.sure)
    BY <1>1, <1>2, <2>1, HindsightKept
  <2>3. plan.sure \in 0..settled'
    BY <1>2, <1>3, <2>1
  <2> QED
    BY <2>1, <2>2, <2>3 DEF UpTo
<1> QED
  BY <1>2, <1>4, <1>5 DEF SetupInv, SmartInv

\* A plan is made of what was said to the question that led to it.
LEMMA EvaluateStep ==
  ASSUME SetupInv, NEW asked \in Askable, NEW early \in BOOLEAN, EvaluateCandle(asked, early)
  PROVE  SetupInv'
<1> DEFINE b == KnownBars(asked)
           x == StructureBars(b).of
           v == View(b, x, early)
           ready(ctx) == {t \in Edges : IsReady(v, ctx, t)}
           side(ctx) == IF "HIGH" \in ready(ctx) THEN "HIGH" ELSE "LOW"
<1>1. PICK ctx \in Contexts :
        /\ ready(ctx) # {} /\ Executable(v, ctx, side(ctx)) /\ Analyse(asked, early)
        /\ plan' = PlanOf(v, ctx, side(ctx), said'.sure)
  BY DEF EvaluateCandle
<1> DEFINE t == side(ctx)
<1>2. t \in Edges /\ IsReady(v, ctx, t)
  BY <1>1 DEF Edges
<1>3. /\ asked >= 1 /\ series' = series /\ settled' = settled
      /\ said'.facts = Analysis(b, x, early)
  BY <1>1 DEF Analyse
<1>4. SmartInv' /\ Candles /\ Remembered
  BY <1>1, AnalyseStep DEF SetupInv, SmartInv
<1>5. Seen(v, b, x, early)
  <2>1. /\ b \in Seq(Candle) /\ Len(b) = asked /\ x \in Seq(Candle) /\ Len(x) = asked
    BY <1>3, <1>4, AskedIs
  <2> QED
    BY <2>1 DEF Seen
<1> HIDE DEF b, x, v, t
<1>6. /\ plan'.side = t /\ plan'.entry = Entry(v, t) /\ plan'.stop = PlanStop(v, t)
      /\ plan'.evidence = Evidence(v, t) /\ plan'.sure = said'.sure
  BY <1>1 DEF PlanOf, t
<1>7. Entry(v, t) \in Int /\ PlanStop(v, t) \in Int /\ PlanStop(v, t) < Entry(v, t)
  BY <1>1, <1>2, <1>5, PricesOfPlan DEF t
<1>8. Evidence(v, t) # {}
  BY <1>2 DEF IsReady
<1>9. plan'.sure \in 0..settled'
  BY <1>4, <1>6 DEF SmartInv, Candles
<1>10. UpTo(plan'.evidence, plan'.sure) \subseteq Analysis(series', series', FALSE)
  <2>1. UpTo(plan'.evidence, plan'.sure) \subseteq UpTo(said'.facts, said'.sure)
    BY <1>2, <1>3, <1>5, <1>6, EvidenceIsSaid DEF UpTo
  <2>2. UpTo(said'.facts, said'.sure) = UpTo(Analysis(series', series', FALSE), said'.sure)
    BY <1>4 DEF SmartInv, AnalysisNeverRepaints
  <2>3. UpTo(Analysis(series', series', FALSE), said'.sure)
          \subseteq Analysis(series', series', FALSE)
    BY DEF UpTo
  <2> QED
    BY <2>1, <2>2, <2>3
<1>11. PlanStands'
  BY <1>2, <1>6, <1>7, <1>8, <1>9, <1>10 DEF PlanStands
<1> QED
  BY <1>4, <1>11 DEF SetupInv

\* At first there are no candles and no plan.
LEMMA SetupInitInv ==
  ASSUME SetupInit
  PROVE  SetupInv
<1> DEFINE none == <<>>
<1>1. /\ series = none /\ settled = 0 /\ cached = [of |-> none, firm |-> 0]
      /\ said = [facts |-> {}, sure |-> 0] /\ plan = NoPlan
  BY DEF SetupInit, SmartInit
<1>2. none \in Seq(Candle) /\ Len(none) = 0 /\ Shaped(none)
  BY ShapesAreCandles DEF Shaped
<1>3. PlanStands
  BY <1>1 DEF PlanStands
<1> HIDE DEF none
<1>4. /\ cached.of = none /\ cached.firm = 0 /\ said.sure = 0 /\ said.facts = {}
  BY <1>1
<1>5. Candles /\ Remembered
  BY <1>1, <1>2, <1>4 DEF Candles, Remembered
<1>6. AnalysisNeverRepaints
  <2> DEFINE A == Analysis(none, none, FALSE)
  <2>2. \A f \in A : f.at \in Nat \ {0}
    BY <1>2, FactsHaveTheirTime
  <2>3. UpTo(A, 0) = {}
    <3> HIDE DEF A
    <3>1. \A f \in A : ~(f.at <= 0)
      BY <2>2
    <3> QED
      BY <3>1 DEF UpTo
  <2>4. UpTo({}, 0) = {}
    BY DEF UpTo
  <2> QED
    BY <1>1, <1>4, <2>3, <2>4 DEF AnalysisNeverRepaints
<1> QED
  BY <1>3, <1>5, <1>6 DEF SetupInv, SmartInv

\* The invariant of the analysis and its setups outlives every step.
LEMMA SetupStep ==
  ASSUME SetupInv, [SetupNext]_setupVars
  PROVE  SetupInv'
<1>1. CASE SeriesMoves /\ UNCHANGED plan
  BY <1>1, PlanOutlivesMoves
<1>2. ASSUME NEW asked \in Askable, NEW early \in BOOLEAN, OnlyAnalyse(asked, early)
      PROVE  SetupInv'
  <2>1. SmartInv' /\ plan' = NoPlan
    BY <1>2, AnalyseStep DEF SetupInv, OnlyAnalyse
  <2>2. PlanStands'
    BY <2>1 DEF PlanStands
  <2> QED
    BY <2>1, <2>2 DEF SetupInv
<1>3. ASSUME NEW asked \in Askable, NEW early \in BOOLEAN, EvaluateCandle(asked, early)
      PROVE  SetupInv'
  BY <1>3, EvaluateStep
<1>4. CASE UNCHANGED setupVars
  <2>1. /\ series' = series /\ settled' = settled /\ cached' = cached /\ said' = said
        /\ plan' = plan
    BY <1>4 DEF setupVars, smartVars
  <2> QED
    BY <2>1 DEF SetupInv, SmartInv, Candles, Remembered, AnalysisNeverRepaints, PlanStands
<1> QED
  BY <1>1, <1>2, <1>3, <1>4 DEF SetupNext

\* The invariant says what the properties say.
LEMMA SetupInvImplies ==
  ASSUME SetupInv
  PROVE  SetupTypeOK /\ AnalysisNeverRepaints /\ PlansStandOnFacts
<1>1. SmartTypeOK
  <2>1. \A b \in {series, cached.of} : b \in Seq(Candle) /\ Shaped(b)
    BY DEF SetupInv, SmartInv, Candles
  <2>2. \A b \in {series, cached.of} : DOMAIN b = 1..Len(b) /\ Len(b) \in Nat
    BY <2>1
  <2>3. \A b \in {series, cached.of} :
          DOMAIN b \subseteq DOMAIN Shapes /\ \A i \in DOMAIN b : b[i] \in Shapes[i]
    BY <2>1, <2>2, ShapesAreCandles DEF Shaped
  <2> QED
    BY <2>3 DEF SmartTypeOK, SetupInv, SmartInv, Candles
<1>2. SetupTypeOK
  BY <1>1 DEF SetupTypeOK, SetupInv, PlanStands
<1>3. PlansStandOnFacts
  BY DEF PlansStandOnFacts, SetupInv, PlanStands
<1> QED
  BY <1>2, <1>3 DEF SetupInv, SmartInv

\* The series, what is remembered of it and the plan have their types, whatever candles
\* the market forms and whatever the other timeframes say.
THEOREM SetupTypeCorrect == SetupSpec => []SetupTypeOK
<1>1. SetupInit => SetupInv
  BY SetupInitInv
<1>2. SetupInv /\ [SetupNext]_setupVars => SetupInv'
  BY SetupStep
<1>3. SetupInv => SetupTypeOK
  BY SetupInvImplies
<1> QED
  BY <1>1, <1>2, <1>3, PTL DEF SetupSpec

\* Nothing that the analysis said of candles which had settled is unsaid, and nothing is
\* added: not by a later candle, nor by the changes of the one that the engines counted as
\* closed while it was forming, nor by a structure they remembered from before, for any
\* candles, swing widths, displacement and look-back.
THEOREM NothingSaidIsUnsaid == SetupSpec => []AnalysisNeverRepaints
<1>1. SetupInit => SetupInv
  BY SetupInitInv
<1>2. SetupInv /\ [SetupNext]_setupVars => SetupInv'
  BY SetupStep
<1>3. SetupInv => AnalysisNeverRepaints
  BY SetupInvImplies
<1> QED
  BY <1>1, <1>2, <1>3, PTL DEF SetupSpec

\* What an executable plan rests on is there in the candles as they stand now, so far as it
\* was of candles that had settled, for any candles, thresholds and other timeframes.
THEOREM PlansStand == SetupSpec => []PlansStandOnFacts
<1>1. SetupInit => SetupInv
  BY SetupInitInv
<1>2. SetupInv /\ [SetupNext]_setupVars => SetupInv'
  BY SetupStep
<1>3. SetupInv => PlansStandOnFacts
  BY SetupInvImplies
<1> QED
  BY <1>1, <1>2, <1>3, PTL DEF SetupSpec
-----------------------------------------------------------------------------
(* The backtest: buckets of minutes *)

\* A minute is in a bucket of its own.
LEMMA FloorIs ==
  ASSUME NEW m \in Nat, NEW size \in Nat \ {0}
  PROVE  FloorTo(m, size) \in Nat /\ FloorTo(m, size) <= m /\ m < FloorTo(m, size) + size
<1> DEFINE q == m \div size
<1>1. q \in Nat /\ q * size <= m /\ m < q * size + size
  OBVIOUS
<1>2. q * size \in Nat
  BY <1>1
<1> QED
  BY <1>1, <1>2 DEF FloorTo

\* A later minute is in no earlier bucket, and one in a later bucket is over the other.
LEMMA FloorGrows ==
  ASSUME NEW m \in Nat, NEW n \in Nat, NEW size \in Nat \ {0}
  PROVE  /\ m <= n => FloorTo(m, size) <= FloorTo(n, size)
         /\ FloorTo(m, size) < FloorTo(n, size) => FloorTo(m, size) + size <= n
<1> DEFINE q == m \div size
           r == n \div size
<1>1. q \in Nat /\ r \in Nat /\ q * size <= m /\ r * size <= n
  OBVIOUS
<1>2. m <= n => q <= r
  BY SmallerShare
<1>3. FloorTo(m, size) = q * size /\ FloorTo(n, size) = r * size
  BY DEF FloorTo
<1> HIDE DEF q, r
<1>4. \A x, y \in Nat : x <= y => x * size <= y * size
  OBVIOUS
<1>5. m <= n => q * size <= r * size
  BY <1>1, <1>2, <1>4
<1>6. ASSUME q * size < r * size PROVE q * size + size <= n
  <2>1. q * size \in Nat /\ r * size \in Nat
    BY <1>1
  <2>2. q + 1 <= r
    <3>1. ~(r <= q)
      BY <1>1, <1>4, <1>6, <2>1
    <3> QED
      BY <1>1, <3>1
  <2>3. (q + 1) * size <= r * size
    BY <1>1, <1>4, <2>2
  <2>4. (q + 1) * size = q * size + size
    BY <1>1
  <2> QED
    BY <1>1, <2>1, <2>3, <2>4
<1> QED
  BY <1>3, <1>5, <1>6

\* The first of some symbols is one of them.
LEMMA FirstIs ==
  ASSUME NEW S, S # {}, S \subseteq Range(Order)
  PROVE  FirstOf(S) \in S
<1> DEFINE K == {k \in DOMAIN Order : Order[k] \in S}
<1>1. K \subseteq Nat
  BY BacktestAssumption
<1>2. K # {}
  BY DEF Range
<1>3. Min(K) \in K
  <2> HIDE DEF K
  <2> QED
    BY <1>1, <1>2, MinOfNaturals
<1> QED
  BY <1>3 DEF FirstOf
-----------------------------------------------------------------------------
(* The invariant *)

ToldRecord == [symbol : Traded, size : Sizes, at : Nat]

RunShape ==
  /\ tape \in Tapes /\ clock \in Nat \union {-1} /\ behind \subseteq Traded
  /\ DOMAIN quote = Traded
  /\ \A s \in Traded : quote[s] \in tape[s] \union {-1} /\ quote[s] <= clock
  /\ deals \in Seq(Int) /\ Len(deals) <= MaxDeals /\ value \in Int
  /\ curve.peak \in Nat /\ curve.fall \in Nat
  /\ IsFiniteSet(heard)

\* The buckets are those of the last minute that was played: the one of the clock, or
\* the one before it that any symbol has a bar of.
Reached(p) ==
  /\ p \in Nat \union {-1} /\ p <= clock
  /\ bucket = [size \in Sizes |-> IF p = -1 THEN -1 ELSE FloorTo(p, size)]
  /\ \A s \in Traded : \A m \in tape[s] : p < m => clock <= m
  /\ behind = {} => p = clock
  /\ \A s \in Traded : quote[s] = clock => p = clock
InStep == \E p \in Nat \union {-1} : Reached(p)

\* A price is that of the last bar there is; of this minute's, some are still to come.
Played ==
  \A s \in Traded : \A m \in tape[s] :
    /\ m < clock => m <= quote[s]
    /\ m = clock => quote[s] = clock \/ s \in behind

\* Those still to come have a bar of this minute.
Coming == \A s \in behind : clock \in tape[s]

\* A candle to tell is over, and the last of its kind that is.
Due ==
  \A c \in telling :
    /\ c.at \in Series(c.symbol, c.size) /\ c.at + c.size <= clock
    /\ \A y \in Series(c.symbol, c.size) : y + c.size <= clock => y <= c.at

\* Told, or about to be, are the candles of the buckets before this one.
Told == {h.candle : h \in heard} \union telling
EachTold ==
  /\ Told \subseteq ToldRecord
  /\ \A s \in Traded : \A size \in Sizes : \A b \in Nat :
       [symbol |-> s, size |-> size, at |-> b] \in Told <=> b \in Series(s, size) /\ b < bucket[size]
Once ==
  /\ \A h \in heard : h.candle \notin telling
  /\ \A g, h \in heard : g.candle = h.candle => g = h

HeardInTime ==
  \A h \in heard :
    LET c == h.candle IN
        /\ c.at + c.size <= h.time
        /\ c.at \in h.back
        /\ \A b \in h.back : \A m \in Made(c.symbol, c.size, b) : m < h.time /\ m <= h.price
        /\ h.price <= h.time

Ended == result # Unfinished => behind = {} /\ telling = {} /\ result.fall >= -result.final

TesterInv ==
  RunShape /\ InStep /\ Played /\ Coming /\ Due /\ EachTold /\ Once /\ HeardInTime /\ Ended

\* The minutes of a tape and its buckets are numbers.
LEMMA TapeIs ==
  ASSUME RunShape
  PROVE  /\ Traded = Range(Order) /\ \A s \in Traded : tape[s] \subseteq Nat
         /\ Sizes \subseteq Nat \ {0}
         /\ \A s \in Traded : \A size \in Sizes : \A b \in Series(s, size) :
              b \in Nat /\ \E m \in tape[s] : b = FloorTo(m, size)
<1>1. Traded = Range(Order) /\ \A s \in Traded : tape[s] \subseteq Nat
  BY BacktestAssumption DEF RunShape, Traded
<1>2. Sizes \subseteq Nat \ {0}
  BY BacktestAssumption DEF Sizes
<1>3. ASSUME NEW s \in Traded, NEW size \in Sizes, NEW b \in Series(s, size)
      PROVE  b \in Nat /\ \E m \in tape[s] : b = FloorTo(m, size)
  <2>1. PICK m \in tape[s] : b = FloorTo(m, size)
    BY DEF Series
  <2> QED
    BY <1>1, <1>2, <2>1, FloorIs
<1> QED
  BY <1>1, <1>2, <1>3

\* What was lost and won is a number.
LEMMA EquityIsInt ==
  ASSUME deals \in Seq(Int), value \in Int
  PROVE  Equity \in Int
<1> DEFINE I == DOMAIN deals
<1>1. I = 1..Len(deals) /\ Len(deals) \in Nat /\ \A x \in I : deals[x] \in Int
  OBVIOUS
<1>2. IsFiniteSet(I)
  BY <1>1, FS_Interval
<1>3. SumFunctionOnSet(deals, I) \in Int
  <2> HIDE DEF I
  <2> QED
    BY <1>1, <1>2, SumIsInt
<1> QED
  BY <1>3 DEF Equity, SumOf

\* A point of the curve: the peak is no less than what is left, and the fall no less
\* than what was lost of it.
LEMMA NotedIs ==
  ASSUME curve.peak \in Nat, curve.fall \in Nat, deals \in Seq(Int), value \in Int
  PROVE  /\ Noted(curve).peak \in Nat /\ Noted(curve).fall \in Nat
         /\ Noted(curve).fall >= -Equity
<1>1. Equity \in Int
  BY EquityIsInt
<1> DEFINE peak == IF Equity > curve.peak THEN Equity ELSE curve.peak
           fall == IF peak - Equity > curve.fall THEN peak - Equity ELSE curve.fall
<1>2. peak \in Nat
  BY <1>1
<1>3. fall \in Nat /\ fall >= -Equity
  <2> HIDE DEF peak
  <2> QED
    BY <1>1, <1>2
<1>4. Noted(curve) = [peak |-> peak, fall |-> fall]
  BY DEF Noted
<1> HIDE DEF peak, fall
<1> QED
  BY <1>2, <1>3, <1>4

\* At most one fill comes of a bar or of a candle.
LEMMA DealtKeeps ==
  ASSUME deals \in Seq(Int), Len(deals) <= MaxDeals, Dealt
  PROVE  deals' \in Seq(Int) /\ Len(deals') <= MaxDeals
<1>1. CASE UNCHANGED deals
  BY <1>1
<1>2. CASE Len(deals) < MaxDeals /\ \E p \in TradePnls : deals' = Append(deals, p)
  <2>1. PICK p \in TradePnls : deals' = Append(deals, p)
    BY <1>2
  <2>2. p \in Int /\ MaxDeals \in Nat
    BY BacktestAssumption
  <2> QED
    BY <1>2, <2>1, <2>2
<1> QED
  BY <1>1, <1>2 DEF Dealt

\* The clock goes to the next minute that any symbol has a bar of.
LEMMA NextMinuteKeeps ==
  ASSUME TesterInv, NextMinute
  PROVE  TesterInv'
<1>1. /\ result = Unfinished /\ behind = {} /\ telling = {} /\ Later # {}
      /\ clock' = Min(Later) /\ behind' = {s \in Traded : clock' \in tape[s]}
      /\ tape' = tape /\ quote' = quote /\ bucket' = bucket /\ telling' = telling
      /\ heard' = heard /\ deals' = deals /\ value' = value /\ curve' = curve /\ result' = result
  BY DEF NextMinute
<1>2. /\ RunShape /\ Played /\ Due /\ EachTold /\ Once /\ HeardInTime
      /\ \A s \in Traded : tape[s] \subseteq Nat
  BY TapeIs DEF TesterInv
<1>3. Later \subseteq Nat
  BY <1>2 DEF Later
<1>4. clock' \in Later /\ \A m \in Later : clock' <= m
  BY <1>1, <1>3, MinOfNaturals
<1>5. /\ clock \in Nat \union {-1} /\ clock' \in Nat /\ clock < clock'
      /\ \A s \in Traded : \A m \in tape[s] : m \in Nat /\ (clock < m => clock' <= m)
  BY <1>2, <1>3, <1>4 DEF RunShape, Later
<1>6. Traded' = Traded
  BY <1>1 DEF Traded
<1>7. \A s \in Traded : /\ quote[s] \in tape[s] \union {-1} /\ quote[s] <= clock
                        /\ quote[s] \in Nat \union {-1} /\ quote[s] < clock'
  <2>1. \A s \in Traded : quote[s] \in tape[s] \union {-1} /\ quote[s] <= clock
    BY <1>2 DEF RunShape
  <2> QED
    BY <1>2, <1>5, <2>1
<1>8. RunShape'
  BY <1>1, <1>2, <1>5, <1>6, <1>7 DEF RunShape
<1>9. PICK p \in Nat \union {-1} : Reached(p) /\ p = clock
  BY <1>1 DEF TesterInv, InStep, Reached
<1>10. behind' # {}
  BY <1>1, <1>4 DEF Later
<1>11. Reached(p)'
  <2>1. Sizes' = Sizes
    BY DEF Sizes
  <2>2. bucket = [size \in Sizes |-> IF p = -1 THEN -1 ELSE FloorTo(p, size)]
    BY <1>9 DEF Reached
  <2> QED
    BY <1>1, <1>5, <1>6, <1>7, <1>9, <1>10, <2>1, <2>2 DEF Reached
<1>12. InStep'
  BY <1>11 DEF InStep
<1>13. Played'
  <2>1. SUFFICES ASSUME NEW s \in Traded, NEW m \in tape[s]
                 PROVE  /\ m < clock' => m <= quote[s]
                        /\ m = clock' => quote[s] = clock' \/ s \in behind'
    BY <1>1, <1>6 DEF Played
  <2>2. m < clock' => m <= clock
    BY <1>5
  <2>3. /\ m < clock => m <= quote[s]
        /\ m = clock => quote[s] = clock
    BY <1>1, <1>2 DEF Played
  <2> QED
    BY <1>1, <1>5, <1>7, <2>2, <2>3
<1>14. Coming' /\ Due' /\ Once' /\ Ended'
  BY <1>1, <1>2 DEF Coming, Due, Once, Ended
<1>15. EachTold' /\ HeardInTime'
  BY <1>1, <1>2, <1>6 DEF EachTold, HeardInTime, Told, ToldRecord, Sizes, Series, Made
<1> QED
  BY <1>8, <1>12, <1>13, <1>14, <1>15 DEF TesterInv

\* Whose turn it is is one of those still to come.
LEMMA NextUpIs ==
  ASSUME RunShape, behind # {}
  PROVE  NextUp \in behind /\ NextUp \in Traded
<1>1. behind \subseteq Range(Order) /\ behind \subseteq Traded
  BY TapeIs DEF RunShape
<1> QED
  BY <1>1, FirstIs DEF NextUp

\* The candles to tell at a bar that enters a bucket.
LEMMA ClosingIs ==
  ASSUME NEW size \in Sizes, NEW c
  PROVE  c \in Closing(size, clock) <=>
           /\ bucket[size] # FloorTo(clock, size) /\ bucket[size] # -1
           /\ \E s \in Traded : /\ c = [symbol |-> s, size |-> size, at |-> bucket[size]]
                                /\ bucket[size] \in Series(s, size)
BY DEF Closing

\* When a bar is played, the candles that begin before its bucket are those told and
\* those of the bucket of the minute before.
LEMMA OverAtBar ==
  ASSUME RunShape, NEW p \in Nat \union {-1}, Reached(p), clock \in Nat,
         NEW s \in Traded, NEW size \in Sizes, NEW b \in Series(s, size)
  PROVE  /\ b < FloorTo(clock, size) <=>
              b < bucket[size] \/ (b = bucket[size] /\ bucket[size] # FloorTo(clock, size))
         /\ b + size <= clock => b <= bucket[size]
         /\ b = bucket[size] /\ bucket[size] # FloorTo(clock, size) => b + size <= clock
<1>1. /\ tape[s] \subseteq Nat /\ size \in Nat \ {0} /\ b \in Nat
  BY TapeIs
<1>2. PICK m \in tape[s] : b = FloorTo(m, size)
  BY DEF Series
<1>3. /\ p <= clock /\ bucket[size] = (IF p = -1 THEN -1 ELSE FloorTo(p, size))
      /\ m \in Nat /\ (p < m => clock <= m)
  BY <1>1 DEF Reached
<1> DEFINE f == FloorTo(clock, size)
           q == FloorTo(p, size)
<1>4. f \in Nat /\ f <= clock /\ clock < f + size
  BY <1>1, FloorIs
<1>5. b <= m /\ m < b + size
  BY <1>1, <1>2, <1>3, FloorIs
<1>6. /\ clock <= m => f <= b
      /\ b < f => b + size <= clock
  BY <1>1, <1>2, <1>3, FloorGrows
<1>7. CASE p = -1
  BY <1>1, <1>3, <1>4, <1>5, <1>6, <1>7
<1>8. CASE p # -1
  <2>1. p \in Nat /\ q \in Nat /\ bucket[size] = q
    BY <1>1, <1>3, <1>8, FloorIs
  <2>2. q <= f /\ (q < f => q + size <= clock)
    BY <1>1, <1>3, <2>1, FloorGrows
  <2>3. m <= p => b <= q
    BY <1>1, <1>2, <1>3, <2>1, FloorGrows
  <2> HIDE DEF f, q
  <2>4. b < f => b <= q
    BY <1>1, <1>3, <1>4, <1>6, <2>1, <2>3
  <2>5. b + size <= clock => b <= q
    BY <1>1, <1>3, <1>5, <2>1, <2>3
  <2>6. b < f <=> b < q \/ (b = q /\ q # f)
    BY <1>1, <1>4, <2>1, <2>2, <2>4
  <2>7. b = q /\ q # f => b + size <= clock
    BY <1>4, <2>1, <2>2
  <2> QED
    BY <2>1, <2>5, <2>6, <2>7 DEF f
<1> QED
  BY <1>7, <1>8

\* A bar is a price for the broker; the candles that are over by it are to be told.
LEMMA PlayBarKeeps ==
  ASSUME TesterInv, PlayBar
  PROVE  TesterInv'
<1>1. /\ behind # {} /\ telling = {} /\ quote[NextUp] # clock
      /\ quote' = [quote EXCEPT ![NextUp] = clock]
      /\ telling' = Closing(Short, clock) \union Closing(Long, clock)
      /\ bucket' = [size \in Sizes |-> FloorTo(clock, size)]
      /\ Dealt /\ value' \in {-1, 0, 1}
      /\ tape' = tape /\ clock' = clock /\ behind' = behind /\ heard' = heard
      /\ curve' = curve /\ result' = result
  BY DEF PlayBar
<1>2. /\ RunShape /\ Played /\ EachTold /\ Once /\ HeardInTime /\ Ended
      /\ \A s \in Traded : tape[s] \subseteq Nat
      /\ Sizes \subseteq Nat \ {0}
  BY TapeIs DEF TesterInv
<1>3. PICK p \in Nat \union {-1} : Reached(p)
  BY DEF TesterInv, InStep
<1>4. NextUp \in behind /\ NextUp \in Traded
  BY <1>1, <1>2, NextUpIs
<1>5. Traded' = Traded /\ Sizes' = Sizes
  BY <1>1 DEF Traded, Sizes
<1>6. clock \in Nat /\ clock \in tape[NextUp]
  <2>1. clock \in tape[NextUp]
    BY <1>1, <1>4 DEF TesterInv, Coming
  <2> QED
    BY <1>2, <1>4, <2>1
<1>7. \A s \in Traded : quote'[s] = IF s = NextUp THEN clock ELSE quote[s]
  BY <1>1, <1>2 DEF RunShape
<1>8. RunShape'
  <2>1. deals' \in Seq(Int) /\ Len(deals') <= MaxDeals
    BY <1>1, <1>2, DealtKeeps DEF RunShape
  <2>2. DOMAIN quote' = Traded
    BY <1>1, <1>2 DEF RunShape
  <2>3. \A s \in Traded : quote'[s] \in tape[s] \union {-1} /\ quote'[s] <= clock
    BY <1>2, <1>6, <1>7 DEF RunShape
  <2> QED
    BY <1>1, <1>2, <1>5, <2>1, <2>2, <2>3 DEF RunShape
<1>9. PICK q \in Nat \union {-1} : q = clock
  BY <1>6
<1>10. Reached(q)'
  <2>1. \A s \in Traded : \A m \in tape[s] : q < m => clock <= m
    BY <1>2, <1>6, <1>9
  <2>2. bucket' = [size \in Sizes |-> IF q = -1 THEN -1 ELSE FloorTo(q, size)]
    BY <1>1, <1>6, <1>9
  <2> QED
    BY <1>1, <1>5, <1>6, <1>9, <2>1, <2>2 DEF Reached
<1>11. InStep'
  BY <1>10 DEF InStep
<1>12. Played'
  <2>1. SUFFICES ASSUME NEW s \in Traded, NEW m \in tape[s]
                 PROVE  /\ m < clock => m <= quote'[s]
                        /\ m = clock => quote'[s] = clock \/ s \in behind
    BY <1>1, <1>5 DEF Played
  <2>2. /\ m < clock => m <= quote[s]
        /\ m = clock => quote[s] = clock \/ s \in behind
    BY <1>2 DEF Played
  <2> QED
    BY <1>2, <1>6, <1>7, <2>2
<1>13. Coming'
  BY <1>1 DEF Coming, TesterInv
<1>14. \A c : c \in telling' <=> \E size \in Sizes : c \in Closing(size, clock)
  BY <1>1 DEF Sizes
<1>15. \A c : c \in telling' <=>
         \E size \in Sizes : \E s \in Traded :
           /\ c = [symbol |-> s, size |-> size, at |-> bucket[size]]
           /\ bucket[size] \in Series(s, size)
           /\ bucket[size] # FloorTo(clock, size)
  <2>1. \A size \in Sizes : \A s \in Traded : bucket[size] \in Series(s, size) => bucket[size] # -1
    <3>1. \A s \in Traded : \A size \in Sizes : \A b \in Series(s, size) : b \in Nat
      BY <1>2, TapeIs
    <3> QED
      BY <3>1
  <2>2. \A size \in Sizes : \A c :
          c \in Closing(size, clock) <=>
            \E s \in Traded :
              /\ c = [symbol |-> s, size |-> size, at |-> bucket[size]]
              /\ bucket[size] \in Series(s, size)
              /\ bucket[size] # FloorTo(clock, size)
    BY <2>1, ClosingIs
  <2> QED
    BY <1>14, <2>2
<1>16. \A s, size : Series(s, size)' = Series(s, size)
  BY <1>1 DEF Series
<1>17. Due'
  <2>1. SUFFICES ASSUME NEW c \in telling'
                 PROVE  /\ c.at \in Series(c.symbol, c.size) /\ c.at + c.size <= clock
                        /\ \A y \in Series(c.symbol, c.size) : y + c.size <= clock => y <= c.at
    BY <1>1, <1>16 DEF Due
  <2>2. PICK size \in Sizes, s \in Traded :
          /\ c = [symbol |-> s, size |-> size, at |-> bucket[size]]
          /\ bucket[size] \in Series(s, size)
          /\ bucket[size] # FloorTo(clock, size)
    BY <1>15
  <2>3. c.symbol = s /\ c.size = size /\ c.at = bucket[size]
    BY <2>2
  <2>4. bucket[size] + size <= clock
    BY <1>2, <1>3, <1>6, <2>2, OverAtBar
  <2>5. \A y \in Series(s, size) : y + size <= clock => y <= bucket[size]
    BY <1>2, <1>3, <1>6, OverAtBar
  <2> QED
    BY <2>2, <2>3, <2>4, <2>5
<1>18. Told = {h.candle : h \in heard} /\ Told' = {h.candle : h \in heard} \union telling'
  BY <1>1 DEF Told
<1>19. EachTold'
  <2>1. telling' \subseteq ToldRecord
    <3>1. \A s \in Traded : \A size \in Sizes : \A b \in Series(s, size) : b \in Nat
      BY <1>2, TapeIs
    <3> QED
      BY <1>15, <3>1 DEF ToldRecord
  <2>2. Told \subseteq ToldRecord
    BY <1>2 DEF EachTold
  <2>3. ASSUME NEW s \in Traded, NEW size \in Sizes, NEW b \in Nat
        PROVE  [symbol |-> s, size |-> size, at |-> b] \in Told'
                 <=> b \in Series(s, size) /\ b < bucket'[size]
    <3> DEFINE c == [symbol |-> s, size |-> size, at |-> b]
    <3>1. c \in Told <=> b \in Series(s, size) /\ b < bucket[size]
      BY <1>2 DEF EachTold
    <3>2. c \in telling' <=> /\ b = bucket[size] /\ b \in Series(s, size)
                             /\ bucket[size] # FloorTo(clock, size)
      <4>1. \A r \in Traded, k \in Sizes :
              c = [symbol |-> r, size |-> k, at |-> bucket[k]] <=> s = r /\ size = k /\ b = bucket[k]
        OBVIOUS
      <4> HIDE DEF c
      <4> QED
        BY <1>15, <4>1
    <3>3. b \in Series(s, size) =>
            (b < FloorTo(clock, size) <=>
               b < bucket[size] \/ (b = bucket[size] /\ bucket[size] # FloorTo(clock, size)))
      BY <1>2, <1>3, <1>6, OverAtBar
    <3>4. bucket'[size] = FloorTo(clock, size)
      BY <1>1
    <3> HIDE DEF c
    <3>5. c \in Told' <=> c \in Told \/ c \in telling'
      BY <1>18
    <3>6. c \in Told' <=> b \in Series(s, size) /\ b < bucket'[size]
      BY <3>1, <3>2, <3>3, <3>4, <3>5
    <3> QED
      BY <3>6 DEF c
  <2>4. Told' \subseteq ToldRecord
    BY <1>18, <2>1, <2>2
  <2>5. ToldRecord' = ToldRecord
    BY <1>5 DEF ToldRecord
  <2> QED
    BY <1>5, <1>16, <2>3, <2>4, <2>5 DEF EachTold
<1>20. Once'
  <2>1. SUFFICES ASSUME NEW h \in heard, h.candle \in telling' PROVE FALSE
    BY <1>1, <1>2 DEF Once
  <2>2. PICK size \in Sizes, s \in Traded :
          /\ h.candle = [symbol |-> s, size |-> size, at |-> bucket[size]]
          /\ bucket[size] \in Series(s, size)
    BY <1>15, <2>1
  <2>3. bucket[size] \in Nat
    BY <1>2, <2>2, TapeIs
  <2>4. h.candle \in Told
    BY <1>18
  <2>5. bucket[size] < bucket[size]
    BY <1>2, <2>2, <2>3, <2>4 DEF EachTold
  <2> QED
    BY <2>3, <2>5
<1>21. HeardInTime'
  BY <1>1, <1>2 DEF HeardInTime, Made
<1>22. Ended'
  BY <1>1, <1>2 DEF Ended
<1> QED
  BY <1>8, <1>11, <1>12, <1>13, <1>17, <1>19, <1>20, <1>21, <1>22 DEF TesterInv

\* Of the candles to tell, one is the first.
LEMMA ForemostIs ==
  ASSUME RunShape, telling # {}, telling \subseteq ToldRecord
  PROVE  Foremost \in telling
<1> DEFINE short == {c \in telling : c.size = Short}
           turn == IF short # {} THEN short ELSE telling
           whose == {d.symbol : d \in turn}
<1>1. turn # {} /\ turn \subseteq telling
  OBVIOUS
<1>2. whose # {} /\ whose \subseteq Range(Order)
  <2>1. \A d \in turn : d.symbol \in Range(Order)
    BY <1>1, TapeIs DEF ToldRecord
  <2> HIDE DEF turn
  <2> QED
    BY <1>1, <2>1
<1>3. FirstOf(whose) \in whose
  <2> HIDE DEF whose
  <2> QED
    BY <1>2, FirstIs
<1>4. \E c \in turn : c.symbol = FirstOf(whose)
  <2> HIDE DEF turn
  <2> QED
    BY <1>3
<1>5. Foremost = CHOOSE c \in turn : c.symbol = FirstOf(whose)
  BY DEF Foremost
<1> HIDE DEF whose, turn
<1> QED
  BY <1>1, <1>4, <1>5

\* A candle that is the last to be over is the last one a strategy sees.
LEMMA LastIsVisible ==
  ASSUME NEW s, NEW size, NEW b \in Series(s, size), b + size <= clock,
         \A y \in Series(s, size) : y + size <= clock => y <= b,
         Series(s, size) \subseteq Nat
  PROVE  /\ b \in Visible(s, size)
         /\ \A y \in Visible(s, size) : y \in Series(s, size) /\ y + size <= clock
<1> DEFINE over == {y \in Series(s, size) : y + size <= clock}
           later == {y \in over : y > b}
<1>1. later = {}
  OBVIOUS
<1>2. Cardinality(later) = 0
  BY <1>1, FS_EmptySet
<1>3. Cardinality(later) < LookBack
  <2> HIDE DEF later
  <2> QED
    BY <1>2, BacktestAssumption
<1>4. Visible(s, size) = {x \in over : Cardinality({y \in over : y > x}) < LookBack}
  BY DEF Visible, LastOf
<1>5. b \in over
  OBVIOUS
<1> QED
  BY <1>3, <1>4, <1>5

\* A strategy is told of a candle, at the price there is and with those before it.
LEMMA TellCandleKeeps ==
  ASSUME TesterInv, TellCandle
  PROVE  TesterInv'
<1> DEFINE c == Foremost
           h == [candle |-> c, time |-> clock, price |-> quote[c.symbol],
                 back |-> Visible(c.symbol, c.size)]
<1>1. /\ telling # {} /\ heard' = heard \union {h} /\ telling' = telling \ {c}
      /\ Dealt
      /\ tape' = tape /\ clock' = clock /\ behind' = behind /\ quote' = quote
      /\ bucket' = bucket /\ value' = value /\ curve' = curve /\ result' = result
  BY DEF TellCandle
<1>2. /\ RunShape /\ Played /\ EachTold /\ Once /\ HeardInTime /\ Ended /\ Due /\ InStep /\ Coming
      /\ \A s \in Traded : tape[s] \subseteq Nat
      /\ Sizes \subseteq Nat \ {0}
  BY TapeIs DEF TesterInv
<1>3. telling \subseteq ToldRecord
  BY <1>2 DEF EachTold, Told
<1>4. c \in telling
  BY <1>1, <1>2, <1>3, ForemostIs
<1> HIDE DEF c
<1>5. Traded' = Traded /\ Sizes' = Sizes
  BY <1>1 DEF Traded, Sizes
<1>6. c.symbol \in Traded /\ c.size \in Sizes /\ c.at \in Nat
  BY <1>3, <1>4 DEF ToldRecord
<1>7. RunShape'
  <2>1. deals' \in Seq(Int) /\ Len(deals') <= MaxDeals
    BY <1>1, <1>2, DealtKeeps DEF RunShape
  <2>2. IsFiniteSet(heard')
    BY <1>1, <1>2, FS_AddElement DEF RunShape
  <2> QED
    BY <1>1, <1>2, <1>5, <2>1, <2>2 DEF RunShape
<1>8. Played' /\ Coming'
  BY <1>1, <1>2, <1>5 DEF Played, Coming
<1>9. InStep'
  <2>1. PICK p \in Nat \union {-1} : Reached(p)
    BY <1>2 DEF InStep
  <2>2. Reached(p)'
    BY <1>1, <1>5, <2>1 DEF Reached
  <2> QED
    BY <2>2 DEF InStep
<1>10. \A s, size : Series(s, size)' = Series(s, size)
  BY <1>1 DEF Series
<1>11. Due'
  BY <1>1, <1>2, <1>10 DEF Due
<1>12. h.candle = c /\ h.time = clock /\ h.price = quote[c.symbol] /\ h.back = Visible(c.symbol, c.size)
  OBVIOUS
<1> HIDE DEF h
<1>13. {g.candle : g \in heard'} = {g.candle : g \in heard} \union {c}
  BY <1>1, <1>12
<1>14. Told' = Told
  BY <1>1, <1>4, <1>13 DEF Told
<1>15. EachTold'
  <2>1. ToldRecord' = ToldRecord
    BY <1>5 DEF ToldRecord
  <2> QED
    BY <1>1, <1>2, <1>5, <1>10, <1>14, <2>1 DEF EachTold
<1>16. Once'
  <2>1. \A g \in heard : g.candle \notin telling /\ g.candle # c
    BY <1>2, <1>4 DEF Once
  <2>2. \A g \in heard' : g.candle \notin telling'
    BY <1>1, <1>12, <2>1
  <2>3. \A f, g \in heard' : f.candle = g.candle => f = g
    BY <1>1, <1>2, <1>12, <2>1 DEF Once
  <2> QED
    BY <2>2, <2>3 DEF Once
<1>17. /\ c.at \in Series(c.symbol, c.size) /\ c.at + c.size <= clock
       /\ \A y \in Series(c.symbol, c.size) : y + c.size <= clock => y <= c.at
  BY <1>2, <1>4 DEF Due
<1>18. Series(c.symbol, c.size) \subseteq Nat
  BY <1>2, <1>6, TapeIs
<1>19. /\ c.at \in h.back
       /\ \A y \in h.back : y \in Series(c.symbol, c.size) /\ y + c.size <= clock
  BY <1>12, <1>17, <1>18, LastIsVisible
<1>20. ASSUME NEW b \in h.back, NEW m \in Made(c.symbol, c.size, b)
       PROVE  m < h.time /\ m <= h.price
  <2>1. m \in tape[c.symbol] /\ FloorTo(m, c.size) = b
    BY DEF Made
  <2>2. m \in Nat /\ m < b + c.size /\ b + c.size <= clock
    BY <1>2, <1>6, <1>19, <2>1, FloorIs
  <2>3. b \in Nat /\ c.size \in Nat /\ clock \in Nat \union {-1}
    BY <1>2, <1>6, <1>18, <1>19 DEF RunShape
  <2> DEFINE size == c.size
  <2>4. m < b + size /\ b + size <= clock /\ size \in Nat
    BY <2>2, <2>3
  <2> HIDE DEF size
  <2>5. m < clock
    BY <2>2, <2>3, <2>4
  <2> QED
    BY <1>2, <1>6, <1>12, <2>1, <2>5 DEF Played
<1>21. h.price <= h.time
  BY <1>2, <1>6, <1>12 DEF RunShape
<1>22. HeardInTime'
  <2>1. \A s, size, b : Made(s, size, b)' = Made(s, size, b)
    BY <1>1 DEF Made
  <2>2. SUFFICES ASSUME NEW g \in heard'
                 PROVE  /\ g.candle.at + g.candle.size <= g.time
                        /\ g.candle.at \in g.back
                        /\ \A b \in g.back : \A m \in Made(g.candle.symbol, g.candle.size, b) :
                             m < g.time /\ m <= g.price
                        /\ g.price <= g.time
    BY <2>1 DEF HeardInTime
  <2>3. CASE g \in heard
    BY <1>2, <2>3 DEF HeardInTime
  <2>4. CASE g = h
    BY <1>12, <1>17, <1>19, <1>20, <1>21, <2>4
  <2> QED
    BY <1>1, <2>3, <2>4
<1>23. Ended'
  BY <1>1, <1>2 DEF Ended
<1> QED
  BY <1>7, <1>8, <1>9, <1>11, <1>15, <1>16, <1>22, <1>23 DEF TesterInv

\* The rest of a bar leaves to the next symbol; the last one's leaves to the next minute.
LEMMA EndBarKeeps ==
  ASSUME TesterInv, EndBar
  PROVE  TesterInv'
<1>1. /\ behind # {} /\ telling = {} /\ quote[NextUp] = clock /\ behind' = behind \ {NextUp}
      /\ curve' \in {Noted(curve), curve} /\ value' \in {value - 1, value}
      /\ tape' = tape /\ clock' = clock /\ quote' = quote /\ bucket' = bucket
      /\ telling' = telling /\ heard' = heard /\ deals' = deals /\ result' = result
  BY DEF EndBar
<1>2. /\ RunShape /\ Played /\ EachTold /\ Once /\ HeardInTime /\ Ended /\ Due /\ InStep /\ Coming
  BY DEF TesterInv
<1>3. NextUp \in behind /\ NextUp \in Traded
  BY <1>1, <1>2, NextUpIs
<1>4. Traded' = Traded /\ Sizes' = Sizes
  BY <1>1 DEF Traded, Sizes
<1>5. RunShape'
  <2>1. /\ deals \in Seq(Int) /\ value \in Int /\ curve.peak \in Nat /\ curve.fall \in Nat
    BY <1>2 DEF RunShape
  <2>2. curve'.peak \in Nat /\ curve'.fall \in Nat
    BY <1>1, <2>1, NotedIs
  <2>3. value' \in Int
    BY <1>1, <2>1
  <2> QED
    BY <1>1, <1>2, <1>4, <2>2, <2>3 DEF RunShape
<1>6. PICK p \in Nat \union {-1} : Reached(p)
  BY <1>2 DEF InStep
<1>7. p = clock
  BY <1>1, <1>3, <1>6 DEF Reached
<1>8. Reached(p)'
  BY <1>1, <1>4, <1>6, <1>7 DEF Reached
<1>9. InStep'
  BY <1>8 DEF InStep
<1>10. Played'
  <2>1. \A s \in Traded : s \in behind => s \in behind' \/ quote[s] = clock
    BY <1>1
  <2> QED
    BY <1>1, <1>2, <1>4, <2>1 DEF Played
<1>11. Coming'
  BY <1>1, <1>2 DEF Coming
<1>12. Due' /\ Once'
  BY <1>1, <1>2 DEF Due, Once
<1>13. EachTold' /\ HeardInTime'
  BY <1>1, <1>2, <1>4 DEF EachTold, HeardInTime, Told, ToldRecord, Series, Made
<1>14. Ended'
  BY <1>1, <1>2 DEF Ended
<1> QED
  BY <1>5, <1>9, <1>10, <1>11, <1>12, <1>13, <1>14 DEF TesterInv

\* The run reports no smaller a fall than what it lost.
LEMMA ReportKeeps ==
  ASSUME TesterInv, Report
  PROVE  TesterInv'
<1>1. /\ result = Unfinished /\ behind = {} /\ telling = {}
      /\ result' = Results /\ curve' = Noted(curve)
      /\ tape' = tape /\ clock' = clock /\ quote' = quote /\ bucket' = bucket /\ behind' = behind
      /\ telling' = telling /\ heard' = heard /\ deals' = deals /\ value' = value
  BY DEF Report
<1>2. /\ RunShape /\ Played /\ EachTold /\ Once /\ HeardInTime /\ Ended /\ Due /\ InStep /\ Coming
  BY DEF TesterInv
<1>3. Traded' = Traded /\ Sizes' = Sizes
  BY <1>1 DEF Traded, Sizes
<1>4. /\ deals \in Seq(Int) /\ value \in Int /\ curve.peak \in Nat /\ curve.fall \in Nat
  BY <1>2 DEF RunShape
<1>5. /\ Noted(curve).peak \in Nat /\ Noted(curve).fall \in Nat /\ Noted(curve).fall >= -Equity
  BY <1>4, NotedIs
<1>6. RunShape'
  BY <1>1, <1>2, <1>3, <1>5 DEF RunShape
<1>7. PICK p \in Nat \union {-1} : Reached(p)
  BY <1>2 DEF InStep
<1>8. Reached(p)'
  BY <1>1, <1>3, <1>7 DEF Reached
<1>9. InStep'
  BY <1>8 DEF InStep
<1>10. Played' /\ Coming' /\ Due' /\ Once'
  BY <1>1, <1>2, <1>3 DEF Played, Coming, Due, Once
<1>11. EachTold' /\ HeardInTime'
  BY <1>1, <1>2, <1>3 DEF EachTold, HeardInTime, Told, ToldRecord, Series, Made
<1>12. result'.fall = Noted(curve).fall /\ result'.final = Equity
  BY <1>1 DEF Results
<1>13. Ended'
  BY <1>1, <1>5, <1>12 DEF Ended
<1> QED
  BY <1>6, <1>9, <1>10, <1>11, <1>13 DEF TesterInv

LEMMA TesterInitially ==
  ASSUME TesterInit
  PROVE  TesterInv
<1>1. /\ tape \in Tapes /\ clock = -1 /\ behind = {} /\ telling = {} /\ heard = {}
      /\ quote = [s \in Traded |-> -1] /\ bucket = [size \in Sizes |-> -1]
      /\ deals = <<>> /\ value = 0 /\ curve = [peak |-> 0, fall |-> 0] /\ result = Unfinished
  BY DEF TesterInit
<1>2. deals \in Seq(Int) /\ Len(deals) <= MaxDeals
  BY <1>1, BacktestAssumption
<1>3. IsFiniteSet(heard)
  BY <1>1, FS_EmptySet
<1>4. RunShape
  BY <1>1, <1>2, <1>3 DEF RunShape
<1>5. \A s \in Traded : tape[s] \subseteq Nat
  BY <1>4, TapeIs
<1>6. PICK p \in Nat \union {-1} : p = -1
  OBVIOUS
<1>7. Reached(p)
  BY <1>1, <1>5, <1>6 DEF Reached
<1>8. InStep
  BY <1>7 DEF InStep
<1>9. Played /\ Coming /\ Due /\ Once /\ HeardInTime /\ Ended
  BY <1>1, <1>5 DEF Played, Coming, Due, Once, HeardInTime, Ended
<1>10. EachTold
  <2>1. Told = {}
    BY <1>1 DEF Told
  <2>2. \A size \in Sizes : \A b \in Nat : ~(b < bucket[size])
    BY <1>1
  <2> QED
    BY <2>1, <2>2 DEF EachTold
<1> QED
  BY <1>4, <1>8, <1>9, <1>10 DEF TesterInv

LEMMA TesterStep ==
  ASSUME TesterInv, [TesterNext]_tester
  PROVE  TesterInv'
<1>1. CASE UNCHANGED tester
  <2>1. /\ tape' = tape /\ clock' = clock /\ behind' = behind /\ quote' = quote
        /\ bucket' = bucket /\ telling' = telling /\ last' = last /\ heard' = heard
        /\ deals' = deals /\ value' = value /\ curve' = curve /\ result' = result
    BY <1>1 DEF tester
  <2>2. Traded' = Traded /\ Sizes' = Sizes
    BY <2>1 DEF Traded, Sizes
  <2>3. RunShape' /\ Played' /\ Coming' /\ Due' /\ Once' /\ HeardInTime' /\ Ended'
    BY <2>1, <2>2 DEF TesterInv, RunShape, Played, Coming, Due, Once, HeardInTime, Ended, Series, Made
  <2>4. EachTold'
    BY <2>1, <2>2 DEF TesterInv, EachTold, Told, ToldRecord, Series
  <2>5. InStep'
    <3>1. PICK p \in Nat \union {-1} : Reached(p)
      BY DEF TesterInv, InStep
    <3>2. Reached(p)'
      BY <2>1, <2>2, <3>1 DEF Reached
    <3> QED
      BY <3>2 DEF InStep
  <2> QED
    BY <2>3, <2>4, <2>5 DEF TesterInv
<1>2. CASE NextMinute
  BY <1>2, NextMinuteKeeps
<1>3. CASE PlayBar
  BY <1>3, PlayBarKeeps
<1>4. CASE TellCandle
  BY <1>4, TellCandleKeeps
<1>5. CASE EndBar
  BY <1>5, EndBarKeeps
<1>6. CASE Report
  BY <1>6, ReportKeeps
<1> QED
  BY <1>1, <1>2, <1>3, <1>4, <1>5, <1>6 DEF TesterNext, Reported

LEMMA TesterAlways == TesterSpec => []TesterInv
<1>1. TesterInit => TesterInv
  BY TesterInitially
<1>2. TesterInv /\ [TesterNext]_tester => TesterInv'
  BY TesterStep
<1> QED
  BY <1>1, <1>2, PTL DEF TesterSpec

LEMMA TesterInvIsHonest ==
  ASSUME TesterInv
  PROVE  BacktestSeesNoFuture
<1>1. RunShape /\ EachTold /\ Once /\ HeardInTime /\ Ended
  BY DEF TesterInv
<1> DEFINE Named == {h.candle : h \in heard}
<1>2. Cardinality(Named) = Cardinality(heard)
  <2> DEFINE name == [h \in heard |-> h.candle]
  <2>1. \A g, h \in heard : name[g] = name[h] => g = h
    BY <1>1 DEF Once
  <2>2. name \in Bijection(heard, Named)
    BY <2>1 DEF Bijection, Injection, Surjection, IsInjective
  <2> QED
    BY <1>1, <2>2, FS_Bijection DEF RunShape, ExistsBijection
<1>3. ASSUME result # Unfinished, NEW s \in Traded, NEW size \in Sizes
      PROVE  {h.candle.at : h \in {h \in heard : h.candle.symbol = s /\ h.candle.size = size}}
               = {b \in Series(s, size) : b < bucket[size]}
  <2>1. Told = Named /\ Told \subseteq ToldRecord
    BY <1>1, <1>3 DEF Told, EachTold, Ended
  <2>2. \A b : b \in Series(s, size) => b \in Nat
    BY <1>1, TapeIs
  <2>3. \A b \in Nat :
          [symbol |-> s, size |-> size, at |-> b] \in Told <=> b \in Series(s, size) /\ b < bucket[size]
    BY <1>1 DEF EachTold
  <2>4. ASSUME NEW h \in heard, h.candle.symbol = s, h.candle.size = size
        PROVE  h.candle.at \in Series(s, size) /\ h.candle.at < bucket[size]
    <3>1. h.candle \in ToldRecord /\ h.candle \in Told
      BY <2>1
    <3>2. h.candle = [symbol |-> s, size |-> size, at |-> h.candle.at] /\ h.candle.at \in Nat
      BY <2>4, <3>1 DEF ToldRecord
    <3> QED
      BY <2>3, <3>1, <3>2
  <2>5. ASSUME NEW b \in Series(s, size), b < bucket[size]
        PROVE  \E h \in heard : h.candle.symbol = s /\ h.candle.size = size /\ h.candle.at = b
    <3>1. [symbol |-> s, size |-> size, at |-> b] \in Named
      BY <2>1, <2>2, <2>3, <2>5
    <3>2. PICK h \in heard : h.candle = [symbol |-> s, size |-> size, at |-> b]
      BY <3>1
    <3> QED
      BY <3>2
  <2> QED
    BY <2>4, <2>5
<1>4. result # Unfinished => result.fall >= -result.final
  BY <1>1 DEF Ended
<1>5. \A h \in heard :
        LET c == h.candle IN
           /\ c.at + c.size <= h.time
           /\ c.at \in h.back
           /\ \A b \in h.back : \A m \in Made(c.symbol, c.size, b) : m < h.time /\ m <= h.price
           /\ h.price <= h.time
  BY <1>1 DEF HeardInTime
<1> QED
  BY <1>2, <1>3, <1>4, <1>5 DEF BacktestSeesNoFuture

\* A run of the tester stays within its tapes, its clock and its bounds (run() and its
\* loop over the minutes).
THEOREM TesterTypeCorrect == TesterSpec => []TesterTypeOK
<1>1. TesterInv => TesterTypeOK
  BY DEF TesterInv, RunShape, TesterTypeOK
<1> QED
  BY <1>1, TesterAlways, PTL

\* Whatever the tapes, the strategies and their profits: a strategy is told of each
\* candle that was over, once, with no bar of what was not, at a price the replay has
\* come to, and no run reports a fall smaller than its loss (visibleCandles of
\* getCandles, the telling of closed candles, computeResults).
THEOREM BacktestHonest == TesterSpec => []BacktestSeesNoFuture
<1>1. TesterInv => BacktestSeesNoFuture
  BY TesterInvIsHonest
<1> QED
  BY <1>1, TesterAlways, PTL
=============================================================================
